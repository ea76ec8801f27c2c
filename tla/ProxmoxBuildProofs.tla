------------------------- MODULE ProxmoxBuildProofs -------------------------
(***************************************************************************)
(* TLAPS proofs about ProxmoxBuild and about the build with its console,   *)
(* ProxmoxConsole: types, whose VM the cleanup may touch, that a success   *)
(* is a finished image and a template final, that the console stream is    *)
(* over before the VM changes, and that every step of the build is a step  *)
(* of the contract of a remote build, RemoteBuild.                         *)
(*                                                                         *)
(* The node's tasks outlive the calls that started them, so none of the    *)
(* safety properties is inductive: IInv adds which tasks can still be in   *)
(* flight at each step of the builder, and what the VM looks like once the *)
(* builder has read a task's "OK".  A build that has not failed yet waits  *)
(* for every task it starts: PathInv.  A task that is still in flight      *)
(* after a failure is therefore the only one that can change the VM, and   *)
(* meets the VM as the build left it: ShapeInv.                            *)
(***************************************************************************)
EXTENDS ProxmoxConsole, TLAPS

InCleanup == pc \in CleanupSteps \cup {"cleaned"}

\* Stop and destroy address whatever VM has the VMID.  The VM is the build's
\* own at every step that can post one of them and while one of them is in
\* flight; both are never in flight together, so the first cannot remove the
\* VM under the second.
OwnershipInv ==
  /\ ~InCleanup => /\ task["stop"] = "idle" /\ task["destroy"] = "idle"
                   /\ vmCreated \/ task["create"] = "ok" => vm.owner = "ours"
  /\ pc = "cStatus" => /\ task["stop"] = "idle" /\ task["destroy"] = "idle"
                       /\ vm.owner = "ours"
  /\ pc = "cStop" => /\ task["destroy"] = "idle"
                     /\ ~awaiting => task["stop"] = "idle"
                     /\ vm.owner = "ours"
  /\ pc = "cDestroy" => /\ task["stop"] = "idle"
                        /\ ~awaiting => task["destroy"] = "idle"
                        /\ task["destroy"] = "idle" => vm.owner = "ours"
  /\ task["stop"] # "idle" => vm.owner = "ours"
  /\ task["destroy"] = "queued" => vm.owner = "ours"
  /\ task["stop"] = "idle" \/ task["destroy"] = "idle"

\* What the three VMs that the node can create from nothing look like.
LEMMA VMConstants ==
  /\ NoVM \in VMs /\ FreshVM \in VMs /\ ForeignVM \in VMs
  /\ NoVM.owner = "none" /\ NoVM.power = "stopped" /\ ~NoVM.booted
  /\ NoVM.ide2 = "empty" /\ ~NoVM.template /\ ~NoVM.protected
  /\ FreshVM.owner = "ours" /\ FreshVM.power = "stopped" /\ FreshVM.serial
  /\ FreshVM.ide2 = "installer" /\ ~FreshVM.template /\ ~FreshVM.protected
  /\ ForeignVM.owner = "foreign" /\ ForeignVM.ide2 = "empty"
  /\ ~ForeignVM.template /\ ~ForeignVM.protected
<1>1. NoVM \in VMs /\ FreshVM \in VMs /\ ForeignVM \in VMs
  BY DEF NoVM, FreshVM, ForeignVM, VMs
<1>2. /\ NoVM.owner = "none" /\ NoVM.power = "stopped" /\ ~NoVM.booted
      /\ NoVM.ide2 = "empty" /\ ~NoVM.template /\ ~NoVM.protected
  BY DEF NoVM
<1>3. /\ FreshVM.owner = "ours" /\ FreshVM.power = "stopped" /\ FreshVM.serial
      /\ FreshVM.ide2 = "installer" /\ ~FreshVM.template /\ ~FreshVM.protected
  BY DEF FreshVM, NoVM
<1>4. /\ ForeignVM.owner = "foreign" /\ ForeignVM.ide2 = "empty"
      /\ ~ForeignVM.template /\ ~ForeignVM.protected
  BY DEF ForeignVM, NoVM
<1> QED
  BY <1>1, <1>2, <1>3, <1>4

\* What a task does to the VM, field by field.
LEMMA VMEffect ==
  ASSUME vm \in VMs, cfg \in Configs, NEW op \in Ops
  PROVE  /\ VMAfter(op) \in VMs
         /\ VMAfter(op).owner = (CASE op = "create" -> "ours"
                                   [] op = "destroy" -> "none"
                                   [] OTHER -> vm.owner)
         /\ VMAfter(op).power = (CASE op \in {"create", "destroy", "stop"} -> "stopped"
                                   [] op = "start" -> "running"
                                   [] OTHER -> vm.power)
         /\ VMAfter(op).ide2 = (CASE op = "create" -> "installer"
                                  [] op \in {"finalize", "destroy"} -> "empty"
                                  [] op = "cloudInit" -> "cloudinit"
                                  [] OTHER -> vm.ide2)
         /\ op \notin {"create", "destroy"} =>
              /\ VMAfter(op).booted <=> (op = "start" \/ vm.booted)
              /\ VMAfter(op).serial <=> (op # "finalize" /\ vm.serial)
              /\ VMAfter(op).diskBoot <=> (op = "finalize" \/ vm.diskBoot)
         /\ VMAfter(op).template <=> \/ op = "template"
                                     \/ op \notin {"create", "destroy"} /\ vm.template
         /\ op = "options" => (VMAfter(op).protected <=> cfg.options = "protect")
         /\ op # "options" => (VMAfter(op).protected <=>
                                op \notin {"create", "destroy"} /\ vm.protected)
<1> USE DEF VMAfter
<1>1. CASE op = "create"
  BY <1>1, VMConstants
<1>2. CASE op = "destroy"
  BY <1>2, VMConstants
<1>3. CASE op = "start"
  BY <1>3 DEF VMs
<1>4. CASE op = "finalize"
  BY <1>4 DEF VMs
<1>5. CASE op = "cloudInit"
  BY <1>5 DEF VMs
<1>6. CASE op = "options"
  BY <1>6 DEF VMs, Configs
<1>7. CASE op = "template"
  BY <1>7 DEF VMs
<1>8. CASE op = "stop"
  BY <1>8 DEF VMs
<1>9. CASE op \in {"upload", "deleteISO"}
  BY <1>9 DEF VMs
<1> QED
  BY <1>1, <1>2, <1>3, <1>4, <1>5, <1>6, <1>7, <1>8, <1>9 DEF Ops

TaskStates == {"idle", "queued", "ok", "failed"}
NodeTypeOK == /\ vm \in VMs /\ iso \in BOOLEAN
              /\ task \in [Ops -> TaskStates]
              /\ awaiting \in BOOLEAN

\* The variables that no call of the client changes.
BuilderTypeOK ==
  /\ cfg \in Configs
  /\ vmCreated \in BOOLEAN /\ isoRecorded \in BOOLEAN
  /\ isoDeleted \in BOOLEAN /\ completed \in BOOLEAN
  /\ tempDir \in BOOLEAN /\ signalled \in BOOLEAN
  /\ expired \in BOOLEAN /\ warned \in BOOLEAN
  /\ vmAcked \in BOOLEAN /\ createLost \in BOOLEAN

\* Executing an operation keeps the types of what it changes.
LEMMA ExecuteTypes ==
  ASSUME TypeOK, NEW op \in Ops, Execute(op)
  PROVE  vm' \in VMs /\ iso' \in BOOLEAN
<1>1. vm' \in VMs
  BY VMEffect DEF Execute, TypeOK
<1>2. iso' \in BOOLEAN
  BY DEF Execute, ISOAfter, TypeOK
<1> QED
  BY <1>1, <1>2

\* So does every outcome of a call and of the wait for its task.
LEMMA CallTypes ==
  ASSUME TypeOK, NEW op \in Ops, Submit(op) \/ Succeeds(op) \/ Fails(op)
  PROVE  NodeTypeOK'
<1> USE DEF TypeOK, NodeTypeOK, TaskStates
<1>1. CASE Submit(op)
  BY <1>1 DEF Submit
<1>2. CASE Succeeds(op)
  <2>1. CASE Execute(op)
    BY <1>2, <2>1, ExecuteTypes DEF Succeeds
  <2> QED
    BY <1>2, <2>1 DEF Succeeds
<1>3. CASE CallFails(op)
  BY <1>3 DEF CallFails
<1>4. CASE WaitFails(op)
  BY <1>4 DEF WaitFails
<1> QED
  BY <1>1, <1>2, <1>3, <1>4 DEF Fails

\* A build starts with the types it keeps.
LEMMA TypeInit == Init => TypeOK
<1>1. Init => vm \in VMs
  BY VMConstants DEF Init
<1> QED
  BY <1>1 DEF Init, TypeOK, Steps, MainSteps, Ops, Configs

\* Every step of the builder, the node and the others keeps them.
LEMMA TypeStep == TypeOK /\ [Next]_vars => TypeOK'
<1> SUFFICES ASSUME TypeOK, [Next]_vars PROVE TypeOK'
  OBVIOUS
<1> USE DEF TypeOK, Quiet, buildState, node, history, builderOnly, Steps,
            MainSteps, CleanupSteps, Ended
<1>1. CASE ValidateTargetNameAvailable
  BY <1>1 DEF ValidateTargetNameAvailable, Reads
<1>2. CASE CreateInstallerISO
  BY <1>2 DEF CreateInstallerISO, Reads
<1>3. CASE PreflightBuildStorages
  BY <1>3 DEF PreflightBuildStorages, Reads
<1>4. CASE CheckTemporaryISOAbsent
  BY <1>4 DEF CheckTemporaryISOAbsent, Reads
<1>5. CASE UploadTemporaryInstallerISO
  <2>1. NodeTypeOK'
    BY <1>5, CallTypes DEF UploadTemporaryInstallerISO, Fails, Ops, NodeTypeOK, TaskStates
  <2>2. pc' \in Steps
    BY <1>5 DEF UploadTemporaryInstallerISO, Submit
  <2>3. BuilderTypeOK'
    <3>1. isoRecorded' \in BOOLEAN
      BY <1>5 DEF UploadTemporaryInstallerISO
    <3>2. UNCHANGED <<cfg, vmCreated, isoDeleted, completed, tempDir, signalled, expired,
                      warned, vmAcked, createLost>>
      BY <1>5 DEF UploadTemporaryInstallerISO
    <3> QED
      BY <3>1, <3>2 DEF BuilderTypeOK
  <2> QED
    BY <2>1, <2>2, <2>3 DEF NodeTypeOK, BuilderTypeOK, TaskStates
<1>6. CASE SelectVMID
  BY <1>6 DEF SelectVMID
<1>7. CASE CreateVM
  <2>1. NodeTypeOK'
    BY <1>7, CallTypes DEF CreateVM, Fails, Ops, NodeTypeOK, TaskStates
  <2>2. pc' \in Steps
    BY <1>7 DEF CreateVM, Submit
  <2>3. createLost' \in BOOLEAN /\ vmAcked' \in BOOLEAN /\ vmCreated' \in BOOLEAN
    BY <1>7 DEF CreateVM
  <2>4. BuilderTypeOK'
    BY <1>7, <2>3 DEF CreateVM, BuilderTypeOK
  <2> QED
    BY <2>1, <2>2, <2>4 DEF NodeTypeOK, BuilderTypeOK, TaskStates
<1>8. CASE DiscardTemporaryISO
  <2>1. NodeTypeOK'
    BY <1>8, CallTypes DEF DiscardTemporaryISO, DeleteTemporaryISO, Fails, Ops, NodeTypeOK,
       TaskStates
  <2>2. pc' \in Steps
    BY <1>8 DEF DiscardTemporaryISO, DeleteTemporaryISO, Submit
  <2>3. BuilderTypeOK'
    <3>1. isoDeleted' \in BOOLEAN
      BY <1>8 DEF DiscardTemporaryISO, DeleteTemporaryISO
    <3>2. UNCHANGED <<cfg, vmCreated, isoRecorded, completed, tempDir, signalled, expired,
                      warned, vmAcked, createLost>>
      BY <1>8 DEF DiscardTemporaryISO, DeleteTemporaryISO
    <3> QED
      BY <3>1, <3>2 DEF BuilderTypeOK
  <2> QED
    BY <2>1, <2>2, <2>3 DEF NodeTypeOK, BuilderTypeOK, TaskStates
<1>9. CASE StartVM
  <2>1. NodeTypeOK'
    BY <1>9, CallTypes DEF StartVM, VMStep, Fails, Ops, NodeTypeOK, TaskStates
  <2>2. pc' \in Steps
    BY <1>9 DEF StartVM, VMStep, Submit
  <2>3. BuilderTypeOK'
    BY <1>9 DEF StartVM, VMStep, BuilderTypeOK
  <2> QED
    BY <2>1, <2>2, <2>3 DEF NodeTypeOK, BuilderTypeOK, TaskStates
<1>10. CASE ReadStopped
  BY <1>10 DEF ReadStopped
<1>11. CASE PollFails
  BY <1>11 DEF PollFails
<1>12. CASE FinalizePostInstallConfig
  <2>1. NodeTypeOK'
    BY <1>12, CallTypes DEF FinalizePostInstallConfig, VMStep, Fails, Ops, NodeTypeOK,
       TaskStates
  <2>2. pc' \in Steps
    BY <1>12 DEF FinalizePostInstallConfig, VMStep, Submit
  <2>3. BuilderTypeOK'
    BY <1>12 DEF FinalizePostInstallConfig, VMStep, BuilderTypeOK
  <2> QED
    BY <2>1, <2>2, <2>3 DEF NodeTypeOK, BuilderTypeOK, TaskStates
<1>13. CASE ApplyCloudInitOptions
  <2>1. NodeTypeOK'
    BY <1>13, CallTypes DEF ApplyCloudInitOptions, VMStep, Fails, Ops, NodeTypeOK, TaskStates
  <2>2. pc' \in Steps
    BY <1>13 DEF ApplyCloudInitOptions, VMStep, Submit
  <2>3. BuilderTypeOK'
    BY <1>13 DEF ApplyCloudInitOptions, VMStep, BuilderTypeOK
  <2> QED
    BY <2>1, <2>2, <2>3 DEF NodeTypeOK, BuilderTypeOK, TaskStates
<1>14. CASE ApplyVMOptions
  <2>1. NodeTypeOK'
    BY <1>14, CallTypes DEF ApplyVMOptions, VMStep, Fails, Ops, NodeTypeOK, TaskStates
  <2>2. pc' \in Steps
    BY <1>14 DEF ApplyVMOptions, VMStep, Submit
  <2>3. BuilderTypeOK'
    BY <1>14 DEF ApplyVMOptions, VMStep, BuilderTypeOK
  <2> QED
    BY <2>1, <2>2, <2>3 DEF NodeTypeOK, BuilderTypeOK, TaskStates
<1>15. CASE MaybeConvertToTemplate
  <2>1. NodeTypeOK'
    BY <1>15, CallTypes DEF MaybeConvertToTemplate, VMStep, Fails, Ops, NodeTypeOK, TaskStates
  <2>2. pc' \in Steps
    BY <1>15 DEF MaybeConvertToTemplate, VMStep, Submit
  <2>3. BuilderTypeOK'
    BY <1>15 DEF MaybeConvertToTemplate, VMStep, BuilderTypeOK
  <2> QED
    BY <2>1, <2>2, <2>3 DEF NodeTypeOK, BuilderTypeOK, TaskStates
<1>16. CASE DeleteInstallerISO
  <2>1. NodeTypeOK'
    BY <1>16, CallTypes DEF DeleteInstallerISO, DeleteTemporaryISO, Fails, Ops, NodeTypeOK,
       TaskStates
  <2>2. pc' \in Steps
    BY <1>16 DEF DeleteInstallerISO, DeleteTemporaryISO, Submit
  <2>3. BuilderTypeOK'
    BY <1>16 DEF DeleteInstallerISO, DeleteTemporaryISO, BuilderTypeOK
  <2> QED
    BY <2>1, <2>2, <2>3 DEF NodeTypeOK, BuilderTypeOK, TaskStates
<1>17. CASE Return
  <2>1. pc' \in Steps
    BY <1>17 DEF Return
  <2>2. tempDir' \in BOOLEAN
    BY <1>17 DEF Return
  <2> QED
    BY <1>17, <2>1, <2>2 DEF Return
<1>18. CASE CleanupReadStatus
  BY <1>18 DEF CleanupReadStatus
<1>19. CASE CleanupStopVM
  <2>1. NodeTypeOK'
    BY <1>19, CallTypes DEF CleanupStopVM, Fails, Ops, NodeTypeOK, TaskStates
  <2>2. pc' \in Steps
    BY <1>19 DEF CleanupStopVM, Submit
  <2>3. BuilderTypeOK'
    BY <1>19 DEF CleanupStopVM, BuilderTypeOK
  <2> QED
    BY <2>1, <2>2, <2>3 DEF NodeTypeOK, BuilderTypeOK, TaskStates
<1>20. CASE CleanupDestroyVM
  <2>1. NodeTypeOK'
    BY <1>20, CallTypes DEF CleanupDestroyVM, Fails, Ops, NodeTypeOK, TaskStates
  <2>2. pc' \in Steps
    BY <1>20 DEF CleanupDestroyVM, Submit
  <2>3. BuilderTypeOK'
    <3>1. vmCreated' \in BOOLEAN /\ warned' \in BOOLEAN
      BY <1>20 DEF CleanupDestroyVM
    <3>2. UNCHANGED <<cfg, isoRecorded, isoDeleted, completed, tempDir, signalled, expired,
                      vmAcked, createLost>>
      BY <1>20 DEF CleanupDestroyVM
    <3> QED
      BY <3>1, <3>2 DEF BuilderTypeOK
  <2> QED
    BY <2>1, <2>2, <2>3 DEF NodeTypeOK, BuilderTypeOK, TaskStates
<1>21. CASE CleanupDeleteISO
  <2>1. NodeTypeOK'
    BY <1>21, CallTypes DEF CleanupDeleteISO, DeleteTemporaryISO, Fails, Ops, NodeTypeOK,
       TaskStates
  <2>2. pc' \in Steps
    BY <1>21 DEF CleanupDeleteISO, DeleteTemporaryISO, Submit
  <2>3. BuilderTypeOK'
    BY <1>21 DEF CleanupDeleteISO, DeleteTemporaryISO, BuilderTypeOK
  <2> QED
    BY <2>1, <2>2, <2>3 DEF NodeTypeOK, BuilderTypeOK, TaskStates
<1>22. CASE \E op \in Ops : TaskRuns(op)
  BY <1>22, ExecuteTypes DEF TaskRuns, Exits
<1>23. CASE \E op \in Ops : TaskFails(op)
  BY <1>23 DEF TaskFails, Exits
<1>24. CASE GuestPowersOff
  <2>1. vm' \in VMs
    BY <1>24 DEF GuestPowersOff, VMs
  <2> QED
    BY <1>24, <2>1 DEF GuestPowersOff
<1>25. CASE ForeignCreate
  BY <1>25, VMConstants DEF ForeignCreate
<1>26. CASE Signal
  BY <1>26 DEF Signal
<1>27. CASE CleanupExpires
  BY <1>27 DEF CleanupExpires
<1>28. CASE UNCHANGED vars
  BY <1>28 DEF vars
<1> QED
  BY <1>1, <1>2, <1>3, <1>4, <1>5, <1>6, <1>7, <1>8, <1>9, <1>10, <1>11, <1>12, <1>13,
     <1>14, <1>15, <1>16, <1>17, <1>18, <1>19, <1>20, <1>21, <1>22, <1>23, <1>24, <1>25,
     <1>26, <1>27, <1>28 DEF Next, Builder, Node

\* Every variable of a build and its node keeps its type.
THEOREM TypeCorrect == Spec => []TypeOK
  BY TypeInit, TypeStep, PTL DEF Spec

-----------------------------------------------------------------------------

MainOps == Ops \ {"stop", "destroy"}

\* No call or task of the build proper takes the VM away from its owner, and
\* none of them shows in the tasks of the cleanup.
LEMMA MainOpKeepsOwner ==
  ASSUME TypeOK, NEW op \in MainOps,
         Submit(op) \/ Succeeds(op) \/ Fails(op) \/ TaskRuns(op) \/ TaskFails(op)
  PROVE  /\ vm.owner # "none" => vm'.owner = vm.owner
         /\ task'["stop"] = task["stop"] /\ task'["destroy"] = task["destroy"]
<1>1. vm.owner # "none" => vm'.owner = vm.owner
  <2>1. Execute(op) /\ vm.owner # "none" => vm'.owner = vm.owner
    BY VMEffect DEF Execute, Applies, MainOps, TypeOK
  <2> QED
    BY <2>1 DEF Submit, Succeeds, Fails, CallFails, WaitFails, TaskRuns, TaskFails
<1>2. task'["stop"] = task["stop"] /\ task'["destroy"] = task["destroy"]
  BY DEF Submit, Succeeds, Fails, CallFails, WaitFails, TaskRuns, TaskFails, Exits,
         MainOps, Ops, TypeOK
<1> QED
  BY <1>1, <1>2

\* What a step of the build proper does, as far as OwnershipInv can tell.
MainFrame ==
  /\ pc \in MainSteps /\ pc' \in MainSteps \cup {"return"}
  /\ task'["stop"] = task["stop"] /\ task'["destroy"] = task["destroy"]
  /\ vm.owner = "ours" => vm'.owner = "ours"
  /\ task'["create"] = "ok" => task["create"] = "ok"
  /\ vmCreated' => vmCreated \/ vm'.owner = "ours"

\* A step on the build's main path leaves whose VM it is.
LEMMA MainFramePreserves ==
  ASSUME TypeOK, OwnershipInv, MainFrame
  PROVE  OwnershipInv'
<1>1. ~InCleanup /\ ~InCleanup'
  BY DEF MainFrame, InCleanup, MainSteps, CleanupSteps
<1> QED
  BY <1>1 DEF OwnershipInv, MainFrame, InCleanup, CleanupSteps

\* A step that only reads is a MainFrame.
LEMMA ReadIsMainFrame ==
  ASSUME NEW step \in MainSteps, NEW next \in MainSteps, Reads(step, next)
  PROVE  MainFrame
  BY DEF Reads, MainFrame, buildState, node

\* So is a call of the build proper that leaves vmCreated alone.
LEMMA CallIsMainFrame ==
  ASSUME TypeOK, NEW op \in MainOps, pc \in MainSteps,
         pc' \in MainSteps \cup {"return"}, vmCreated' = vmCreated,
         Submit(op) \/ Succeeds(op) \/ Fails(op)
  PROVE  MainFrame
<1>1. task'["create"] = "ok" => task["create"] = "ok"
  BY DEF Submit, Succeeds, Fails, CallFails, WaitFails, MainOps, Ops, TypeOK
<1> QED
  BY <1>1, MainOpKeepsOwner DEF MainFrame

\* Every action of installWithClient before its return is a MainFrame.
MainActions ==
  \/ ValidateTargetNameAvailable \/ CreateInstallerISO
  \/ PreflightBuildStorages \/ CheckTemporaryISOAbsent
  \/ UploadTemporaryInstallerISO \/ SelectVMID \/ CreateVM
  \/ DiscardTemporaryISO \/ StartVM \/ ReadStopped \/ PollFails
  \/ FinalizePostInstallConfig \/ ApplyCloudInitOptions \/ ApplyVMOptions
  \/ MaybeConvertToTemplate \/ DeleteInstallerISO

\* The actions of the main path are such steps.
LEMMA MainActionIsMainFrame ==
  ASSUME TypeOK, OwnershipInv, MainActions
  PROVE  MainFrame
<1>1. CASE ValidateTargetNameAvailable
  BY <1>1, ReadIsMainFrame DEF ValidateTargetNameAvailable, MainSteps
<1>2. CASE CreateInstallerISO
  BY <1>2, ReadIsMainFrame DEF CreateInstallerISO, MainSteps
<1>3. CASE PreflightBuildStorages
  BY <1>3, ReadIsMainFrame DEF PreflightBuildStorages, MainSteps
<1>4. CASE CheckTemporaryISOAbsent
  BY <1>4, ReadIsMainFrame DEF CheckTemporaryISOAbsent, MainSteps
<1>5. CASE UploadTemporaryInstallerISO
  <2>1. pc \in MainSteps /\ pc' \in MainSteps \cup {"return"}
    BY <1>5 DEF UploadTemporaryInstallerISO, Submit, MainSteps
  <2>2. Submit("upload") \/ Succeeds("upload") \/ Fails("upload")
    BY <1>5 DEF UploadTemporaryInstallerISO
  <2> QED
    BY <1>5, <2>1, <2>2, CallIsMainFrame DEF UploadTemporaryInstallerISO, MainOps, Ops
<1>6. CASE SelectVMID
  BY <1>6 DEF SelectVMID, MainFrame, MainSteps, buildState, node
<1>7. CASE CreateVM
  <2>1. pc \in MainSteps /\ pc' \in MainSteps \cup {"return"}
    BY <1>7 DEF CreateVM, Submit, MainSteps
  <2>2. Submit("create") \/ Succeeds("create") \/ Fails("create")
    BY <1>7 DEF CreateVM, Fails
  <2>3. Succeeds("create") => vm'.owner = "ours"
    <3>1. ~InCleanup
      BY <2>1 DEF InCleanup, MainSteps, CleanupSteps
    <3>2. Execute("create") => vm'.owner = "ours"
      BY VMConstants DEF Execute, VMAfter
    <3>3. ~Gone("create")
      BY DEF Gone
    <3> QED
      BY <3>1, <3>2, <3>3 DEF Succeeds, TaskOK, OwnershipInv
  <2>4. vmCreated' => vmCreated \/ vm'.owner = "ours"
    BY <1>7, <2>3 DEF CreateVM
  <2>5. "create" \in MainOps
    BY DEF MainOps, Ops
  <2>6. task'["create"] = "ok" => task["create"] = "ok"
    BY <2>2, <2>5 DEF Submit, Succeeds, Fails, CallFails, WaitFails, MainOps, TypeOK
  <2> QED
    BY <2>1, <2>2, <2>4, <2>5, <2>6, MainOpKeepsOwner DEF MainFrame
<1>8. CASE DiscardTemporaryISO \/ DeleteInstallerISO
  <2>1. pc \in MainSteps /\ pc' \in MainSteps \cup {"return"} /\ vmCreated' = vmCreated
    BY <1>8 DEF DiscardTemporaryISO, DeleteInstallerISO, DeleteTemporaryISO, Submit, MainSteps
  <2>2. CASE ISOToDelete
    <3>1. Submit("deleteISO") \/ Succeeds("deleteISO") \/ Fails("deleteISO")
      BY <1>8, <2>2 DEF DiscardTemporaryISO, DeleteInstallerISO, DeleteTemporaryISO
    <3> QED
      BY <2>1, <3>1, CallIsMainFrame DEF MainOps, Ops
  <2>3. CASE ~ISOToDelete
    BY <1>8, <2>1, <2>3 DEF DiscardTemporaryISO, DeleteInstallerISO, DeleteTemporaryISO,
                            node, MainFrame
  <2> QED
    BY <2>2, <2>3
<1>9. ASSUME NEW step \in {"start", "finalize", "cloudInit", "options", "template"},
             NEW wanted \in BOOLEAN, NEW next \in MainSteps, VMStep(step, wanted, next)
      PROVE  MainFrame
  <2>1. pc \in MainSteps /\ pc' \in MainSteps \cup {"return"} /\ vmCreated' = vmCreated
    BY <1>9 DEF VMStep, Submit, MainSteps, buildState
  <2>2. CASE wanted
    BY <1>9, <2>1, <2>2, CallIsMainFrame DEF VMStep, MainOps, Ops
  <2>3. CASE ~wanted
    BY <1>9, <2>1, <2>3 DEF VMStep, node, MainFrame
  <2> QED
    BY <2>2, <2>3
<1>10. CASE StartVM
  BY <1>9, <1>10 DEF StartVM, MainSteps
<1>11. CASE ReadStopped \/ PollFails
  BY <1>11 DEF ReadStopped, PollFails, MainFrame, MainSteps, buildState, node
<1>12. CASE FinalizePostInstallConfig
  BY <1>9, <1>12 DEF FinalizePostInstallConfig, MainSteps
<1>13. CASE ApplyCloudInitOptions
  BY <1>9, <1>13 DEF ApplyCloudInitOptions, MainSteps, TypeOK, Configs
<1>14. CASE ApplyVMOptions
  BY <1>9, <1>14 DEF ApplyVMOptions, MainSteps
<1>15. CASE MaybeConvertToTemplate
  BY <1>9, <1>15 DEF MaybeConvertToTemplate, MainSteps, TypeOK, Configs
<1> QED
  BY <1>1, <1>2, <1>3, <1>4, <1>5, <1>6, <1>7, <1>8, <1>10, <1>11, <1>12, <1>13,
     <1>14, <1>15 DEF MainActions

-----------------------------------------------------------------------------
(* The deferred cleanup, the node, and the theorem.                        *)

\* The return of the build, with its deferred cleanup or without.
LEMMA ReturnPreserves ==
  ASSUME TypeOK, OwnershipInv, Return
  PROVE  OwnershipInv'
<1>1. ~InCleanup
  BY DEF Return, InCleanup, CleanupSteps
<1>2. pc' \in {"cStatus", "cDeleteISO", "ended"} /\ (pc' = "cStatus" => vmCreated)
  BY DEF Return, VMToDestroy
<1> QED
  BY <1>1, <1>2 DEF Return, OwnershipInv, InCleanup, CleanupSteps, node, buildState

\* The cleanup only reaches for the VM that the build recorded.
LEMMA CleanupPreserves ==
  ASSUME TypeOK, OwnershipInv,
         CleanupReadStatus \/ CleanupStopVM \/ CleanupDestroyVM \/ CleanupDeleteISO
  PROVE  OwnershipInv'
<1> USE DEF InCleanup, CleanupSteps
<1>1. CASE CleanupReadStatus
  BY <1>1 DEF CleanupReadStatus, OwnershipInv, node, buildState
<1>2. CASE CleanupStopVM
  <2>1. pc = "cStop" /\ pc' \in {"cStop", "cDestroy", "cDeleteISO"}
    BY <1>2 DEF CleanupStopVM, Submit
  <2>2. vm'.owner = "ours" /\ task'["destroy"] = "idle"
    <3>1. Execute("stop") => vm'.owner = vm.owner
      BY VMEffect DEF Execute, Ops, TypeOK
    <3> QED
      BY <1>2, <3>1 DEF CleanupStopVM, OwnershipInv, Submit, Succeeds, Fails, CallFails,
                        WaitFails, Gone, TypeOK, Ops
  <2>3. pc' = "cDestroy" => task'["stop"] = "idle"
    <3>1. pc' = "cDestroy" => Succeeds("stop")
      BY <1>2 DEF CleanupStopVM, Submit
    <3>2. Execute("stop") => vm.owner = "ours"
      BY <2>1 DEF OwnershipInv
    <3> QED
      BY <3>1, <3>2, <2>1 DEF Succeeds, TaskOK, OwnershipInv, TypeOK, Ops
  <2>4. pc' = "cStop" => awaiting'
    BY <1>2, <2>1 DEF CleanupStopVM, Submit
  <2> QED
    BY <2>1, <2>2, <2>3, <2>4 DEF OwnershipInv
<1>3. CASE CleanupDestroyVM
  <2>1. pc = "cDestroy" /\ pc' \in {"cDestroy", "cDeleteISO"}
    BY <1>3 DEF CleanupDestroyVM, Submit
  <2>2. task'["stop"] = "idle"
    BY <1>3, <2>1 DEF CleanupDestroyVM, OwnershipInv, Submit, Succeeds, Fails, CallFails,
                      WaitFails, TypeOK, Ops
  <2>3. task'["destroy"] = "queued" => vm'.owner = "ours"
    BY <1>3, <2>1 DEF CleanupDestroyVM, OwnershipInv, Submit, Succeeds, Fails, CallFails,
                      WaitFails, TaskOK, TypeOK, Ops
  <2>4. pc' = "cDestroy" => awaiting' /\ task'["destroy"] = "queued"
    BY <1>3, <2>1 DEF CleanupDestroyVM, Submit, TypeOK, Ops
  <2> QED
    BY <2>1, <2>2, <2>3, <2>4 DEF OwnershipInv
<1>4. CASE CleanupDeleteISO
  <2>1. pc = "cDeleteISO" /\ pc' \in {"cDeleteISO", "cleaned"}
    BY <1>4 DEF CleanupDeleteISO, DeleteTemporaryISO, Submit
  <2>2. /\ vm'.owner = vm.owner
        /\ task'["stop"] = task["stop"] /\ task'["destroy"] = task["destroy"]
    <3>1. CASE ISOToDelete
      <4>1. Execute("deleteISO") => vm'.owner = vm.owner
        BY VMEffect DEF Execute, Ops, TypeOK
      <4> QED
        BY <1>4, <3>1, <4>1 DEF CleanupDeleteISO, DeleteTemporaryISO, Submit, Succeeds, Fails,
                                CallFails, WaitFails, TypeOK, Ops
    <3>2. CASE ~ISOToDelete
      BY <1>4, <3>2 DEF CleanupDeleteISO, DeleteTemporaryISO, node
    <3> QED
      BY <3>1, <3>2
  <2> QED
    BY <2>1, <2>2 DEF OwnershipInv
<1> QED
  BY <1>1, <1>2, <1>3, <1>4

\* The node's tasks, those that nobody waits for included.
LEMMA NodePreserves ==
  ASSUME TypeOK, OwnershipInv, Node
  PROVE  OwnershipInv'
<1> USE DEF InCleanup, builderOnly, buildState
<1>1. ASSUME NEW op \in MainOps, TaskRuns(op) \/ TaskFails(op)
      PROVE  OwnershipInv'
  <2>1. /\ vm.owner # "none" => vm'.owner = vm.owner
        /\ task'["stop"] = task["stop"] /\ task'["destroy"] = task["destroy"]
    BY <1>1, MainOpKeepsOwner
  <2>2. task'["create"] = "ok" => task["create"] = "ok" \/ vm'.owner = "ours"
    <3>1. Execute("create") => vm'.owner = "ours"
      BY VMConstants DEF Execute, VMAfter
    <3> QED
      BY <1>1, <3>1 DEF TaskRuns, TaskFails, Exits, MainOps, Ops, TypeOK
  <2> QED
    BY <1>1, <2>1, <2>2 DEF OwnershipInv, TaskRuns, TaskFails
<1>2. ASSUME NEW op \in {"stop", "destroy"}, TaskRuns(op)
      PROVE  OwnershipInv'
  <2>1. vm.owner = "ours" /\ InCleanup
    BY <1>2 DEF TaskRuns, OwnershipInv
  <2>2. /\ op = "stop" => vm'.owner = "ours" /\ task'["destroy"] = task["destroy"]
        /\ op = "destroy" => task'["stop"] = task["stop"] /\ task'["destroy"] # "queued"
        /\ task'["create"] = task["create"]
    BY <1>2, <2>1, VMEffect DEF TaskRuns, Execute, Exits, TypeOK, Ops
  <2>3. op = "destroy" => task["stop"] = "idle" /\ pc \notin {"cStatus", "cStop"}
    BY <1>2 DEF TaskRuns, OwnershipInv
  <2>4. op = "stop" => task["destroy"] = "idle" /\ pc \notin {"cStatus", "cDestroy"}
    BY <1>2 DEF TaskRuns, OwnershipInv
  <2>5. op = "destroy" /\ pc = "cDestroy" => awaiting /\ task'["destroy"] # "idle"
    BY <1>2 DEF TaskRuns, Exits, OwnershipInv, TypeOK, Ops, OpOf
  <2>6. UNCHANGED <<pc, awaiting, vmCreated>>
    BY <1>2 DEF TaskRuns
  <2>7. pc = "cStop" => awaiting
    BY <1>2 DEF TaskRuns, OwnershipInv
  <2> QED
    BY <1>2, <2>1, <2>2, <2>3, <2>4, <2>5, <2>6, <2>7 DEF OwnershipInv
<1>3. ASSUME NEW op \in {"stop", "destroy"}, TaskFails(op)
      PROVE  OwnershipInv'
  <2>1. vm.owner = "ours" /\ vm' = vm
    BY <1>3 DEF TaskFails, OwnershipInv
  <2>2. /\ \A o \in Ops : o # op => task'[o] = task[o]
        /\ task'[op] \in {"idle", "failed"}
    BY <1>3 DEF TaskFails, Exits, TypeOK, Ops
  <2> QED
    BY <1>3, <2>1, <2>2 DEF TaskFails, OwnershipInv, Ops
<1>4. CASE GuestPowersOff
  <2>1. vm'.owner = vm.owner
    BY <1>4 DEF GuestPowersOff, TypeOK, VMs
  <2> QED
    BY <1>4, <2>1 DEF GuestPowersOff, OwnershipInv
<1>5. CASE ForeignCreate
  BY <1>5 DEF ForeignCreate, OwnershipInv
<1> QED
  BY <1>1, <1>2, <1>3, <1>4, <1>5 DEF Node, MainOps

\* Every step keeps the VM the build's own where OwnershipInv says so.
LEMMA OwnershipStep == TypeOK /\ OwnershipInv /\ [Next]_vars => OwnershipInv'
<1> SUFFICES ASSUME TypeOK, OwnershipInv, [Next]_vars PROVE OwnershipInv'
  OBVIOUS
<1>1. CASE MainActions
  BY <1>1, MainActionIsMainFrame, MainFramePreserves
<1>2. CASE Signal \/ CleanupExpires \/ UNCHANGED vars
  BY <1>2 DEF Signal, CleanupExpires, vars, OwnershipInv, InCleanup, node, buildState
<1>3. CASE Node
  BY <1>3, NodePreserves
<1>4. CASE Return
  BY <1>4, ReturnPreserves
<1>5. CASE CleanupReadStatus \/ CleanupStopVM \/ CleanupDestroyVM \/ CleanupDeleteISO
  BY <1>5, CleanupPreserves
<1> QED
  BY <1>1, <1>2, <1>3, <1>4, <1>5 DEF Next, Builder, MainActions

\* A build starts without a stop, a destroy or a VM of its own.
LEMMA OwnershipStart == Init => OwnershipInv
  BY VMConstants DEF Init, OwnershipInv, InCleanup, CleanupSteps, Ops

\* The VM is the build's own whenever a stop or a destroy can reach it.
THEOREM Ownership == Spec => []OwnershipInv
  BY OwnershipStart, OwnershipStep, TypeCorrect, PTL DEF Spec

\* The outcomes of a call that leave a VM of another client alone.
LEMMA CallSparesForeign ==
  ASSUME NEW op \in MainOps, vm.owner = "foreign",
         Submit(op) \/ Succeeds(op) \/ Fails(op) \/ TaskRuns(op) \/ TaskFails(op)
  PROVE  vm' = vm
<1>1. Execute(op) => vm' = vm
  BY DEF Execute, Applies, VMAfter, MainOps, Ops
<1> QED
  BY <1>1 DEF Submit, Succeeds, Fails, CallFails, WaitFails, TaskRuns, TaskFails

\* A step from a state with a foreign VM on the VMID leaves that VM alone.
LEMMA ForeignStep ==
  ASSUME TypeOK, OwnershipInv, [Next]_vars, vm.owner = "foreign"
  PROVE  vm' = vm
<1> USE DEF buildState, node, Quiet
<1>1. CASE ValidateTargetNameAvailable \/ CreateInstallerISO
           \/ PreflightBuildStorages \/ CheckTemporaryISOAbsent
  BY <1>1 DEF ValidateTargetNameAvailable, CreateInstallerISO, PreflightBuildStorages,
              CheckTemporaryISOAbsent, Reads
<1>2. CASE UploadTemporaryInstallerISO \/ CreateVM
  BY <1>2, CallSparesForeign DEF UploadTemporaryInstallerISO, CreateVM, Fails, MainOps, Ops
<1>3. CASE StartVM \/ FinalizePostInstallConfig \/ ApplyCloudInitOptions
           \/ ApplyVMOptions \/ MaybeConvertToTemplate
  <2>1. ASSUME NEW step \in MainOps, NEW wanted, NEW next, VMStep(step, wanted, next)
        PROVE  vm' = vm
    BY <2>1, CallSparesForeign DEF VMStep
  <2> QED
    BY <1>3, <2>1 DEF StartVM, FinalizePostInstallConfig, ApplyCloudInitOptions,
                      ApplyVMOptions, MaybeConvertToTemplate, MainOps, Ops
<1>4. CASE DiscardTemporaryISO \/ DeleteInstallerISO \/ CleanupDeleteISO
  BY <1>4, CallSparesForeign DEF DiscardTemporaryISO, DeleteInstallerISO,
         CleanupDeleteISO, DeleteTemporaryISO, MainOps, Ops
<1>5. CASE SelectVMID \/ ReadStopped \/ PollFails \/ Return \/ CleanupReadStatus
  BY <1>5 DEF SelectVMID, ReadStopped, PollFails, Return, CleanupReadStatus
<1>6. CASE CleanupStopVM
  <2>1. pc = "cStop"
    BY <1>6 DEF CleanupStopVM
  <2> QED
    BY <2>1 DEF OwnershipInv
<1>7. CASE CleanupDestroyVM
  <2>1. pc = "cDestroy"
    BY <1>7 DEF CleanupDestroyVM
  <2>2. awaiting
    BY <2>1 DEF OwnershipInv
  <2> QED
    BY <1>7, <2>2 DEF CleanupDestroyVM, Submit, Succeeds, Fails, CallFails, WaitFails
<1>8. CASE Node
  <2>1. ASSUME NEW op \in {"stop", "destroy"}, TaskRuns(op)
        PROVE  FALSE
    BY <2>1 DEF TaskRuns, OwnershipInv
  <2>2. ASSUME NEW op \in Ops, TaskRuns(op) \/ TaskFails(op)
        PROVE  vm' = vm
    BY <2>1, <2>2, CallSparesForeign DEF TaskFails, MainOps
  <2> QED
    BY <1>8, <2>2 DEF Node, GuestPowersOff, ForeignCreate
<1>9. CASE Signal \/ CleanupExpires \/ UNCHANGED vars
  BY <1>9 DEF Signal, CleanupExpires, vars
<1> QED
  BY <1>1, <1>2, <1>3, <1>4, <1>5, <1>6, <1>7, <1>8, <1>9 DEF Next, Builder

\* A build, its abandoned tasks and its interrupt cleanup never stop,
\* reconfigure or destroy the VM of another client that has its VMID.
THEOREM ForeignVMSafe == Spec => ForeignVMUntouched
<1>1. TypeOK /\ OwnershipInv /\ [Next]_vars => [vm.owner = "foreign" => vm' = vm]_vars
  BY ForeignStep
<1> QED
  BY <1>1, TypeCorrect, Ownership, PTL DEF Spec, ForeignVMUntouched

-----------------------------------------------------------------------------
(* What the build promises.                                                *)

\* The steps of a build that has not failed; what comes before and after the
\* answers to CreateVM and to the upload.
PathSteps == MainSteps \ {"discardISO"}
AfterCreate == {"start", "poll", "finalize", "cloudInit", "options",
                "template", "deleteISO"}
BeforeCreate == MainSteps \ AfterCreate
AfterUpload == AfterCreate \cup {"selectVMID", "create"}

VMOps == {"create", "start", "finalize", "cloudInit", "options", "template"}

CallSteps == VMOps \cup {"upload", "discardISO", "deleteISO", "cStop",
                         "cDestroy", "cDeleteISO"}

\* A task whose end is known is the one the builder waits for.
AwaitInv ==
  /\ awaiting => pc \in CallSteps /\ task[OpOf(pc)] # "idle"
  /\ \A op \in Ops : task[op] \in {"ok", "failed"} => awaiting /\ op = OpOf(pc)

\* A build that has not failed has no task but the one it waits for; the VM
\* never has more than one of its operations in flight.
PathInv ==
  /\ pc \in PathSteps \/ completed =>
       \A op \in Ops : task[op] # "idle" => awaiting /\ op = OpOf(pc)
  /\ completed => pc \in {"return", "ended"}
  /\ InCleanup => signalled /\ ~completed
  /\ \A op1, op2 \in VMOps :
       task[op1] # "idle" /\ task[op2] # "idle" => op1 = op2

\* The ISO is where buildState says it is.
ISOInv ==
  /\ isoRecorded => task["upload"] = "idle"
  /\ task["upload"] = "ok" => iso
  /\ task["deleteISO"] # "idle" => isoRecorded
  /\ task["deleteISO"] = "ok" => ~iso
  /\ awaiting /\ OpOf(pc) = "deleteISO" => ISOToDelete
  /\ isoDeleted => isoRecorded /\ ~iso
  /\ pc \in AfterUpload => isoRecorded /\ (pc # "deleteISO" => iso)
  /\ pc = "discardISO" => isoRecorded
  /\ pc \in PathSteps \ AfterUpload => ~isoRecorded

\* The machine is the build's from the answer to CreateVM on.
AckInv ==
  /\ pc \in AfterCreate \/ completed => vmAcked
  /\ pc \in BeforeCreate => ~vmAcked
  /\ vmAcked => task["create"] = "idle"
  /\ pc \notin {"cDeleteISO", "cleaned"} => vmCreated = vmAcked
  /\ pc \in {"cDeleteISO", "cleaned"} /\ ~warned /\ vmAcked => vm.owner # "ours"
  /\ task["destroy"] = "ok" => vm.owner # "ours"
  /\ task["destroy"] # "idle" => vmAcked
  /\ pc \in {"cStatus", "cStop", "cDestroy"} => vmAcked

\* The drive a finished VM has where the installer was.
FinalDrive == IF cfg.cloudInit THEN "cloudinit" ELSE "empty"

\* The build's VM before each operation of the build runs.
Installing == vm.ide2 = "installer" /\ vm.serial /\ ~vm.template /\ ~vm.protected
Installed == vm.booted /\ vm.power = "stopped" /\ ~vm.template /\ ~vm.protected
Bare == Installed /\ ~vm.serial /\ vm.diskBoot
Before(op) ==
  CASE op = "create" -> TRUE
    [] op = "start" -> Installing
    [] op = "poll" -> Installing /\ vm.booted
    [] op = "finalize" -> Installing /\ Installed
    [] op = "cloudInit" -> Bare /\ vm.ide2 = "empty"
    [] op = "options" -> Bare /\ vm.ide2 = FinalDrive
    [] op = "template" -> /\ vm.booted /\ vm.power = "stopped" /\ ~vm.template
                          /\ ~vm.serial /\ vm.diskBoot /\ vm.ide2 = FinalDrive
                          /\ vm.protected = (cfg.options = "protect")
    [] OTHER -> Finished

NextOp(op) ==
  CASE op = "create" -> "start"
    [] op = "start" -> "poll"
    [] op = "poll" -> "finalize"
    [] op = "finalize" -> "cloudInit"
    [] op = "cloudInit" -> "options"
    [] op = "options" -> "template"
    [] OTHER -> "deleteISO"

Ours == vm.owner = "ours"

\* What a task in flight will meet, and what one that ended OK has left.
ShapeInv ==
  /\ \A op \in VMOps :
       /\ task[op] = "queued" /\ Ours => Before(op)
       /\ task[op] = "ok" /\ Ours => Before(NextOp(op))
       /\ pc = op /\ ~awaiting /\ Ours => Before(op)
  /\ pc = "poll" /\ Ours => Before("poll")
  /\ pc = "deleteISO" /\ Ours => Finished
  /\ completed => Finished
  /\ task["deleteISO"] # "idle" /\ ~signalled => ~vmAcked \/ Finished
  /\ task["cloudInit"] # "idle" => cfg.cloudInit
  /\ task["options"] # "idle" => cfg.options # "off"
  /\ task["template"] # "idle" => cfg.template

\* A success is declared once the ISO is deleted.
DoneInv == completed => isoDeleted

BuildInv == AwaitInv /\ PathInv /\ ISOInv /\ AckInv /\ ShapeInv /\ DoneInv

-----------------------------------------------------------------------------
(* What the outcomes of a call do to the tasks.                            *)

Calls(op) == Submit(op) \/ Succeeds(op) \/ Fails(op)

\* What a call does to the tasks: it submits its own, or learns how it ended.
LEMMA CallEffect ==
  ASSUME TypeOK, AwaitInv, NEW op \in Ops, op = OpOf(pc), Calls(op)
  PROVE  /\ \A o \in Ops : o # op => task'[o] = task[o]
         /\ task'[op] \in {"idle", "queued"}
         /\ Submit(op) => awaiting' /\ pc' = pc /\ task'[op] = "queued"
         /\ Succeeds(op) \/ Fails(op) => ~awaiting'
         /\ Succeeds(op) => IF awaiting THEN task[op] = "ok" /\ task'[op] = "idle"
                                        ELSE task' = task
<1> USE DEF TypeOK
<1>1. CASE Submit(op)
  BY <1>1 DEF Submit, Succeeds, Fails, CallFails, WaitFails, TaskOK
<1>2. CASE Succeeds(op)
  BY <1>2 DEF Submit, Succeeds, Fails, CallFails, WaitFails, AwaitInv, TaskOK
<1>3. CASE CallFails(op)
  BY <1>3 DEF Submit, Succeeds, Fails, CallFails, AwaitInv, TaskOK
<1>4. CASE WaitFails(op)
  BY <1>4 DEF Submit, Succeeds, Fails, CallFails, WaitFails, AwaitInv, TaskOK
<1> QED
  BY <1>1, <1>2, <1>3, <1>4 DEF Calls, Fails

\* A call of the builder is the one whose task it waits for.
LEMMA CallKeepsAwait ==
  ASSUME TypeOK, AwaitInv, NEW op \in Ops, op = OpOf(pc), pc \in CallSteps, Calls(op)
  PROVE  AwaitInv'
<1>1. CASE Submit(op)
  BY <1>1, CallEffect DEF AwaitInv, TypeOK
<1>2. CASE Succeeds(op) \/ Fails(op)
  BY <1>2, CallEffect DEF AwaitInv, TypeOK
<1> QED
  BY <1>1, <1>2 DEF Calls

\* What the end of a task does to the tasks.
LEMMA TaskEffect ==
  ASSUME TypeOK, NEW op \in Ops, TaskRuns(op) \/ TaskFails(op)
  PROVE  /\ task[op] = "queued"
         /\ \A o \in Ops : o # op => task'[o] = task[o]
         /\ awaiting /\ op = OpOf(pc) => task'[op] \in {"ok", "failed"}
         /\ ~(awaiting /\ op = OpOf(pc)) => task'[op] = "idle"
         /\ Execute(op) \/ (task'[op] # "ok" /\ vm' = vm /\ iso' = iso)
<1> USE DEF TypeOK, Exits
<1>1. CASE TaskRuns(op)
  BY <1>1 DEF TaskRuns
<1>2. CASE TaskFails(op)
  BY <1>2 DEF TaskFails
<1> QED
  BY <1>1, <1>2

-----------------------------------------------------------------------------
(* The actions in the groups that the proofs below treat alike.            *)

ReadActions ==
  \/ ValidateTargetNameAvailable \/ CreateInstallerISO
  \/ PreflightBuildStorages \/ CheckTemporaryISOAbsent \/ SelectVMID
  \/ ReadStopped \/ PollFails \/ Return \/ CleanupReadStatus

\* The steps that call nothing or only read, and what follows them.
ReadMoves ==
  \/ pc = "validate" /\ pc' \in {"localISO", "return"}
  \/ pc = "localISO" /\ pc' \in {"preflight", "return"}
  \/ pc = "preflight" /\ pc' \in {"checkISO", "return"}
  \/ pc = "checkISO" /\ pc' \in {"upload", "return"}
  \/ pc = "selectVMID" /\ pc' \in {"create", "discardISO"}
  \/ pc = "poll" /\ pc' = "finalize" /\ vm.power = "stopped"
  \/ pc = "poll" /\ pc' = "return"
  \/ pc = "return" /\ pc' \in {"cStatus", "cDeleteISO"}
       /\ signalled /\ ~completed /\ (vmCreated <=> pc' = "cStatus")
  \/ pc = "return" /\ pc' = "ended" /\ (completed \/ ~signalled)
  \/ pc = "cStatus" /\ pc' \in {"cStop", "cDestroy"}

ReadFrame ==
  /\ pc \notin CallSteps
  /\ ReadMoves
  /\ UNCHANGED <<cfg, awaiting, vmCreated, isoRecorded, isoDeleted, completed,
                 signalled, warned, vm, iso, task, vmAcked>>

\* The steps that ask the node for something leave what the invariant is about.
LEMMA ReadsFrame ==
  ASSUME TypeOK, ReadActions
  PROVE  ReadFrame
<1> USE DEF ReadFrame, ReadMoves, buildState, node, history, Quiet, CallSteps, VMOps
<1>1. CASE ValidateTargetNameAvailable
  BY <1>1 DEF ValidateTargetNameAvailable, Reads
<1>2. CASE CreateInstallerISO
  BY <1>2 DEF CreateInstallerISO, Reads
<1>3. CASE PreflightBuildStorages
  BY <1>3 DEF PreflightBuildStorages, Reads
<1>4. CASE CheckTemporaryISOAbsent
  BY <1>4 DEF CheckTemporaryISOAbsent, Reads
<1>5. CASE SelectVMID
  BY <1>5 DEF SelectVMID
<1>6. CASE ReadStopped \/ PollFails
  BY <1>6 DEF ReadStopped, PollFails
<1>7. CASE Return
  BY <1>7 DEF Return, CleanupDue, VMToDestroy, TypeOK
<1>8. CASE CleanupReadStatus
  BY <1>8 DEF CleanupReadStatus
<1> QED
  BY <1>1, <1>2, <1>3, <1>4, <1>5, <1>6, <1>7, <1>8 DEF ReadActions

\* Whether an operation is part of the build that was asked for.
Wanted(op) ==
  CASE op = "cloudInit" -> cfg.cloudInit
    [] op = "options" -> cfg.options # "off"
    [] op = "template" -> cfg.template
    [] OTHER -> TRUE

VMStepActions ==
  \E step \in VMOps \ {"create"} : VMStep(step, Wanted(step), NextOp(step))

\* The build's calls on its VM after the creation have one form.
LEMMA VMStepsAreVMSteps ==
  StartVM \/ FinalizePostInstallConfig \/ ApplyCloudInitOptions
    \/ ApplyVMOptions \/ MaybeConvertToTemplate => VMStepActions
<1> USE DEF VMStepActions, VMOps, Wanted, NextOp
<1>1. StartVM => VMStepActions
  BY DEF StartVM
<1>2. FinalizePostInstallConfig => VMStepActions
  BY DEF FinalizePostInstallConfig
<1>3. ApplyCloudInitOptions => VMStepActions
  BY DEF ApplyCloudInitOptions
<1>4. ApplyVMOptions => VMStepActions
  BY DEF ApplyVMOptions
<1>5. MaybeConvertToTemplate => VMStepActions
  BY DEF MaybeConvertToTemplate
<1> QED
  BY <1>1, <1>2, <1>3, <1>4, <1>5

\* A step on the VM that is not wanted changes nothing but its place, and is
\* not waited for; one that is wanted is a call.
LEMMA VMStepMoves ==
  ASSUME TypeOK, AwaitInv, ShapeInv, NEW step \in VMOps \ {"create"},
         VMStep(step, Wanted(step), NextOp(step))
  PROVE  /\ pc = step /\ step = OpOf(pc) /\ step \in Ops /\ pc \in CallSteps
         /\ \/ /\ Wanted(step) /\ Calls(step)
               /\ Submit(step) \/ (Succeeds(step) /\ pc' = NextOp(step))
                    \/ (Fails(step) /\ pc' = "return")
            \/ /\ ~Wanted(step) /\ ~awaiting /\ pc' = NextOp(step)
               /\ UNCHANGED <<awaiting, vm, iso, task>>
         /\ UNCHANGED <<cfg, vmCreated, isoRecorded, isoDeleted, completed,
                        signalled, warned, vmAcked>>
<1>1. pc = step /\ step = OpOf(pc) /\ step \in Ops /\ pc \in CallSteps
  BY DEF VMStep, OpOf, VMOps, Ops, CallSteps
<1>2. ~Wanted(step) => ~awaiting
  BY <1>1 DEF ShapeInv, AwaitInv, Wanted
<1> QED
  BY <1>1, <1>2 DEF VMStep, Calls, buildState, node, history, Quiet

DeleteActions == DiscardTemporaryISO \/ DeleteInstallerISO \/ CleanupDeleteISO

\* What the three deletions of the ISO have in common.
LEMMA DeleteMoves ==
  ASSUME TypeOK, AwaitInv, ISOInv, DeleteActions
  PROVE  /\ pc \in {"discardISO", "deleteISO", "cDeleteISO"}
         /\ OpOf(pc) = "deleteISO" /\ pc \in CallSteps
         /\ \/ /\ ~ISOToDelete /\ ~awaiting
               /\ UNCHANGED <<awaiting, isoDeleted, vm, iso, task>>
            \/ /\ ISOToDelete /\ Calls("deleteISO")
               /\ \/ Submit("deleteISO") /\ UNCHANGED isoDeleted
                  \/ Succeeds("deleteISO") /\ isoDeleted'
                  \/ Fails("deleteISO") /\ UNCHANGED isoDeleted
         /\ \/ Submit("deleteISO") /\ ISOToDelete
            \/ pc' = IF pc = "cDeleteISO" THEN "cleaned" ELSE "return"
         /\ pc # "deleteISO" => UNCHANGED completed
         /\ pc = "deleteISO" => completed' = (pc' = "return" /\ isoDeleted')
         /\ pc # "cDeleteISO" => UNCHANGED warned
         /\ UNCHANGED <<cfg, vmCreated, isoRecorded, signalled, vmAcked>>
<1>1. /\ pc \in {"discardISO", "deleteISO", "cDeleteISO"}
      /\ OpOf(pc) = "deleteISO" /\ pc \in CallSteps
  BY DEF DeleteActions, DiscardTemporaryISO, DeleteInstallerISO, CleanupDeleteISO,
         OpOf, CallSteps
<1>2. ~ISOToDelete => ~awaiting
  BY <1>1 DEF ISOInv
<1>3. CASE DiscardTemporaryISO
  BY <1>1, <1>2, <1>3 DEF DiscardTemporaryISO, DeleteTemporaryISO, Calls, node, history
<1>4. CASE DeleteInstallerISO
  BY <1>1, <1>2, <1>4 DEF DeleteInstallerISO, DeleteTemporaryISO, Calls, node, history
<1>5. CASE CleanupDeleteISO
  BY <1>1, <1>2, <1>5 DEF CleanupDeleteISO, DeleteTemporaryISO, Calls, node, history
<1> QED
  BY <1>3, <1>4, <1>5 DEF DeleteActions

OtherActions == GuestPowersOff \/ ForeignCreate \/ Signal \/ CleanupExpires
                  \/ UNCHANGED vars

\* The steps of others leave the builder's and the tasks' state alone.
LEMMA OthersMove ==
  ASSUME TypeOK, OtherActions
  PROVE  /\ UNCHANGED <<cfg, pc, awaiting, vmCreated, isoRecorded, isoDeleted,
                        completed, warned, iso, task, vmAcked>>
         /\ signalled => signalled'
         /\ signalled' # signalled => pc \notin Ended /\ vm' = vm
         /\ \/ vm' = vm
            \/ vm.owner = "none" /\ vm' = ForeignVM
            \/ Ours /\ vm.power = "running" /\ vm' = [vm EXCEPT !.power = "stopped"]
<1> USE DEF builderOnly, buildState, node, history, Ours
<1>1. CASE GuestPowersOff
  BY <1>1 DEF GuestPowersOff
<1>2. CASE ForeignCreate
  BY <1>2 DEF ForeignCreate
<1>3. CASE Signal
  BY <1>3 DEF Signal
<1>4. CASE CleanupExpires
  BY <1>4 DEF CleanupExpires
<1>5. CASE UNCHANGED vars
  BY <1>5 DEF vars
<1> QED
  BY <1>1, <1>2, <1>3, <1>4, <1>5 DEF OtherActions

TaskActions == \E op \in Ops : TaskRuns(op) \/ TaskFails(op)

CleanupCalls == CleanupStopVM \/ CleanupDestroyVM

\* What the two calls of the cleanup on the VM have in common.
LEMMA CleanupMoves ==
  ASSUME TypeOK, AwaitInv, CleanupCalls
  PROVE  /\ pc \in {"cStop", "cDestroy"} /\ pc \in CallSteps /\ OpOf(pc) \in Ops
         /\ OpOf(pc) = (IF pc = "cStop" THEN "stop" ELSE "destroy")
         /\ Calls(OpOf(pc))
         /\ \/ Submit(OpOf(pc)) /\ UNCHANGED <<pc, vmCreated, warned>>
            \/ /\ Succeeds(OpOf(pc)) /\ UNCHANGED warned
               /\ pc' = (IF pc = "cStop" THEN "cDestroy" ELSE "cDeleteISO")
               /\ vmCreated' = (pc = "cStop" /\ vmCreated)
            \/ /\ Fails(OpOf(pc)) /\ pc' = "cDeleteISO" /\ warned'
               /\ UNCHANGED vmCreated
         /\ UNCHANGED <<cfg, isoRecorded, isoDeleted, completed, signalled, vmAcked>>
<1>1. CASE CleanupStopVM
  BY <1>1 DEF CleanupStopVM, Calls, OpOf, CallSteps, Ops, buildState, history, Submit, TypeOK
<1>2. CASE CleanupDestroyVM
  BY <1>2 DEF CleanupDestroyVM, Calls, OpOf, CallSteps, Ops, history, Submit, TypeOK
<1> QED
  BY <1>1, <1>2 DEF CleanupCalls

\* Every step is one of these.
LEMMA NextInGroups ==
  [Next]_vars => \/ ReadActions \/ UploadTemporaryInstallerISO \/ CreateVM
                 \/ VMStepActions \/ DeleteActions \/ CleanupCalls
                 \/ TaskActions \/ OtherActions
  BY VMStepsAreVMSteps DEF Next, Builder, Node, ReadActions, DeleteActions,
       CleanupCalls, TaskActions, OtherActions

\* The two calls with a history of their own.
LEMMA UploadMoves ==
  ASSUME TypeOK, UploadTemporaryInstallerISO
  PROVE  /\ pc = "upload" /\ OpOf(pc) = "upload" /\ pc \in CallSteps
         /\ Calls("upload")
         /\ \/ Submit("upload") /\ UNCHANGED <<pc, isoRecorded>>
            \/ Succeeds("upload") /\ pc' = "selectVMID" /\ isoRecorded'
            \/ Fails("upload") /\ pc' = "return" /\ UNCHANGED isoRecorded
         /\ UNCHANGED <<cfg, vmCreated, isoDeleted, completed, signalled,
                        warned, vmAcked>>
  BY DEF UploadTemporaryInstallerISO, Calls, OpOf, CallSteps, history, Quiet, Submit

\* Where CreateVM goes: only its success records the VM.
LEMMA CreateMoves ==
  ASSUME TypeOK, CreateVM
  PROVE  /\ pc = "create" /\ OpOf(pc) = "create" /\ pc \in CallSteps
         /\ Calls("create")
         /\ \/ Submit("create") /\ UNCHANGED <<pc, vmCreated, vmAcked>>
            \/ Succeeds("create") /\ pc' = "start" /\ vmCreated' /\ vmAcked'
            \/ /\ Fails("create") /\ pc' \in {"discardISO", "return"}
               /\ UNCHANGED <<vmCreated, vmAcked>>
         /\ UNCHANGED <<cfg, isoRecorded, isoDeleted, completed, signalled, warned>>
  BY DEF CreateVM, Calls, OpOf, CallSteps, VMOps, history, Quiet, Submit, Fails

-----------------------------------------------------------------------------
(* Each part of BuildInv is kept by every step.                            *)

\* The operation of a step that waits for one is one of Proxmox's.
LEMMA OperationOfStep == pc \in CallSteps => OpOf(pc) \in Ops
  BY DEF CallSteps, VMOps, OpOf, Ops

\* Only the task that the builder waits for has an end that is known: an end
\* that nobody waits for is forgotten (a call that failed, a cleanup).
LEMMA AwaitStep ==
  ASSUME TypeOK, BuildInv, [Next]_vars
  PROVE  AwaitInv'
<1> USE DEF BuildInv
<1>1. CASE ReadActions
  BY <1>1, ReadsFrame DEF ReadFrame, AwaitInv, TypeOK
<1>2. CASE UploadTemporaryInstallerISO
  BY <1>2, UploadMoves, CallKeepsAwait DEF Ops
<1>3. CASE CreateVM
  BY <1>3, CreateMoves, CallKeepsAwait DEF Ops
<1>4. CASE VMStepActions
  <2>1. PICK step \in VMOps \ {"create"} : VMStep(step, Wanted(step), NextOp(step))
    BY <1>4 DEF VMStepActions
  <2>2. CASE Wanted(step)
    BY <2>1, <2>2, VMStepMoves, CallKeepsAwait
  <2>3. CASE ~Wanted(step)
    BY <2>1, <2>3, VMStepMoves DEF AwaitInv, TypeOK
  <2> QED
    BY <2>2, <2>3
<1>5. CASE DeleteActions
  <2>1. CASE ISOToDelete
    BY <1>5, <2>1, DeleteMoves, CallKeepsAwait DEF Ops
  <2>2. CASE ~ISOToDelete
    BY <1>5, <2>2, DeleteMoves DEF AwaitInv, TypeOK
  <2> QED
    BY <2>1, <2>2
<1>6. CASE CleanupCalls
  BY <1>6, CleanupMoves, CallKeepsAwait
<1>7. CASE TaskActions
  <2>1. PICK op \in Ops : TaskRuns(op) \/ TaskFails(op)
    BY <1>7 DEF TaskActions
  <2>2. UNCHANGED <<pc, awaiting>>
    BY <2>1 DEF TaskRuns, TaskFails, builderOnly
  <2> QED
    BY <2>1, <2>2, TaskEffect, OperationOfStep DEF AwaitInv, TypeOK
<1>8. CASE OtherActions
  BY <1>8, OthersMove DEF AwaitInv, TypeOK
<1> QED
  BY <1>1, <1>2, <1>3, <1>4, <1>5, <1>6, <1>7, <1>8, NextInGroups

\* No step but the calls of the operations on the VM starts one of them.
LEMMA CallsLeaveVMOps ==
  ASSUME TypeOK, AwaitInv, NEW op \in Ops \ VMOps, op = OpOf(pc), Calls(op)
  PROVE  \A o \in VMOps : task'[o] = task[o]
  BY CallEffect DEF VMOps, Ops

\* A build that has not failed has one task at a time, and none once it has
\* declared its success; an interrupted one never declares it.
LEMMA PathStep ==
  ASSUME TypeOK, BuildInv, [Next]_vars
  PROVE  PathInv'
<1> USE DEF BuildInv
<1>1. CASE ReadActions
  BY <1>1, ReadsFrame DEF ReadFrame, ReadMoves, PathInv, PathSteps, MainSteps, InCleanup,
                          CleanupSteps, AwaitInv
<1>2. CASE UploadTemporaryInstallerISO
  <2>1. \A o \in VMOps : task'[o] = task[o]
    BY <1>2, UploadMoves, CallsLeaveVMOps DEF Ops, VMOps
  <2>2. pc' \in PathSteps => \A op \in Ops : task'[op] # "idle" => awaiting' /\ op = OpOf(pc')
    BY <1>2, UploadMoves, CallEffect DEF PathInv, PathSteps, MainSteps, Ops
  <2> QED
    BY <1>2, <2>1, <2>2, UploadMoves DEF PathInv, InCleanup, CleanupSteps
<1>3. CASE CreateVM
  <2>1. \A op \in Ops : task[op] # "idle" => op = "create"
    BY <1>3, CreateMoves DEF PathInv, PathSteps, MainSteps
  <2>2. \A op \in Ops : task'[op] # "idle" => op = "create"
    BY <1>3, <2>1, CreateMoves, CallEffect DEF Ops
  <2>3. pc' \in PathSteps => \A op \in Ops : task'[op] # "idle" => awaiting' /\ op = OpOf(pc')
    BY <1>3, <2>1, CreateMoves, CallEffect DEF PathInv, PathSteps, MainSteps, Ops
  <2> QED
    BY <1>3, <2>2, <2>3, CreateMoves DEF PathInv, InCleanup, CleanupSteps, VMOps, Ops
<1>4. CASE VMStepActions
  <2>1. PICK step \in VMOps \ {"create"} : VMStep(step, Wanted(step), NextOp(step))
    BY <1>4 DEF VMStepActions
  <2>2. pc = step /\ step = OpOf(pc) /\ step \in Ops /\ pc \in PathSteps
    BY <2>1, VMStepMoves DEF PathSteps, MainSteps, VMOps
  <2>3. \A op \in Ops : task[op] # "idle" => op = step /\ awaiting
    BY <2>1, <2>2, VMStepMoves DEF PathInv
  <2>4. \A op \in Ops : task'[op] # "idle" => op = step
    BY <2>1, <2>3, VMStepMoves, CallEffect
  <2>5. pc' \in PathSteps => \A op \in Ops : task'[op] # "idle" => awaiting' /\ op = OpOf(pc')
    <3>1. CASE Wanted(step)
      BY <2>1, <2>2, <2>3, <3>1, VMStepMoves, CallEffect DEF PathSteps, MainSteps
    <3>2. CASE ~Wanted(step)
      BY <2>1, <2>2, <2>3, <3>2, VMStepMoves
    <3> QED
      BY <3>1, <3>2
  <2>6. /\ pc' \in {step, "return", NextOp(step)}
        /\ UNCHANGED <<completed, signalled>>
    BY <2>1, <2>2, VMStepMoves, CallEffect
  <2>7. ~InCleanup' /\ ~completed'
    BY <2>2, <2>6 DEF InCleanup, CleanupSteps, NextOp, PathInv, PathSteps, VMOps
  <2> QED
    BY <2>4, <2>5, <2>7 DEF PathInv, VMOps, Ops
<1>5. CASE DeleteActions
  <2>1. \A o \in VMOps : task'[o] = task[o]
    BY <1>5, DeleteMoves, CallsLeaveVMOps DEF Ops, VMOps
  <2>2. pc' \in PathSteps \/ completed'
          => \A op \in Ops : task'[op] # "idle" => awaiting' /\ op = OpOf(pc')
    <3>1. CASE pc = "deleteISO"
      <4>1. \A op \in Ops : task[op] # "idle" => awaiting /\ op = "deleteISO"
        BY <1>5, <3>1, DeleteMoves DEF PathInv, PathSteps, MainSteps
      <4>2. CASE ~ISOToDelete
        BY <1>5, <3>1, <4>1, <4>2, DeleteMoves
      <4>3. CASE ISOToDelete /\ Submit("deleteISO")
        BY <1>5, <3>1, <4>1, <4>3, DeleteMoves, CallEffect DEF Ops
      <4>4. CASE ISOToDelete /\ Succeeds("deleteISO") /\ isoDeleted'
        BY <1>5, <3>1, <4>1, <4>4, DeleteMoves, CallEffect DEF Ops
      <4>5. CASE ISOToDelete /\ Fails("deleteISO") /\ UNCHANGED isoDeleted
        <5>1. ~isoDeleted' /\ pc' = "return"
          BY <1>5, <3>1, <4>5, DeleteMoves, CallEffect DEF ISOToDelete, TypeOK, Ops
        <5> QED
          BY <1>5, <3>1, <5>1, DeleteMoves DEF PathSteps, MainSteps
      <4> QED
        BY <1>5, <4>2, <4>3, <4>4, <4>5, DeleteMoves DEF Calls
    <3>2. CASE pc # "deleteISO"
      BY <1>5, <3>2, DeleteMoves, CallEffect DEF PathInv, PathSteps, MainSteps, InCleanup,
                                                 CleanupSteps, Ops
    <3> QED
      BY <3>1, <3>2
  <2>3. completed' => pc' \in {"return", "ended"}
    BY <1>5, DeleteMoves DEF PathInv
  <2>4. InCleanup' => signalled' /\ ~completed'
    BY <1>5, DeleteMoves, CallEffect DEF PathInv, InCleanup, CleanupSteps, Ops
  <2> QED
    BY <2>1, <2>2, <2>3, <2>4 DEF PathInv
<1>6. CASE CleanupCalls
  <2>1. \A o \in VMOps : task'[o] = task[o]
    BY <1>6, CleanupMoves, CallsLeaveVMOps DEF Ops, VMOps
  <2>2. pc' \notin PathSteps /\ ~completed' /\ signalled'
    BY <1>6, CleanupMoves, CallEffect DEF PathInv, PathSteps, MainSteps, InCleanup,
                                          CleanupSteps
  <2> QED
    BY <2>1, <2>2 DEF PathInv
<1>7. CASE TaskActions
  <2>1. PICK op \in Ops : TaskRuns(op) \/ TaskFails(op)
    BY <1>7 DEF TaskActions
  <2>2. UNCHANGED <<pc, awaiting, completed, signalled>>
    BY <2>1 DEF TaskRuns, TaskFails, builderOnly, buildState
  <2>3. \A o \in Ops : task'[o] # "idle" => task[o] # "idle"
    BY <2>1, TaskEffect
  <2> QED
    BY <2>2, <2>3 DEF PathInv, InCleanup, VMOps, Ops
<1>8. CASE OtherActions
  BY <1>8, OthersMove DEF PathInv, InCleanup
<1> QED
  BY <1>1, <1>2, <1>3, <1>4, <1>5, <1>6, <1>7, <1>8, NextInGroups

\* What executing an operation does to the ISO.
LEMMA ISOEffect ==
  ASSUME NEW op \in Ops, Execute(op)
  PROVE  iso' = (IF op = "upload" THEN TRUE ELSE IF op = "deleteISO" THEN FALSE ELSE iso)
  BY DEF Execute, ISOAfter

\* A call that is not known to have succeeded leaves the node as it is.
LEMMA CallWithoutSuccess ==
  ASSUME NEW op \in Ops, Submit(op) \/ Fails(op)
  PROVE  UNCHANGED <<vm, iso>>
  BY DEF Submit, Fails, CallFails, WaitFails

\* The other operations leave the ISO alone.
LEMMA OtherCallsKeepISO ==
  ASSUME NEW op \in Ops \ {"upload", "deleteISO"}, Calls(op)
  PROVE  iso' = iso
<1>1. Execute(op) => iso' = iso
  BY ISOEffect
<1> QED
  BY <1>1, CallWithoutSuccess DEF Calls, Succeeds

\* The ISO is on the node from the end of the upload to the end of its deletion,
\* and the flags of buildState say so on every path, the interrupted ones too.
LEMMA ISOStep ==
  ASSUME TypeOK, BuildInv, [Next]_vars
  PROVE  ISOInv'
<1> USE DEF BuildInv
<1>1. CASE ReadActions
  <2>1. ISOToDelete' = ISOToDelete
    BY <1>1, ReadsFrame DEF ReadFrame, ISOToDelete
  <2> QED
    BY <1>1, <2>1, ReadsFrame DEF ReadFrame, ReadMoves, ISOInv, PathSteps,
                                MainSteps, AfterUpload, AfterCreate, AwaitInv
<1>2. CASE UploadTemporaryInstallerISO
  <2>1. \A op \in Ops : task[op] # "idle" => awaiting /\ op = "upload"
    BY <1>2, UploadMoves DEF PathInv, PathSteps, MainSteps
  <2>2. /\ \A op \in Ops : task'[op] # "idle" => op = "upload"
        /\ task'["upload"] \in {"idle", "queued"}
    BY <1>2, <2>1, UploadMoves, CallEffect DEF Ops
  <2>3. ~isoRecorded /\ ~isoDeleted /\ isoDeleted' = isoDeleted
    BY <1>2, <2>1, UploadMoves DEF ISOInv, PathSteps, MainSteps, AfterUpload, AfterCreate
  <2>4. CASE Succeeds("upload") /\ pc' = "selectVMID" /\ isoRecorded'
    <3>1. iso'
      <4>1. CASE awaiting
        <5>1. task["upload"] = "ok"
          BY <2>4, <4>1 DEF Succeeds, TaskOK
        <5> QED
          BY <2>4, <4>1, <5>1 DEF Succeeds, ISOInv
      <4>2. CASE ~awaiting
        BY <2>4, <4>2, ISOEffect DEF Succeeds, Gone, Ops
      <4> QED
        BY <4>1, <4>2
    <3>2. task'["upload"] = "idle" /\ ~awaiting'
      BY <1>2, <2>1, <2>4, UploadMoves, CallEffect DEF Ops
    <3> QED
      BY <2>2, <2>3, <2>4, <3>1, <3>2 DEF ISOInv, Ops, PathSteps, MainSteps,
         AfterUpload, AfterCreate
  <2>5. CASE Submit("upload") /\ UNCHANGED <<pc, isoRecorded>>
    <3>1. OpOf(pc') # "deleteISO" /\ pc' = "upload"
      BY <1>2, <2>5, UploadMoves
    <3> QED
      BY <2>2, <2>3, <2>5, <3>1 DEF ISOInv, Ops, AfterUpload, AfterCreate
  <2>6. CASE Fails("upload") /\ pc' = "return" /\ UNCHANGED isoRecorded
    <3>1. ~awaiting'
      BY <1>2, <2>6, UploadMoves, CallEffect DEF Ops
    <3> QED
      BY <2>2, <2>3, <2>6, <3>1 DEF ISOInv, Ops, AfterUpload, AfterCreate
  <2> QED
    BY <1>2, <2>4, <2>5, <2>6, UploadMoves
<1>3. CASE CreateVM
  <2>1. iso' = iso
    BY <1>3, CreateMoves, OtherCallsKeepISO DEF Ops
  <2>2. task'["upload"] = task["upload"] /\ task'["deleteISO"] = task["deleteISO"]
    BY <1>3, CreateMoves, CallEffect DEF Ops
  <2>3. isoRecorded /\ iso /\ UNCHANGED <<isoRecorded, isoDeleted>>
    BY <1>3, CreateMoves DEF ISOInv, AfterUpload
  <2>4. awaiting' => pc' = "create"
    BY <1>3, CreateMoves, CallEffect DEF Ops
  <2>5. pc' \in AfterUpload \cup {"discardISO", "return"}
    BY <1>3, CreateMoves DEF AfterUpload, AfterCreate
  <2> QED
    BY <2>1, <2>2, <2>3, <2>4, <2>5 DEF ISOInv, OpOf, AfterUpload, AfterCreate,
                                            PathSteps, MainSteps
<1>4. CASE VMStepActions
  <2>1. PICK step \in VMOps \ {"create"} : VMStep(step, Wanted(step), NextOp(step))
    BY <1>4 DEF VMStepActions
  <2>2. iso' = iso
    BY <2>1, VMStepMoves, OtherCallsKeepISO DEF VMOps
  <2>3. task'["upload"] = task["upload"] /\ task'["deleteISO"] = task["deleteISO"]
    BY <2>1, VMStepMoves, CallEffect DEF VMOps, Ops
  <2>4. isoRecorded /\ iso /\ UNCHANGED <<isoRecorded, isoDeleted>>
    BY <2>1, VMStepMoves DEF ISOInv, AfterUpload, AfterCreate, VMOps
  <2>5. awaiting' => pc' = step
    BY <2>1, VMStepMoves, CallEffect
  <2>6. pc' \in (AfterUpload \ {"selectVMID", "create"}) \cup {"return"}
    BY <2>1, VMStepMoves DEF AfterUpload, AfterCreate, VMOps, NextOp, Submit
  <2> QED
    BY <2>2, <2>3, <2>4, <2>5, <2>6 DEF ISOInv, OpOf, AfterUpload, AfterCreate,
                                            VMOps, PathSteps, MainSteps
<1>5. CASE DeleteActions
  <2>1. pc' = pc \/ pc' \in {"return", "cleaned"}
    BY <1>5, DeleteMoves DEF Submit
  <2>2. UNCHANGED isoRecorded /\ (awaiting' => pc' = pc /\ ISOToDelete /\ UNCHANGED isoDeleted)
    BY <1>5, DeleteMoves, CallEffect DEF Ops
  <2>3. CASE ~ISOToDelete
    BY <1>5, <2>1, <2>2, <2>3, DeleteMoves DEF ISOInv, AfterUpload, AfterCreate, PathSteps,
                                               MainSteps
  <2>4. CASE ISOToDelete
    <3>1. task["upload"] = "idle" /\ task'["upload"] = "idle" /\ isoRecorded
      BY <1>5, <2>4, DeleteMoves, CallEffect DEF ISOInv, ISOToDelete, Ops
    <3>2. task'["deleteISO"] \in {"idle", "queued"}
      BY <1>5, <2>4, DeleteMoves, CallEffect DEF Ops
    <3>3. isoDeleted' => ~iso'
      <4>1. CASE UNCHANGED isoDeleted
        BY <2>4, <4>1 DEF ISOToDelete
      <4>2. CASE Succeeds("deleteISO")
        <5>1. CASE awaiting
          BY <4>2, <5>1 DEF Succeeds, TaskOK, ISOInv
        <5>2. CASE ~awaiting
          BY <4>2, <5>2, ISOEffect DEF Succeeds, Gone, Ops
        <5> QED
          BY <5>1, <5>2
      <4> QED
        BY <1>5, <2>4, <4>1, <4>2, DeleteMoves
    <3>4. (OpOf(pc') = "deleteISO" /\ awaiting') => ISOToDelete'
      BY <2>2, <2>4 DEF ISOToDelete
    <3> QED
      BY <1>5, <2>1, <2>2, <3>1, <3>2, <3>3, <3>4, DeleteMoves
         DEF ISOInv, AfterUpload, AfterCreate, PathSteps, MainSteps
  <2> QED
    BY <2>3, <2>4
<1>6. CASE CleanupCalls
  <2>1. iso' = iso
    BY <1>6, CleanupMoves, OtherCallsKeepISO DEF Ops
  <2>2. task'["upload"] = task["upload"] /\ task'["deleteISO"] = task["deleteISO"]
    BY <1>6, CleanupMoves, CallEffect DEF Ops
  <2>3. /\ pc' \in {"cStop", "cDestroy", "cDeleteISO"}
        /\ awaiting' => pc' # "cDeleteISO"
        /\ UNCHANGED <<isoRecorded, isoDeleted>>
    BY <1>6, CleanupMoves, CallEffect DEF Ops
  <2> QED
    BY <2>1, <2>2, <2>3 DEF ISOInv, OpOf, AfterUpload, AfterCreate, PathSteps, MainSteps
<1>7. CASE TaskActions
  <2>1. PICK op \in Ops : TaskRuns(op) \/ TaskFails(op)
    BY <1>7 DEF TaskActions
  <2>2. UNCHANGED <<pc, awaiting, isoRecorded, isoDeleted>>
    BY <2>1 DEF TaskRuns, TaskFails, builderOnly, buildState
  <2>3. ISOToDelete' = ISOToDelete
    BY <2>2 DEF ISOToDelete
  <2>4. CASE op = "upload"
    <3>1. /\ ~isoRecorded /\ task["deleteISO"] = "idle" /\ task'["deleteISO"] = "idle"
          /\ task'["upload"] = "ok" => iso'
      BY <2>1, <2>4, TaskEffect, ISOEffect DEF ISOInv, Ops
    <3> QED
      BY <2>2, <2>3, <3>1 DEF ISOInv
  <2>5. CASE op = "deleteISO"
    <3>1. /\ isoRecorded /\ task["upload"] = "idle" /\ task'["upload"] = "idle"
          /\ task'["deleteISO"] = "ok" => ~iso'
          /\ iso' => iso
      BY <2>1, <2>5, TaskEffect, ISOEffect DEF ISOInv, Ops
    <3>2. pc \in AfterUpload => pc = "deleteISO"
      BY <2>1, <2>5, TaskEffect DEF PathInv, PathSteps, MainSteps, AfterUpload, AfterCreate,
                                    OpOf, Ops
    <3> QED
      BY <2>2, <2>3, <3>1, <3>2 DEF ISOInv
  <2>6. CASE op \notin {"upload", "deleteISO"}
    <3>1. /\ iso' = iso
          /\ task'["upload"] = task["upload"] /\ task'["deleteISO"] = task["deleteISO"]
      BY <2>1, <2>6, TaskEffect, ISOEffect DEF Ops
    <3> QED
      BY <2>2, <2>3, <3>1 DEF ISOInv
  <2> QED
    BY <2>4, <2>5, <2>6
<1>8. CASE OtherActions
  <2>1. ISOToDelete' = ISOToDelete
    BY <1>8, OthersMove DEF ISOToDelete
  <2> QED
    BY <1>8, <2>1, OthersMove DEF ISOInv
<1> QED
  BY <1>1, <1>2, <1>3, <1>4, <1>5, <1>6, <1>7, <1>8, NextInGroups

\* No operation but create gives the VMID to the build.
LEMMA OwnerEffect ==
  ASSUME TypeOK, NEW op \in Ops \ {"create"}, Calls(op) \/ TaskRuns(op) \/ TaskFails(op),
         ~Ours
  PROVE  ~Ours'
<1> USE DEF Ours
<1>1. Execute(op) => vm'.owner # "ours"
  BY VMEffect DEF Execute, TypeOK
<1> QED
  BY <1>1, CallWithoutSuccess DEF Calls, Succeeds, TaskRuns, TaskFails

\* A machine that the build was told of and that is gone does not come back.
LEMMA MachineStaysGone ==
  ASSUME TypeOK, BuildInv, [Next]_vars, vmAcked, ~Ours
  PROVE  ~Ours'
<1> USE DEF BuildInv
<1>1. CASE ReadActions
  BY <1>1, ReadsFrame DEF ReadFrame, Ours
<1>2. CASE UploadTemporaryInstallerISO
  BY <1>2, UploadMoves, OwnerEffect DEF Ops
<1>3. CASE CreateVM
  BY <1>3, CreateMoves DEF AckInv, BeforeCreate, MainSteps, AfterCreate
<1>4. CASE VMStepActions
  <2>1. PICK step \in VMOps \ {"create"} : VMStep(step, Wanted(step), NextOp(step))
    BY <1>4 DEF VMStepActions
  <2> QED
    BY <2>1, VMStepMoves, OwnerEffect DEF Ours
<1>5. CASE DeleteActions
  BY <1>5, DeleteMoves, OwnerEffect DEF Ours, Ops
<1>6. CASE CleanupCalls
  BY <1>6, CleanupMoves, OwnerEffect DEF Ops
<1>7. CASE TaskActions
  <2>1. PICK op \in Ops : TaskRuns(op) \/ TaskFails(op)
    BY <1>7 DEF TaskActions
  <2>2. op # "create"
    BY <2>1, TaskEffect DEF AckInv
  <2> QED
    BY <2>1, <2>2, OwnerEffect
<1>8. CASE OtherActions
  BY <1>8, OthersMove, VMConstants DEF Ours
<1> QED
  BY <1>1, <1>2, <1>3, <1>4, <1>5, <1>6, <1>7, <1>8, NextInGroups

\* A destroy that is known to have succeeded has left no VM of the build.
LEMMA DestroyedIsGone ==
  ASSUME TypeOK, AckInv, Succeeds("destroy")
  PROVE  ~Ours'
<1> USE DEF Ours
<1>1. CASE awaiting
  BY <1>1 DEF Succeeds, TaskOK, AckInv
<1>2. CASE ~awaiting /\ Execute("destroy")
  BY <1>2, VMConstants DEF Execute, VMAfter
<1>3. CASE ~awaiting /\ Gone("destroy") /\ UNCHANGED <<vm, iso>>
  BY <1>3 DEF Gone
<1> QED
  BY <1>1, <1>2, <1>3 DEF Succeeds

\* No task changes hands: the VM that CreateVM answered with stays the build's
\* until its own cleanup destroys it.
LEMMA AckStep ==
  ASSUME TypeOK, BuildInv, [Next]_vars
  PROVE  AckInv'
<1>0. vmAcked /\ ~Ours => ~Ours'
  BY MachineStaysGone
<1> USE DEF BuildInv, Ours
<1>1. CASE ReadActions
  BY <1>1, ReadsFrame DEF ReadFrame, ReadMoves, AckInv, AfterCreate, BeforeCreate,
     MainSteps, TypeOK
<1>2. CASE UploadTemporaryInstallerISO
  <2>1. /\ task'["create"] = task["create"] /\ task'["destroy"] = task["destroy"]
        /\ ~vmAcked /\ pc' \in {"upload", "selectVMID", "return"}
        /\ UNCHANGED <<vmCreated, vmAcked, completed, warned>>
    BY <1>2, UploadMoves, CallEffect DEF Ops, AckInv, BeforeCreate, MainSteps, AfterCreate
  <2>2. pc = "upload"
    BY <1>2, UploadMoves
  <2> QED
    BY <2>1, <2>2 DEF AckInv, AfterCreate
<1>3. CASE CreateVM
  <2>1. task'["destroy"] = task["destroy"] /\ ~vmAcked /\ ~vmCreated /\ pc = "create"
    BY <1>3, CreateMoves, CallEffect DEF Ops, AckInv, BeforeCreate, MainSteps, AfterCreate,
       TypeOK
  <2>2. CASE Succeeds("create") /\ pc' = "start" /\ vmCreated' /\ vmAcked'
    <3>1. task'["create"] = "idle"
      BY <1>3, <2>2, CreateMoves, CallEffect DEF Ops, PathInv, PathSteps, MainSteps
    <3>2. vmCreated' = vmAcked'
      BY <1>3, <2>2 DEF CreateVM
    <3> QED
      BY <2>1, <2>2, <3>1, <3>2 DEF AckInv, BeforeCreate, AfterCreate
  <2>3. CASE pc' \in {"create", "discardISO", "return"} /\ UNCHANGED <<vmCreated, vmAcked>>
    BY <1>3, <2>1, <2>3, CreateMoves DEF AckInv, AfterCreate
  <2> QED
    BY <1>3, <2>2, <2>3, CreateMoves
<1>4. CASE VMStepActions
  <2>1. PICK step \in VMOps \ {"create"} : VMStep(step, Wanted(step), NextOp(step))
    BY <1>4 DEF VMStepActions
  <2>2. /\ task'["create"] = task["create"] /\ task'["destroy"] = task["destroy"]
        /\ UNCHANGED <<vmCreated, vmAcked, completed, warned>>
    BY <2>1, VMStepMoves, CallEffect DEF Ops, VMOps
  <2>3. pc \in AfterCreate /\ pc' \in AfterCreate \cup {"return"}
    BY <2>1, VMStepMoves DEF AfterCreate, VMOps, NextOp, Submit
  <2> QED
    BY <1>0, <2>2, <2>3 DEF AckInv, AfterCreate, BeforeCreate, MainSteps
<1>5. CASE DeleteActions
  <2>1. /\ task'["create"] = task["create"] /\ task'["destroy"] = task["destroy"]
        /\ UNCHANGED <<vmCreated, vmAcked>>
    BY <1>5, DeleteMoves, CallEffect DEF Ops
  <2>2. /\ pc \in {"discardISO", "deleteISO", "cDeleteISO"}
        /\ pc' \in {pc, IF pc = "cDeleteISO" THEN "cleaned" ELSE "return"}
    BY <1>5, DeleteMoves DEF Submit
  <2>3. warned => warned'
    BY <1>5 DEF DeleteActions, DiscardTemporaryISO, DeleteInstallerISO, CleanupDeleteISO
  <2>4. completed' => vmAcked
    BY <1>5, DeleteMoves DEF AckInv, AfterCreate
  <2> QED
    BY <1>0, <2>1, <2>2, <2>3, <2>4 DEF AckInv, AfterCreate, BeforeCreate, MainSteps
<1>6. CASE CleanupCalls
  <2>1. /\ task'["create"] = task["create"] /\ pc \in {"cStop", "cDestroy"}
        /\ UNCHANGED <<vmAcked, completed>>
    BY <1>6, CleanupMoves, CallEffect DEF Ops
  <2>2. CASE pc' \in {"cStop", "cDestroy"}
    <3>1. vmCreated' = vmCreated
      BY <1>6, <2>2, CleanupMoves DEF AckInv, TypeOK
    <3>2. task'["destroy"] # "ok"
      BY <1>6, <2>2, CleanupMoves, CallEffect DEF Ops, AwaitInv
    <3> QED
      BY <2>1, <2>2, <3>1, <3>2 DEF AckInv, AfterCreate, BeforeCreate, MainSteps
  <2>3. CASE pc' = "cDeleteISO"
    <3>1. task'["destroy"] # "ok"
      BY <1>6, <2>3, CleanupMoves, CallEffect DEF Ops, AwaitInv
    <3>2. warned' \/ ~Ours'
      BY <1>6, <2>1, <2>3, CleanupMoves, DestroyedIsGone
    <3> QED
      BY <2>1, <2>3, <3>1, <3>2 DEF AckInv, AfterCreate, BeforeCreate, MainSteps
  <2> QED
    BY <1>6, <2>1, <2>2, <2>3, CleanupMoves
<1>7. CASE TaskActions
  <2>1. PICK op \in Ops : TaskRuns(op) \/ TaskFails(op)
    BY <1>7 DEF TaskActions
  <2>2. UNCHANGED <<pc, completed, vmCreated, vmAcked, warned>>
    BY <2>1 DEF TaskRuns, TaskFails, builderOnly, buildState, history
  <2>3. \A o \in Ops : task'[o] # "idle" => task[o] # "idle"
    BY <2>1, TaskEffect
  <2>4. task'["destroy"] = "ok" => ~Ours'
    <3>1. CASE op = "destroy"
      <4>1. Execute("destroy") => ~Ours'
        BY VMConstants DEF Execute, VMAfter
      <4> QED
        BY <2>1, <3>1, <4>1, TaskEffect
    <3>2. CASE op # "destroy"
      BY <1>0, <2>1, <3>2, TaskEffect DEF AckInv, Ops
    <3> QED
      BY <3>1, <3>2
  <2> QED
    BY <1>0, <2>2, <2>3, <2>4 DEF AckInv, Ops
<1>8. CASE OtherActions
  BY <1>0, <1>8, OthersMove DEF AckInv
<1> QED
  BY <1>1, <1>2, <1>3, <1>4, <1>5, <1>6, <1>7, <1>8, NextInGroups

-----------------------------------------------------------------------------
(* The VM from one operation to the next.                                  *)

Shapes == VMOps \cup {"poll", "deleteISO"}

\* An operation that meets the VM as the build left it makes of it what the
\* next one needs.
LEMMA RunsToNext ==
  ASSUME TypeOK, NEW op \in VMOps, Wanted(op), Execute(op), Before(op), cfg' = cfg
  PROVE  Before(NextOp(op))'
<1> USE DEF Before, NextOp, Installing, Installed, Bare, Execute, TypeOK
<1>0. op \in Ops /\ vm' = VMAfter(op) /\ Applies(op)
  BY DEF VMOps, Ops
<1>1. CASE op = "create"
  BY <1>0, <1>1, VMConstants DEF VMAfter
<1>2. CASE op = "start"
  BY <1>0, <1>2, VMEffect
<1>3. CASE op = "finalize"
  BY <1>0, <1>3, VMEffect
<1>4. CASE op = "cloudInit"
  BY <1>0, <1>4, VMEffect DEF FinalDrive, Wanted
<1>5. CASE op = "options"
  <2>1. vm'.protected <=> cfg.options = "protect"
    BY <1>0, <1>5, VMEffect
  <2>2. vm'.protected = (cfg.options = "protect")
    BY <1>0, <2>1, VMEffect DEF VMs
  <2> QED
    BY <1>0, <1>5, <2>2, VMEffect DEF FinalDrive
<1>6. CASE op = "template"
  <2>1. vm'.template = cfg.template
    BY <1>0, <1>6, VMEffect DEF VMs, Wanted, Configs
  <2>2. vm'.protected = (cfg.options = "protect")
    <3>1. vm'.protected <=> vm.protected
      BY <1>0, <1>6, VMEffect
    <3> QED
      BY <1>0, <1>6, <3>1, VMEffect DEF VMs
  <2>3. vm'.owner = "ours"
    BY <1>0, <1>6, VMEffect DEF Applies
  <2> QED
    BY <1>0, <1>6, <2>1, <2>2, <2>3, VMEffect DEF FinalDrive, Finished
<1> QED
  BY <1>1, <1>2, <1>3, <1>4, <1>5, <1>6 DEF VMOps

\* An operation that was not asked for leaves nothing to do.
LEMMA SkipsToNext ==
  ASSUME TypeOK, NEW op \in VMOps, ~Wanted(op), Before(op), Ours
  PROVE  Before(NextOp(op))
<1> USE DEF Before, NextOp, Installing, Installed, Bare, Wanted, TypeOK, FinalDrive
<1>1. CASE op = "cloudInit"
  BY <1>1
<1>2. CASE op = "options"
  <2>1. vm.protected = FALSE /\ cfg.options = "off"
    BY <1>2 DEF VMs
  <2>2. vm.protected = (cfg.options = "protect")
    BY <2>1
  <2> QED
    BY <1>2, <2>2
<1>3. CASE op = "template"
  <2>1. vm.template = cfg.template
    BY <1>3 DEF VMs, Configs
  <2> QED
    BY <1>3, <2>1 DEF Finished, Ours
<1> QED
  BY <1>1, <1>2, <1>3 DEF VMOps

\* A power-off, by the guest or by stop, takes nothing away that was reached.
LEMMA PowerOffKeepsShape ==
  ASSUME TypeOK, NEW op \in Shapes, Before(op), cfg' = cfg,
         vm' = [vm EXCEPT !.power = "stopped"]
  PROVE  Before(op)'
<1>1. /\ vm'.owner = vm.owner /\ vm'.power = "stopped" /\ vm'.booted = vm.booted
      /\ vm'.ide2 = vm.ide2 /\ vm'.serial = vm.serial /\ vm'.diskBoot = vm.diskBoot
      /\ vm'.template = vm.template /\ vm'.protected = vm.protected
  BY DEF TypeOK, VMs
<1> QED
  BY <1>1 DEF Before, Installing, Installed, Bare, FinalDrive, Finished, Shapes, VMOps

\* A finished VM stays finished under every task but a destroy that can run.
LEMMA FinishedKept ==
  ASSUME TypeOK, Finished, cfg' = cfg, NEW op \in Ops \ {"destroy"}, Execute(op),
         Wanted(op), op \in {"start", "finalize"} => Before(op)
  PROVE  Finished'
<1>0. vm' = VMAfter(op) /\ Applies(op) /\ vm \in VMs /\ cfg \in Configs /\ vm' \in VMs
  BY VMEffect DEF Execute, TypeOK
<1>1. op \notin {"create", "start", "finalize"}
  BY <1>0 DEF Applies, Finished, Before, Installing
<1>2. /\ vm'.owner = "ours" /\ vm'.power = "stopped" /\ vm'.booted
      /\ ~vm'.serial /\ vm'.diskBoot
      /\ vm'.ide2 = (IF op = "cloudInit" THEN "cloudinit" ELSE vm.ide2)
  BY <1>0, <1>1, VMEffect DEF Finished, Applies
<1>3. vm'.template = cfg.template
  <2>1. vm'.template <=> op = "template" \/ vm.template
    BY <1>0, <1>1, VMEffect
  <2> QED
    BY <1>0, <2>1 DEF Finished, Wanted, VMs, Configs
<1>4. vm'.protected = (cfg.options = "protect")
  <2>1. IF op = "options" THEN vm'.protected <=> cfg.options = "protect"
                          ELSE vm'.protected <=> vm.protected
    BY <1>0, <1>1, VMEffect
  <2> QED
    BY <1>0, <2>1 DEF Finished, VMs
<1> QED
  BY <1>2, <1>3, <1>4 DEF Finished, Wanted

\* The VM as it was, or powered off, or gone, meets the same expectations.
ShapesKept ==
  \A op \in Shapes : Ours' => Ours /\ (Before(op) => Before(op)')

\* A step that leaves the VM alone leaves every shape of it.
LEMMA SameVMKeepsShapes ==
  ASSUME vm' = vm, cfg' = cfg
  PROVE  ShapesKept
  BY DEF ShapesKept, Ours, Before, Installing, Installed, Bare, FinalDrive, Finished

\* ShapeInv for a step that starts no operation on the VM and reaches none.
LEMMA ShapeFrame ==
  ASSUME TypeOK, ShapeInv, ShapesKept, cfg' = cfg,
         \A op \in VMOps : task'[op] = task[op] \/ task'[op] = "idle",
         pc' \notin VMOps \ {"create"}, pc' \notin {"poll", "deleteISO"},
         completed' => Finished',
         task'["deleteISO"] # "idle" /\ ~signalled' => ~vmAcked' \/ Finished'
  PROVE  ShapeInv'
<1>1. \A op \in VMOps : op \in Shapes /\ NextOp(op) \in Shapes
  BY DEF Shapes, VMOps, NextOp
<1>2. \A op \in VMOps : /\ task'[op] = "queued" /\ Ours' => Before(op)'
                        /\ task'[op] = "ok" /\ Ours' => Before(NextOp(op))'
  BY <1>1 DEF ShapeInv, ShapesKept
<1>3. Before("create")'
  BY DEF Before
<1>4. \A op \in VMOps : pc' = op => op = "create"
  OBVIOUS
<1> QED
  BY <1>2, <1>3, <1>4 DEF ShapeInv, VMOps

\* The steps that only read.
LEMMA ShapeOfReads ==
  ASSUME TypeOK, BuildInv, ReadActions
  PROVE  ShapeInv'
<1>0. ReadFrame /\ ShapesKept
  BY ReadsFrame, SameVMKeepsShapes DEF ReadFrame
<1>1. Finished' = Finished /\ cfg' = cfg /\ task' = task
  BY <1>0 DEF ReadFrame, Finished
<1>2. CASE pc = "poll" /\ pc' = "finalize"
  <2>1. \A op \in Ops : task[op] = "idle"
    BY <1>2 DEF BuildInv, PathInv, PathSteps, MainSteps, AwaitInv, CallSteps, VMOps
  <2>2. Ours' => Before("finalize")'
    BY <1>0, <1>2 DEF ReadFrame, ReadMoves, BuildInv, ShapeInv, Before, Installing,
                      Installed, Ours
  <2>3. ~completed'
    BY <1>0, <1>2 DEF ReadFrame, BuildInv, PathInv
  <2> QED
    BY <1>1, <1>2, <2>1, <2>2, <2>3 DEF ShapeInv, VMOps, Ops
<1>3. CASE ~(pc = "poll" /\ pc' = "finalize")
  <2>1. pc' \notin VMOps \ {"create"} /\ pc' \notin {"poll", "deleteISO"}
    BY <1>0, <1>3 DEF ReadFrame, ReadMoves, VMOps
  <2>2. completed' => Finished'
    BY <1>0, <1>1 DEF ReadFrame, BuildInv, ShapeInv
  <2>3. task'["deleteISO"] # "idle" /\ ~signalled' => ~vmAcked' \/ Finished'
    BY <1>0, <1>1 DEF ReadFrame, BuildInv, ShapeInv
  <2> QED
    BY <1>0, <1>1, <2>1, <2>2, <2>3, ShapeFrame DEF BuildInv
<1> QED
  BY <1>2, <1>3

\* CreateVM: what its task will leave is what StartVM expects.
LEMMA ShapeOfCreate ==
  ASSUME TypeOK, BuildInv, CreateVM
  PROVE  ShapeInv'
<1> USE DEF BuildInv
<1>1. \A op \in Ops : task'[op] # "idle" => op = "create"
  BY CreateMoves, CallEffect DEF PathInv, PathSteps, MainSteps, Ops
<1>2. task'["create"] # "ok" /\ cfg' = cfg /\ ~completed'
  BY CreateMoves, CallEffect DEF Ops, PathInv
<1>3. Before("create")'
  BY DEF Before
<1>4. pc' = "start" => (Ours' => Before("start")')
  <2>1. ASSUME pc' = "start" PROVE Succeeds("create")
    BY <2>1, CreateMoves
  <2>2. ASSUME Succeeds("create"), awaiting PROVE Ours' => Before("start")'
    <3>1. vm' = vm /\ (Ours => Before("start"))
      BY <2>2 DEF Succeeds, TaskOK, ShapeInv, NextOp, VMOps
    <3> QED
      BY <1>2, <3>1, SameVMKeepsShapes DEF ShapesKept, Shapes, VMOps
  <2>3. ASSUME Succeeds("create"), ~awaiting PROVE Before("start")'
    <3>1. Execute("create") /\ Wanted("create") /\ Before("create")
      BY <2>3 DEF Succeeds, Gone, Wanted, Before
    <3> QED
      BY <1>2, <3>1, RunsToNext DEF NextOp, VMOps
  <2> QED
    BY <2>1, <2>2, <2>3
<1>5. pc' \in {"create", "start", "discardISO", "return"}
  BY CreateMoves
<1> QED
  BY <1>1, <1>2, <1>3, <1>4, <1>5 DEF ShapeInv, VMOps, Ops

\* A call on the VM submits its task in the shape the task needs, and goes on in
\* the shape the task has left.
LEMMA ShapeOfVMSteps ==
  ASSUME TypeOK, BuildInv, NEW step \in VMOps \ {"create"},
         VMStep(step, Wanted(step), NextOp(step))
  PROVE  ShapeInv'
<1> USE DEF BuildInv
<1>1. pc = step /\ step = OpOf(pc) /\ step \in Ops /\ pc \in CallSteps /\ pc \in PathSteps
  BY VMStepMoves DEF PathSteps, MainSteps, VMOps
<1>2. /\ \A op \in Ops : task[op] # "idle" => op = step /\ awaiting
      /\ \A op \in Ops : task'[op] # "idle" => op = step /\ Wanted(step)
      /\ task'[step] # "ok" /\ ~completed' /\ cfg' = cfg
  <2>1. \A op \in Ops : task[op] # "idle" => op = step /\ awaiting
    BY <1>1 DEF PathInv
  <2>2. ~completed' /\ cfg' = cfg
    BY <1>1, VMStepMoves DEF PathInv, PathSteps, MainSteps
  <2>3. CASE Wanted(step)
    BY <1>1, <2>1, <2>2, <2>3, VMStepMoves, CallEffect
  <2>4. CASE ~Wanted(step)
    BY <1>1, <2>1, <2>2, <2>4, VMStepMoves
  <2> QED
    BY <2>3, <2>4
<1>3. ~awaiting /\ Ours => Before(step)
  BY <1>1 DEF ShapeInv
<1>4. awaiting => task[step] # "idle"
  BY <1>1 DEF AwaitInv
<1>5. ASSUME Submit(step) \/ Fails(step) PROVE task'[step] = "queued" /\ Ours' => Before(step)'
  <2>1. vm' = vm /\ ShapesKept
    BY <1>1, <1>2, <1>5, CallWithoutSuccess, SameVMKeepsShapes
  <2>2. task'[step] = "queued" => ~awaiting \/ task[step] = "queued"
    BY <1>1, <1>5 DEF Submit, Fails, CallFails, WaitFails, TypeOK
  <2>3. task'[step] = "queued" /\ Ours => Before(step)
    BY <1>3, <2>2 DEF ShapeInv
  <2> QED
    BY <2>1, <2>3 DEF ShapesKept, Shapes
<1>6. ASSUME Succeeds(step), Wanted(step) PROVE Ours' => Before(NextOp(step))'
  <2>1. CASE awaiting
    <3>1. vm' = vm /\ (Ours => Before(NextOp(step)))
      BY <1>6, <2>1 DEF Succeeds, TaskOK, ShapeInv
    <3>2. NextOp(step) \in Shapes
      BY DEF NextOp, Shapes, VMOps
    <3> QED
      BY <1>2, <3>1, <3>2, SameVMKeepsShapes DEF ShapesKept
  <2>2. CASE ~awaiting
    <3>1. Execute(step) /\ Ours
      BY <1>1, <1>6, <2>2 DEF Succeeds, Gone, Execute, Applies, VMOps, Ours
    <3> QED
      BY <1>2, <1>3, <1>6, <2>2, <3>1, RunsToNext
  <2> QED
    BY <2>1, <2>2
<1>7. ASSUME ~Wanted(step) PROVE Ours' => Before(NextOp(step))'
  <2>1. vm' = vm /\ ~awaiting
    BY <1>7, VMStepMoves
  <2>2. NextOp(step) \in Shapes
    BY DEF NextOp, Shapes, VMOps
  <2> QED
    BY <1>2, <1>3, <1>7, <2>1, <2>2, SkipsToNext, SameVMKeepsShapes DEF ShapesKept
<1>8. /\ pc' = step => awaiting'
      /\ pc' \in {step, "return", NextOp(step)}
      /\ pc' = NextOp(step) => (Ours' => Before(NextOp(step))')
      /\ task'[step] = "queued" /\ Ours' => Before(step)'
  <2>1. NextOp(step) # step /\ NextOp(step) # "return"
    BY DEF NextOp, VMOps
  <2>2. CASE Wanted(step) /\ Submit(step)
    BY <1>1, <1>5, <2>1, <2>2, VMStepMoves, CallEffect
  <2>3. CASE Wanted(step) /\ Succeeds(step) /\ pc' = NextOp(step)
    <3>1. task'[step] = "idle"
      BY <1>1, <1>2, <2>3, VMStepMoves, CallEffect
    <3> QED
      BY <1>6, <2>1, <2>3, <3>1
  <2>4. CASE Wanted(step) /\ Fails(step) /\ pc' = "return"
    BY <1>1, <1>5, <2>1, <2>4 DEF VMOps
  <2>5. CASE ~Wanted(step)
    BY <1>2, <1>7, <2>1, <2>5, VMStepMoves
  <2> QED
    BY <2>2, <2>3, <2>4, <2>5, VMStepMoves
<1>9. Before("deleteISO")' = Finished' /\ Before("create")'
  BY DEF Before
<1>10. step # "deleteISO" /\ step # "poll" /\ NextOp(step) # "create"
  BY DEF VMOps, NextOp
<1> QED
  BY <1>2, <1>8, <1>9, <1>10 DEF ShapeInv, VMOps, Ops, Wanted

\* The ISO of a VM that is not finished is only deleted if the build fails.
LEMMA ShapeOfDeletes ==
  ASSUME TypeOK, OwnershipInv, BuildInv, DeleteActions
  PROVE  ShapeInv'
<1> USE DEF BuildInv
<1>1. vm' = vm /\ cfg' = cfg
  <2>1. Execute("deleteISO") => vm' = vm
    BY DEF Execute, VMAfter
  <2> QED
    BY <2>1, DeleteMoves, CallWithoutSuccess DEF Succeeds, Ops
<1>2. \A op \in VMOps : task'[op] = task[op]
  BY DeleteMoves, CallsLeaveVMOps DEF Ops, VMOps
<1>3. ShapesKept /\ Finished' = Finished
  BY <1>1, SameVMKeepsShapes DEF Finished
<1>4. pc = "deleteISO" => Finished
  BY DEF ShapeInv, AckInv, AfterCreate, OwnershipInv, InCleanup, CleanupSteps, Ours
<1>5. completed' => Finished
  BY <1>4, DeleteMoves DEF ShapeInv
<1>6. ~signalled' => ~vmAcked' \/ Finished
  <2>1. pc = "discardISO" => ~vmAcked
    BY DEF AckInv, BeforeCreate, MainSteps, AfterCreate
  <2>2. pc = "cDeleteISO" => signalled
    BY DEF PathInv, InCleanup, CleanupSteps
  <2> QED
    BY <1>4, <2>1, <2>2, DeleteMoves
<1>7. CASE pc' # "deleteISO"
  <2>1. pc' \notin VMOps /\ pc' # "poll"
    BY DeleteMoves DEF Submit, VMOps
  <2> QED
    BY <1>1, <1>2, <1>3, <1>5, <1>6, <1>7, <2>1, ShapeFrame
<1>8. CASE pc' = "deleteISO"
  <2>1. pc = "deleteISO"
    BY <1>8, DeleteMoves DEF Submit
  <2>2. \A op \in VMOps : op \in Shapes /\ NextOp(op) \in Shapes /\ pc' # op
    BY <1>8 DEF Shapes, VMOps, NextOp
  <2>3. \A op \in VMOps :
          /\ task'[op] = "queued" /\ Ours' => Before(op)'
          /\ task'[op] = "ok" /\ Ours' => Before(NextOp(op))'
          /\ pc' = op /\ ~awaiting' /\ Ours' => Before(op)'
    BY <1>2, <1>3, <2>2 DEF ShapeInv, ShapesKept
  <2>4. /\ task'["cloudInit"] # "idle" => cfg'.cloudInit
        /\ task'["options"] # "idle" => cfg'.options # "off"
        /\ task'["template"] # "idle" => cfg'.template
    BY <1>1, <1>2 DEF ShapeInv, VMOps
  <2>5. /\ pc' = "poll" /\ Ours' => Before("poll")'
        /\ pc' = "deleteISO" /\ Ours' => Finished'
        /\ completed' => Finished'
        /\ task'["deleteISO"] # "idle" /\ ~signalled' => ~vmAcked' \/ Finished'
    BY <1>3, <1>4, <1>8, <2>1
  <2> QED
    BY <2>3, <2>4, <2>5 DEF ShapeInv
<1> QED
  BY <1>7, <1>8

\* Stop powers the VM off, destroy takes it away.
LEMMA CleanupKeepsShapes ==
  ASSUME TypeOK, NEW op \in {"stop", "destroy"}, cfg' = cfg,
         Calls(op) \/ TaskRuns(op) \/ TaskFails(op)
  PROVE  ShapesKept
<1>1. CASE vm' = vm
  BY <1>1, SameVMKeepsShapes
<1>2. CASE vm' # vm
  <2>1. Execute(op)
    BY <1>2, CallWithoutSuccess DEF Calls, Succeeds, TaskRuns, TaskFails, Ops
  <2>2. CASE op = "stop"
    <3>1. vm' = [vm EXCEPT !.power = "stopped"] /\ vm'.owner = vm.owner
      BY <2>1, <2>2 DEF Execute, VMAfter, TypeOK, VMs
    <3> QED
      BY <3>1, PowerOffKeepsShape DEF ShapesKept, Ours
  <2>3. CASE op = "destroy"
    BY <2>1, <2>3, VMConstants DEF Execute, VMAfter, ShapesKept, Ours
  <2> QED
    BY <2>2, <2>3
<1> QED
  BY <1>1, <1>2

\* The cleanup's calls.
LEMMA ShapeOfCleanup ==
  ASSUME TypeOK, BuildInv, CleanupCalls
  PROVE  ShapeInv'
<1> USE DEF BuildInv
<1>1. ShapesKept /\ cfg' = cfg
  BY CleanupMoves, CleanupKeepsShapes
<1>2. \A op \in VMOps : task'[op] = task[op]
  BY CleanupMoves, CallsLeaveVMOps DEF Ops, VMOps
<1>3. signalled' /\ ~completed'
  BY CleanupMoves DEF PathInv, InCleanup, CleanupSteps
<1>4. pc' \in {"cStop", "cDestroy", "cDeleteISO"}
  BY CleanupMoves
<1> QED
  BY <1>1, <1>2, <1>3, <1>4, ShapeFrame DEF VMOps

\* The guest that powers off, other tenants, the signal and the cleanup's timeout.
LEMMA ShapeOfOthers ==
  ASSUME TypeOK, BuildInv, OtherActions
  PROVE  ShapeInv'
<1> USE DEF BuildInv
<1>1. ShapesKept
  <2>1. CASE vm' = vm
    BY <2>1, OthersMove, SameVMKeepsShapes
  <2>2. CASE vm' = ForeignVM
    BY <2>2, VMConstants DEF ShapesKept, Ours
  <2>3. CASE Ours /\ vm' = [vm EXCEPT !.power = "stopped"]
    BY <2>3, OthersMove, PowerOffKeepsShape DEF ShapesKept, Ours
  <2> QED
    BY <2>1, <2>2, <2>3, OthersMove
<1>2. Finished => Finished'
  <2>1. CASE vm' = vm
    BY <2>1, OthersMove DEF Finished
  <2>2. CASE vm' # vm
    BY <2>2, OthersMove DEF Finished, Ours
  <2> QED
    BY <2>1, <2>2
<1>3. ~signalled' => ~signalled
  BY OthersMove
<1>4. Before("deleteISO") = Finished /\ Before("deleteISO")' = Finished'
  BY DEF Before
<1>5. \A op \in VMOps : op \in Shapes /\ NextOp(op) \in Shapes
  BY DEF Shapes, VMOps, NextOp
<1>6. \A op \in VMOps :
        /\ task'[op] = "queued" /\ Ours' => Before(op)'
        /\ task'[op] = "ok" /\ Ours' => Before(NextOp(op))'
        /\ pc' = op /\ ~awaiting' /\ Ours' => Before(op)'
  BY <1>1, <1>5, OthersMove DEF ShapeInv, ShapesKept
<1>7. /\ pc' = "poll" /\ Ours' => Before("poll")'
      /\ pc' = "deleteISO" /\ Ours' => Finished'
  BY <1>1, <1>4, OthersMove DEF ShapeInv, ShapesKept, Shapes
<1>8. /\ completed' => Finished'
      /\ task'["deleteISO"] # "idle" /\ ~signalled' => ~vmAcked' \/ Finished'
      /\ task'["cloudInit"] # "idle" => cfg'.cloudInit
      /\ task'["options"] # "idle" => cfg'.options # "off"
      /\ task'["template"] # "idle" => cfg'.template
  BY <1>2, <1>3, OthersMove DEF ShapeInv
<1> QED
  BY <1>6, <1>7, <1>8 DEF ShapeInv

\* A task leaves a finished VM finished, unless it destroys the VM after an
\* interrupt.
LEMMA FinishedSurvivesTasks ==
  ASSUME TypeOK, OwnershipInv, BuildInv, NEW op \in Ops, TaskRuns(op) \/ TaskFails(op),
         Finished
  PROVE  \/ Finished'
         \/ op = "destroy" /\ Execute(op) /\ signalled /\ ~completed
<1> USE DEF BuildInv
<1>0. cfg' = cfg /\ task[op] = "queued"
  BY TaskEffect DEF TaskRuns, TaskFails, builderOnly
<1>1. op = "destroy" => signalled /\ ~completed
  BY <1>0 DEF OwnershipInv, PathInv
<1>2. op \in {"start", "finalize"} => Before(op)
  BY <1>0 DEF ShapeInv, VMOps, Finished, Ours
<1>3. Wanted(op)
  BY <1>0 DEF ShapeInv, Wanted
<1>4. Execute(op) /\ op # "destroy" => Finished'
  BY <1>0, <1>2, <1>3, FinishedKept
<1>5. vm' = vm => Finished'
  BY <1>0 DEF Finished
<1> QED
  BY <1>1, <1>4, <1>5, TaskEffect

\* A task that runs turns the shape before its operation into the one after it.
LEMMA ShapeOfTasks ==
  ASSUME TypeOK, OwnershipInv, BuildInv, NEW op \in Ops, TaskRuns(op) \/ TaskFails(op)
  PROVE  ShapeInv'
<1> USE DEF BuildInv
<1>0. UNCHANGED <<cfg, pc, awaiting, completed, signalled, vmAcked>>
  BY DEF TaskRuns, TaskFails, builderOnly, buildState, history
<1>1. /\ task[op] = "queued"
      /\ \A o \in Ops : o # op => task'[o] = task[o]
      /\ task'[op] # "queued"
      /\ \A o \in Ops : task'[o] # "idle" => task[o] # "idle"
  BY TaskEffect
<1>2. Wanted(op)
  BY <1>1 DEF ShapeInv, Wanted
<1>3. Finished => Finished' \/ (op = "destroy" /\ signalled /\ ~completed)
  BY FinishedSurvivesTasks
<1>4. /\ completed' => Finished'
      /\ task'["deleteISO"] # "idle" /\ ~signalled' => ~vmAcked' \/ Finished'
      /\ task'["cloudInit"] # "idle" => cfg'.cloudInit
      /\ task'["options"] # "idle" => cfg'.options # "off"
      /\ task'["template"] # "idle" => cfg'.template
  BY <1>0, <1>1, <1>3 DEF ShapeInv, Ops
<1>5. CASE op \in VMOps
  <2>1. \A o \in VMOps : o # op => task'[o] = "idle"
    BY <1>1, <1>5 DEF PathInv, VMOps, Ops
  <2>2. pc \in PathSteps => awaiting /\ op = OpOf(pc)
    BY <1>1 DEF PathInv
  <2>3. \A o \in VMOps : pc = o => awaiting
    BY <2>2 DEF PathSteps, MainSteps, VMOps
  <2>4. pc # "poll" /\ pc # "deleteISO"
    BY <1>5, <2>2 DEF PathSteps, MainSteps, VMOps, OpOf, AwaitInv, CallSteps
  <2>5. task'[op] = "ok" /\ Ours' => Before(NextOp(op))'
    <3>1. ASSUME task'[op] = "ok", Ours' PROVE Execute(op) /\ Before(op)
      <4>1. Execute(op)
        BY <3>1, TaskEffect
      <4>2. Ours \/ op = "create"
        BY <1>5, <4>1 DEF Execute, Applies, VMOps, Ours
      <4> QED
        BY <1>1, <1>5, <4>1, <4>2 DEF ShapeInv, Before
    <3> QED
      BY <1>0, <1>2, <1>5, <3>1, RunsToNext
  <2> QED
    BY <1>0, <1>1, <1>4, <1>5, <2>1, <2>3, <2>4, <2>5 DEF ShapeInv, VMOps, Ops
<1>6. CASE op \notin VMOps
  <2>1. ShapesKept
    <3>1. CASE op \in {"stop", "destroy"}
      BY <1>0, <3>1, CleanupKeepsShapes
    <3>2. CASE op \in {"upload", "deleteISO"}
      <4>1. Execute(op) => vm' = vm
        BY <3>2 DEF Execute, VMAfter
      <4> QED
        BY <1>0, <4>1, TaskEffect, SameVMKeepsShapes
    <3> QED
      BY <1>6, <3>1, <3>2 DEF Ops, VMOps
  <2>2. \A o \in VMOps : o \in Shapes /\ NextOp(o) \in Shapes /\ task'[o] = task[o]
    BY <1>1, <1>6 DEF Shapes, VMOps, NextOp, Ops
  <2>3. \A o \in VMOps :
          /\ task'[o] = "queued" /\ Ours' => Before(o)'
          /\ task'[o] = "ok" /\ Ours' => Before(NextOp(o))'
          /\ pc' = o /\ ~awaiting' /\ Ours' => Before(o)'
    BY <1>0, <2>1, <2>2 DEF ShapeInv, ShapesKept
  <2>4. /\ pc' = "poll" /\ Ours' => Before("poll")'
        /\ pc' = "deleteISO" /\ Ours' => Finished'
    BY <1>0, <2>1 DEF ShapeInv, ShapesKept, Shapes, Before
  <2> QED
    BY <1>4, <2>3, <2>4 DEF ShapeInv
<1> QED
  BY <1>5, <1>6

\* Every task meets the VM it was submitted for.
LEMMA ShapeStep ==
  ASSUME TypeOK, OwnershipInv, BuildInv, [Next]_vars
  PROVE  ShapeInv'
<1>1. CASE UploadTemporaryInstallerISO
  <2>1. vm' = vm
    <3>1. Execute("upload") => vm' = vm
      BY DEF Execute, VMAfter
    <3> QED
      BY <1>1, <3>1, UploadMoves, CallWithoutSuccess DEF Calls, Succeeds, Gone, Ops
  <2>2. \A op \in VMOps : task'[op] = task[op]
    BY <1>1, UploadMoves, CallsLeaveVMOps DEF BuildInv, Ops, VMOps
  <2>3. ~completed' /\ ~vmAcked' /\ pc' \in {"upload", "selectVMID", "return"} /\ cfg' = cfg
    BY <1>1, UploadMoves DEF BuildInv, PathInv, AckInv, BeforeCreate, MainSteps, AfterCreate
  <2> QED
    BY <2>1, <2>2, <2>3, SameVMKeepsShapes, ShapeFrame DEF BuildInv, VMOps
<1>2. CASE VMStepActions
  BY <1>2, ShapeOfVMSteps DEF VMStepActions
<1>3. CASE TaskActions
  BY <1>3, ShapeOfTasks DEF TaskActions
<1> QED
  BY <1>1, <1>2, <1>3, ShapeOfReads, ShapeOfCreate, ShapeOfDeletes, ShapeOfCleanup,
     ShapeOfOthers, NextInGroups

\* Success is declared once the ISO is deleted.
LEMMA DoneStep ==
  ASSUME TypeOK, BuildInv, [Next]_vars
  PROVE  DoneInv'
<1> USE DEF BuildInv, DoneInv
<1>1. CASE ReadActions
  BY <1>1, ReadsFrame DEF ReadFrame
<1>2. CASE UploadTemporaryInstallerISO
  BY <1>2, UploadMoves
<1>3. CASE CreateVM
  BY <1>3, CreateMoves
<1>4. CASE VMStepActions
  <2>1. PICK step \in VMOps \ {"create"} : VMStep(step, Wanted(step), NextOp(step))
    BY <1>4 DEF VMStepActions
  <2> QED
    BY <2>1, VMStepMoves
<1>5. CASE DeleteActions
  BY <1>5, DeleteMoves
<1>6. CASE CleanupCalls
  BY <1>6, CleanupMoves
<1>7. CASE TaskActions
  <2>1. PICK op \in Ops : TaskRuns(op) \/ TaskFails(op)
    BY <1>7 DEF TaskActions
  <2> QED
    BY <2>1 DEF TaskRuns, TaskFails, builderOnly, buildState
<1>8. CASE OtherActions
  BY <1>8, OthersMove
<1> QED
  BY <1>1, <1>2, <1>3, <1>4, <1>5, <1>6, <1>7, <1>8, NextInGroups

\* A build starts with nothing in flight and nothing recorded.
LEMMA BuildInvInit == Init => BuildInv
<1> SUFFICES ASSUME Init PROVE BuildInv
  OBVIOUS
<1>1. \A op \in Ops : task[op] = "idle"
  BY DEF Init
<1>2. /\ pc = "validate" /\ ~awaiting /\ ~completed /\ ~isoRecorded /\ ~isoDeleted
      /\ vmAcked = FALSE /\ vmCreated = FALSE
  BY DEF Init
<1>3. AwaitInv /\ PathInv
  BY <1>1, <1>2 DEF AwaitInv, PathInv, InCleanup, CleanupSteps, VMOps, Ops
<1>4. ISOInv /\ AckInv
  BY <1>1, <1>2 DEF ISOInv, AckInv, AfterCreate, AfterUpload, BeforeCreate, MainSteps,
                    PathSteps, Ops
<1>5. ShapeInv /\ DoneInv
  BY <1>1, <1>2 DEF ShapeInv, DoneInv, VMOps, Ops
<1> QED
  BY <1>3, <1>4, <1>5 DEF BuildInv

\* Every step keeps the invariant.
LEMMA BuildInvStep ==
  TypeOK /\ OwnershipInv /\ BuildInv /\ [Next]_vars => BuildInv'
  BY AwaitStep, PathStep, ISOStep, AckStep, ShapeStep, DoneStep DEF BuildInv

\* The steps a build may take, whatever it owes: all the theorems below need.
Safety == Init /\ [][Next]_vars

IInv == TypeOK /\ OwnershipInv /\ BuildInv

\* The inductive invariant of a build: what it waits for, what is in flight,
\* where its ISO is, which machine is its own, and what its VM looks like.
THEOREM BuildInvariant == Safety => []IInv
<1>1. Init => IInv
  BY TypeInit, OwnershipStart, BuildInvInit DEF IInv
<1>2. IInv /\ [Next]_vars => IInv'
  BY TypeStep, OwnershipStep, BuildInvStep DEF IInv
<1> QED
  BY <1>1, <1>2, PTL DEF Safety

\* A build that says it succeeded has a VM as it was asked for, no installer
\* ISO, and no task that could still change the VM.
THEOREM SuccessIsFinished == Safety => []SuccessMeansFinishedImage
<1>1. IInv => SuccessMeansFinishedImage
  <2> SUFFICES ASSUME IInv, completed
               PROVE  Finished /\ ~iso /\ \A op \in Ops : task[op] # "queued"
    BY DEF SuccessMeansFinishedImage
  <2> USE DEF IInv, BuildInv
  <2>1. Finished
    BY DEF ShapeInv
  <2>2. ~iso
    BY DEF DoneInv, ISOInv
  <2>3. ~awaiting
    BY DEF PathInv, AwaitInv, CallSteps, VMOps
  <2>4. \A op \in Ops : task[op] = "idle"
    BY <2>3 DEF PathInv
  <2> QED
    BY <2>1, <2>2, <2>4
<1> QED
  BY <1>1, BuildInvariant, PTL

-----------------------------------------------------------------------------
(* The conversion to a template.                                           *)

\* A call or a task changes the VM only by executing its operation.
LEMMA OnlyExecutionChanges ==
  ASSUME NEW op \in Ops, Calls(op) \/ TaskRuns(op) \/ TaskFails(op)
  PROVE  vm' = vm \/ Execute(op)
  BY CallWithoutSuccess DEF Calls, Succeeds, TaskRuns, TaskFails

\* The VM as the last operation before the conversion left it.
Final == /\ vm.owner = "ours" /\ vm.power = "stopped" /\ vm.diskBoot
         /\ vm.ide2 = (IF cfg.cloudInit THEN "cloudinit" ELSE "empty")

\* The step that makes the VM a template finds it otherwise finished.
LEMMA ConversionStep ==
  ASSUME IInv, [Next]_vars, ~vm.template, vm'.template
  PROVE  Final
<1> USE DEF IInv, BuildInv
<1>0. ASSUME NEW op \in Ops, Execute(op) PROVE op = "template" /\ Ours
  BY <1>0, VMEffect DEF Execute, TypeOK, Applies, Ours
<1>1. Before("template") /\ Ours => Final
  BY DEF Before, Final, FinalDrive, Ours
<1>2. CASE ReadActions
  BY <1>2, ReadsFrame DEF ReadFrame
<1>3. CASE UploadTemporaryInstallerISO
  BY <1>0, <1>3, UploadMoves, OnlyExecutionChanges DEF Ops
<1>4. CASE CreateVM
  BY <1>0, <1>4, CreateMoves, OnlyExecutionChanges DEF Ops
<1>5. CASE VMStepActions
  <2>1. PICK step \in VMOps \ {"create"} : VMStep(step, Wanted(step), NextOp(step))
    BY <1>5 DEF VMStepActions
  <2>2. Calls(step) /\ Execute(step) /\ pc = step /\ step \in Ops
    BY <2>1, VMStepMoves, OnlyExecutionChanges
  <2>3. step = "template" /\ Ours
    BY <1>0, <2>2
  <2>4. ~awaiting
    BY <2>2, <2>3 DEF Calls, Submit, Succeeds, Fails, CallFails, WaitFails
  <2> QED
    BY <1>1, <2>2, <2>3, <2>4 DEF ShapeInv
<1>6. CASE DeleteActions
  BY <1>0, <1>6, DeleteMoves, OnlyExecutionChanges DEF Ops
<1>7. CASE CleanupCalls
  BY <1>0, <1>7, CleanupMoves, OnlyExecutionChanges
<1>8. CASE TaskActions
  <2>1. PICK op \in Ops : TaskRuns(op) \/ TaskFails(op)
    BY <1>8 DEF TaskActions
  <2>2. op = "template" /\ Ours /\ task[op] = "queued"
    BY <1>0, <2>1, OnlyExecutionChanges, TaskEffect
  <2> QED
    BY <1>1, <2>2 DEF ShapeInv, VMOps
<1>9. CASE OtherActions
  BY <1>9, OthersMove, VMConstants DEF TypeOK, VMs
<1> QED
  BY <1>2, <1>3, <1>4, <1>5, <1>6, <1>7, <1>8, <1>9, NextInGroups

\* The node makes a template only of a VM that is stopped, boots from its disk
\* and has the drive that was asked for in the place of the installer, even
\* when the build has given up waiting for the conversion.
THEOREM ConversionIsLast == Safety => TemplateIsFinal
<1>1. IInv /\ [Next]_vars => [~vm.template /\ vm'.template =>
        /\ vm.owner = "ours" /\ vm.power = "stopped" /\ vm.diskBoot
        /\ vm.ide2 = (IF cfg.cloudInit THEN "cloudinit" ELSE "empty")]_vars
  BY ConversionStep DEF Final
<1> QED
  BY <1>1, BuildInvariant, PTL DEF Safety, TemplateIsFinal

-----------------------------------------------------------------------------
(* The refinement: every step of a build is a step of its contract.        *)

\* What the contract sees of a build.
Phase == IF pc = "cleaned" THEN "cleaned"
         ELSE IF pc = "ended" THEN IF completed THEN "success" ELSE "failure"
         ELSE IF pc \in CleanupSteps THEN "cleaning" ELSE "working"
Machine == IF ~vmAcked \/ vm.owner # "ours" THEN "none"
           ELSE IF Finished THEN "image" ELSE "draft"
Stored == IF isoRecorded /\ iso THEN {"iso"} ELSE {}

ContractStep == Contract!Next \/ UNCHANGED Contract!vars

\* Nothing that the contract sees changes but the machine, and no machine
\* comes back, is unmade, or is given up without an interrupt.
LEMMA MachineChanges ==
  ASSUME Phase' = Phase, signalled' = signalled, warned' = warned, Stored' = Stored,
         vmAcked' = vmAcked,
         vmAcked /\ ~Ours => ~Ours',
         vmAcked /\ Ours /\ ~Ours' => signalled /\ Phase \in {"cleaning", "cleaned"},
         Finished /\ Ours' => Finished'
  PROVE  ContractStep
<1>1. CASE Machine' = Machine
  BY <1>1 DEF ContractStep, Contract!vars, Phase, Stored, Machine
<1>2. CASE Machine = "draft" /\ Machine' = "image"
  BY <1>2 DEF ContractStep, Contract!Next, Contract!Complete, Phase, Stored, Machine
<1>3. CASE Machine' = "none" /\ signalled /\ Phase \in {"cleaning", "cleaned"}
  BY <1>3 DEF ContractStep, Contract!Next, Contract!Destroy, Phase, Stored, Machine
<1>4. \/ Machine' = Machine
      \/ Machine = "draft" /\ Machine' = "image"
      \/ Machine' = "none" /\ signalled /\ Phase \in {"cleaning", "cleaned"}
  BY DEF Machine, Ours
<1> QED
  BY <1>1, <1>2, <1>3, <1>4

\* Nothing changes but the ISO, which goes away when it may.
LEMMA FilesDrop ==
  ASSUME Phase' = Phase, signalled' = signalled, warned' = warned, Machine' = Machine,
         Stored' \in {Stored, {}},
         Stored' # Stored => signalled \/ Machine # "draft"
  PROVE  ContractStep
<1>1. CASE Stored' = Stored
  BY <1>1 DEF ContractStep, Contract!vars, Phase, Stored, Machine
<1>2. CASE Stored' # Stored
  <2>1. Stored' = Stored \ {"iso"}
    BY <1>2 DEF Stored
  <2>2. Contract!Drop("iso")
    BY <1>2, <2>1 DEF Contract!Drop, Phase, Stored, Machine
  <2> QED
    BY <2>2 DEF ContractStep, Contract!Next, Contract!Files
<1> QED
  BY <1>1, <1>2

\* The steps that only read change nothing the contract sees, except where the
\* build ends or begins its cleanup.
LEMMA ReadsKeepContract ==
  ASSUME IInv, ReadActions
  PROVE  ContractStep
<1> USE DEF IInv, BuildInv
<1>0. ReadFrame
  BY ReadsFrame
<1>1. Finished' = Finished
  BY <1>0 DEF ReadFrame, Finished
<1>2. /\ Machine' = Machine /\ Stored' = Stored
      /\ UNCHANGED <<signalled, warned>>
  BY <1>0, <1>1 DEF ReadFrame, Machine, Stored
<1>3. CASE pc # "return"
  <2>1. Phase' = Phase
    BY <1>0, <1>3 DEF ReadFrame, ReadMoves, Phase, CleanupSteps
  <2> QED
    BY <1>2, <2>1, FilesDrop
<1>4. CASE pc = "return" /\ pc' \in {"cStatus", "cDeleteISO"}
  <2>1. Phase = "working" /\ Phase' = "cleaning" /\ signalled
    BY <1>0, <1>4 DEF ReadFrame, ReadMoves, Phase, CleanupSteps
  <2> QED
    BY <1>2, <2>1 DEF ContractStep, Contract!Next, Contract!BeginCleaning, Phase, Stored,
                      Machine
<1>5. CASE pc = "return" /\ pc' = "ended" /\ completed
  <2>1. Phase = "working" /\ Phase' = "success"
    BY <1>0, <1>5 DEF ReadFrame, Phase, CleanupSteps
  <2>2. Machine = "image"
    BY <1>5 DEF Machine, AckInv, ShapeInv, Finished
  <2>3. Stored = {}
    BY <1>5 DEF Stored, DoneInv, ISOInv
  <2> QED
    BY <1>2, <2>1, <2>2, <2>3 DEF ContractStep, Contract!Next, Contract!Succeed, Phase,
                                  Stored, Machine
<1>6. CASE pc = "return" /\ pc' = "ended" /\ ~completed
  <2>1. Phase = "working" /\ Phase' = "failure" /\ ~signalled
    BY <1>0, <1>6 DEF ReadFrame, ReadMoves, Phase, CleanupSteps
  <2> QED
    BY <1>2, <2>1 DEF ContractStep, Contract!Next, Contract!Fail, Phase, Stored, Machine
<1> QED
  BY <1>0, <1>3, <1>4, <1>5, <1>6 DEF ReadFrame, ReadMoves

\* The end of the upload records the ISO.
LEMMA UploadKeepsContract ==
  ASSUME IInv, UploadTemporaryInstallerISO, ISOInv'
  PROVE  ContractStep
<1> USE DEF IInv, BuildInv
<1>1. Phase = "working" /\ Phase' = "working" /\ UNCHANGED <<signalled, warned>>
  BY UploadMoves DEF Phase, CleanupSteps
<1>2. Machine = "none" /\ Machine' = "none"
  BY UploadMoves DEF Machine, AckInv, BeforeCreate, MainSteps, AfterCreate
<1>3. Stored = {}
  BY UploadMoves DEF Stored, ISOInv, PathSteps, MainSteps, AfterUpload, AfterCreate
<1>4. CASE Stored' = {}
  BY <1>1, <1>2, <1>3, <1>4, FilesDrop
<1>5. CASE Stored' = {"iso"}
  <2>1. Contract!Store("iso")
    BY <1>1, <1>2, <1>3, <1>5 DEF Contract!Store, Phase, Stored, Machine
  <2> QED
    BY <2>1 DEF ContractStep, Contract!Next, Contract!Files
<1> QED
  BY <1>4, <1>5 DEF Stored

\* The answer to the creation is what makes the VM the build's; a creation that
\* is only submitted, or fails, is nothing the contract sees.
LEMMA CreateKeepsContract ==
  ASSUME IInv, CreateVM, IInv'
  PROVE  ContractStep
<1> USE DEF IInv, BuildInv
<1>1. Phase = "working" /\ Phase' = "working" /\ UNCHANGED <<signalled, warned>>
  BY CreateMoves DEF Phase, CleanupSteps
<1>2. Machine = "none"
  BY CreateMoves DEF Machine, AckInv, BeforeCreate, MainSteps, AfterCreate
<1>3. Stored = {"iso"} /\ Stored' = Stored
  <2>1. iso' = iso
    BY CreateMoves, OtherCallsKeepISO DEF Ops
  <2> QED
    BY <2>1, CreateMoves DEF Stored, ISOInv, AfterUpload
<1>4. CASE vmAcked'
  <2>1. pc' = "start" /\ ~awaiting'
    <3>1. ~vmAcked
      BY CreateMoves DEF AckInv, BeforeCreate, MainSteps, AfterCreate
    <3> QED
      BY <1>4, <3>1, CreateMoves, CallEffect DEF Ops
  <2>2. vm'.owner = "ours"
    BY <1>4, <2>1 DEF OwnershipInv, AckInv, InCleanup, CleanupSteps
  <2>3. ~Finished'
    <3>1. Before("start")'
      BY <2>1, <2>2 DEF ShapeInv, Ours, VMOps
    <3> QED
      BY <3>1 DEF Before, Installing, Finished
  <2>4. Machine' = "draft"
    BY <1>4, <2>2, <2>3 DEF Machine
  <2> QED
    BY <1>1, <1>2, <1>3, <2>4 DEF ContractStep, Contract!Next, Contract!Create, Phase,
                                  Stored, Machine
<1>5. CASE ~vmAcked'
  <2>1. Machine' = "none"
    BY <1>5 DEF Machine
  <2> QED
    BY <1>1, <1>2, <1>3, <2>1, FilesDrop
<1> QED
  BY <1>4, <1>5

\* A call of the build on its VM changes the VM when its task runs, not here.
LEMMA VMStepsKeepContract ==
  ASSUME IInv, NEW step \in VMOps \ {"create"}, VMStep(step, Wanted(step), NextOp(step))
  PROVE  ContractStep
<1> USE DEF IInv, BuildInv
<1>1. pc = step /\ step \in Ops /\ UNCHANGED <<cfg, signalled, warned, vmAcked>>
  BY VMStepMoves
<1>2. Phase' = Phase
  BY VMStepMoves DEF Phase, CleanupSteps, VMOps, NextOp, Submit
<1>3. Stored' = Stored
  <2>1. iso' = iso
    BY VMStepMoves, OtherCallsKeepISO DEF VMOps
  <2> QED
    BY <2>1, VMStepMoves DEF Stored
<1>4. Ours
  BY <1>1 DEF AckInv, AfterCreate, OwnershipInv, InCleanup, CleanupSteps, VMOps, Ours
<1>5. Ours' /\ (Finished => Finished')
  <2>1. CASE vm' = vm
    BY <1>1, <1>4, <2>1 DEF Ours, Finished
  <2>2. CASE vm' # vm
    <3>1. Wanted(step) /\ Calls(step) /\ Execute(step)
      BY <1>1, <2>2, VMStepMoves, OnlyExecutionChanges
    <3>2. ~awaiting
      BY <2>2, <3>1 DEF Calls, Submit, Succeeds, Fails, CallFails, WaitFails
    <3>3. Before(step)
      BY <1>1, <1>4, <3>2 DEF ShapeInv
    <3>4. Ours'
      BY <1>1, <1>4, <3>1, VMEffect DEF Ours, Execute, TypeOK, VMOps
    <3> QED
      BY <1>1, <3>1, <3>3, <3>4, FinishedKept DEF VMOps
  <2> QED
    BY <2>1, <2>2
<1> QED
  BY <1>1, <1>2, <1>3, <1>4, <1>5, MachineChanges

\* The end of a deletion is nothing the contract sees, or the end of the cleanup:
\* the file itself went when the task ran.
LEMMA DeletesKeepContract ==
  ASSUME IInv, DeleteActions, ISOInv'
  PROVE  ContractStep
<1> USE DEF IInv, BuildInv
<1>1. vm' = vm /\ UNCHANGED <<cfg, signalled, vmAcked, isoRecorded>>
  <2>1. Execute("deleteISO") => vm' = vm
    BY DEF Execute, VMAfter
  <2> QED
    BY <2>1, DeleteMoves, OnlyExecutionChanges DEF Ops
<1>2. Machine' = Machine
  BY <1>1 DEF Machine, Finished
<1>3. iso' => iso
  <2>1. Execute("deleteISO") => iso' = FALSE
    BY ISOEffect DEF Ops
  <2> QED
    BY <2>1, DeleteMoves, CallWithoutSuccess DEF Calls, Succeeds, Ops
<1>4. Stored' \in {Stored, {}} /\ Stored' \subseteq Stored
  BY <1>1, <1>3 DEF Stored
<1>5. CASE pc # "cDeleteISO"
  <2>1. Phase' = Phase /\ warned' = warned
    BY <1>5, DeleteMoves DEF Phase, CleanupSteps, Submit
  <2>2. CASE pc = "discardISO"
    <3>1. Machine = "none"
      BY <2>2 DEF Machine, AckInv, BeforeCreate, MainSteps, AfterCreate
    <3> QED
      BY <1>1, <1>2, <1>4, <2>1, <3>1, FilesDrop
  <2>3. CASE pc = "deleteISO"
    <3>1. Machine # "draft"
      BY <2>3 DEF Machine, ShapeInv, Ours
    <3> QED
      BY <1>1, <1>2, <1>4, <2>1, <3>1, FilesDrop
  <2> QED
    BY <1>5, <2>2, <2>3, DeleteMoves
<1>6. CASE pc = "cDeleteISO" /\ pc' # "cleaned"
  <2>1. /\ pc' = pc /\ signalled
        /\ warned' = warned
    <3>1. warned' = (warned \/ (pc' = "cleaned" /\ ISOToDelete /\ ~isoDeleted'))
      BY <1>6 DEF DeleteActions, DiscardTemporaryISO, DeleteInstallerISO, CleanupDeleteISO
    <3> QED
      BY <1>6, <3>1, DeleteMoves DEF Submit, TypeOK, PathInv, InCleanup, CleanupSteps
  <2>2. Phase' = Phase
    BY <1>6, <2>1 DEF Phase, CleanupSteps
  <2> QED
    BY <1>1, <1>2, <1>4, <2>1, <2>2, FilesDrop
<1>7. CASE pc = "cDeleteISO" /\ pc' = "cleaned"
  <2>1. Phase = "cleaning" /\ Phase' = "cleaned"
    BY <1>7 DEF Phase, CleanupSteps
  <2>2. warned' = (warned \/ (ISOToDelete /\ ~isoDeleted'))
    BY <1>7 DEF DeleteActions, DiscardTemporaryISO, DeleteInstallerISO, CleanupDeleteISO
  <2>3. warned' \in {warned, TRUE}
    BY <2>2 DEF TypeOK
  <2>4. warned' \/ Machine = "none"
    BY <1>7, <2>2 DEF Machine, AckInv
  <2>5. warned' \/ Stored' = {}
    <3>1. ~warned' => ~isoRecorded \/ isoDeleted \/ isoDeleted'
      BY <2>2 DEF ISOToDelete
    <3>2. isoDeleted => ~iso'
      BY <1>3 DEF ISOInv
    <3>3. isoDeleted' => ~iso'
      BY DEF ISOInv
    <3> QED
      BY <1>1, <3>1, <3>2, <3>3 DEF Stored
  <2> QED
    BY <1>1, <1>2, <1>4, <2>1, <2>3, <2>4, <2>5
       DEF ContractStep, Contract!Next, Contract!EndCleaning, Phase, Stored, Machine
<1> QED
  BY <1>5, <1>6, <1>7

\* The cleanup's calls submit or await; what they change, their tasks do.
LEMMA CleanupKeepsContract ==
  ASSUME IInv, CleanupCalls
  PROVE  ContractStep
<1> USE DEF IInv, BuildInv
<1>1. /\ Phase = "cleaning" /\ Phase' = "cleaning" /\ signalled
      /\ UNCHANGED <<cfg, signalled, vmAcked>>
  BY CleanupMoves DEF Phase, CleanupSteps, PathInv, InCleanup
<1>2. Stored' = Stored
  <2>1. iso' = iso
    BY CleanupMoves, OtherCallsKeepISO
  <2> QED
    BY <2>1, CleanupMoves DEF Stored
<1>3. ~Ours => ~Ours'
  BY CleanupMoves, OwnerEffect
<1>4. Finished /\ Ours' => Finished'
  <2>1. ShapesKept
    BY <1>1, CleanupMoves, CleanupKeepsShapes
  <2>2. Before("deleteISO") = Finished /\ Before("deleteISO")' = Finished'
    BY DEF Before
  <2> QED
    BY <2>1, <2>2 DEF ShapesKept, Shapes
<1>5. CASE warned' = warned
  BY <1>1, <1>2, <1>3, <1>4, <1>5, MachineChanges
<1>6. CASE Fails(OpOf(pc)) /\ warned'
  <2>1. vm' = vm
    BY <1>6, CleanupMoves, CallWithoutSuccess
  <2>2. Machine' = Machine
    BY <1>1, <2>1 DEF Machine, Finished
  <2>3. warned' = TRUE
    BY <1>6 DEF TypeOK, CleanupCalls, CleanupStopVM, CleanupDestroyVM
  <2> QED
    BY <1>1, <1>2, <2>2, <2>3 DEF ContractStep, Contract!Next, Contract!Warn,
       Contract!Ended, Phase, Stored, Machine
<1> QED
  BY <1>5, <1>6, CleanupMoves

\* A task that runs does to the VM and the files what one step of the contract
\* allows, also when the build no longer waits for it.
LEMMA TasksKeepContract ==
  ASSUME IInv, NEW op \in Ops, TaskRuns(op) \/ TaskFails(op)
  PROVE  ContractStep
<1> USE DEF IInv, BuildInv
<1>1. /\ UNCHANGED <<cfg, pc, completed, signalled, warned, vmAcked, isoRecorded>>
      /\ task[op] = "queued"
  BY TaskEffect DEF TaskRuns, TaskFails, builderOnly, buildState, history
<1>2. Phase' = Phase
  BY <1>1 DEF Phase
<1>3. CASE op \in {"upload", "deleteISO"}
  <2>1. vm' = vm
    <3>1. Execute(op) => vm' = vm
      BY <1>3 DEF Execute, VMAfter
    <3> QED
      BY <3>1, OnlyExecutionChanges
  <2>2. Machine' = Machine
    BY <1>1, <2>1 DEF Machine, Finished
  <2>3. CASE op = "upload"
    <3>1. Stored' = Stored
      BY <1>1, <2>3 DEF Stored, ISOInv
    <3> QED
      BY <1>1, <1>2, <2>2, <3>1, FilesDrop
  <2>4. CASE op = "deleteISO"
    <3>1. iso' => iso
      BY <2>4, TaskEffect, ISOEffect DEF Ops
    <3>2. signalled \/ Machine # "draft"
      BY <1>1, <2>4 DEF ShapeInv, Machine
    <3>3. Stored' \in {Stored, {}}
      BY <1>1, <3>1 DEF Stored
    <3> QED
      BY <1>1, <1>2, <2>2, <3>2, <3>3, FilesDrop
  <2> QED
    BY <1>3, <2>3, <2>4
<1>4. CASE op \notin {"upload", "deleteISO"}
  <2>1. Stored' = Stored
    <3>1. iso' = iso
      BY <1>4, TaskEffect, ISOEffect
    <3> QED
      BY <1>1, <3>1 DEF Stored
  <2>2. vmAcked => op # "create"
    BY <1>1 DEF AckInv
  <2>3. vmAcked /\ ~Ours => ~Ours'
    BY <2>2, OwnerEffect
  <2>4. vmAcked /\ Ours /\ ~Ours' => op = "destroy"
    <3>1. ASSUME Execute(op), vmAcked, Ours, op # "destroy" PROVE Ours'
      BY <2>2, <3>1, VMEffect DEF Execute, TypeOK, Ours
    <3> QED
      BY <3>1, OnlyExecutionChanges DEF Ours
  <2>5. op = "destroy" => signalled /\ Phase \in {"cleaning", "cleaned"}
    BY <1>1 DEF OwnershipInv, PathInv, InCleanup, CleanupSteps, Phase
  <2>6. Finished /\ Ours' => Finished'
    BY FinishedSurvivesTasks, VMConstants DEF Execute, VMAfter, Ours
  <2> QED
    BY <1>1, <1>2, <2>1, <2>3, <2>4, <2>5, <2>6, MachineChanges
<1> QED
  BY <1>3, <1>4

\* The guest that powers off, other tenants, the signal and the cleanup's timeout.
LEMMA OthersKeepContract ==
  ASSUME IInv, OtherActions
  PROVE  ContractStep
<1> USE DEF IInv, BuildInv
<1>1. UNCHANGED <<cfg, pc, completed, warned, vmAcked, isoRecorded, iso>>
  BY OthersMove
<1>2. Phase' = Phase /\ Stored' = Stored
  BY <1>1 DEF Phase, Stored
<1>3. CASE signalled' = signalled
  <2>1. (~Ours => ~Ours') /\ (Ours => Ours')
    BY OthersMove, VMConstants DEF Ours, TypeOK, VMs
  <2>2. Finished => Finished'
    <3>1. Finished => vm' = vm
      BY OthersMove DEF Finished, Ours
    <3> QED
      BY <1>1, <3>1 DEF Finished
  <2> QED
    BY <1>1, <1>2, <1>3, <2>1, <2>2, MachineChanges
<1>4. CASE signalled' # signalled
  <2>1. signalled' = TRUE /\ pc \notin Ended /\ vm' = vm
    BY <1>4, OthersMove DEF OtherActions, GuestPowersOff, ForeignCreate, Signal,
       CleanupExpires, vars, builderOnly
  <2>2. Machine' = Machine /\ Phase \notin Contract!Ended
    BY <1>1, <2>1 DEF Machine, Finished, Phase, Contract!Ended, Ended
  <2> QED
    BY <1>1, <1>2, <2>1, <2>2 DEF ContractStep, Contract!Next, Contract!Interrupt, Phase,
       Stored, Machine
<1> QED
  BY <1>3, <1>4

\* Every step of the build is a step of the contract or changes nothing it sees.
LEMMA StepKeepsContract ==
  ASSUME IInv, [Next]_vars
  PROVE  ContractStep
<1>1. IInv'
  BY TypeStep, OwnershipStep, BuildInvStep DEF IInv
<1>2. CASE VMStepActions
  BY <1>2, VMStepsKeepContract DEF VMStepActions
<1>3. CASE TaskActions
  BY <1>3, TasksKeepContract DEF TaskActions
<1>4. ISOInv'
  BY <1>1 DEF IInv, BuildInv
<1> QED
  BY <1>1, <1>2, <1>3, <1>4, ReadsKeepContract, UploadKeepsContract, CreateKeepsContract,
     DeletesKeepContract, CleanupKeepsContract, OthersKeepContract, NextInGroups

\* A Proxmox build takes only the steps that the contract of a remote build
\* allows: the safety part of ImplementsRemoteBuild.
THEOREM KeepsContract == Safety => Contract!Init /\ [][Contract!Next]_(Contract!vars)
<1>1. Init => Contract!Init
  BY VMConstants DEF Init, Contract!Init, CleanupSteps
<1>2. IInv /\ [Next]_vars => [Contract!Next]_(Contract!vars)
  BY StepKeepsContract DEF ContractStep
<1> QED
  BY <1>1, <1>2, BuildInvariant, PTL DEF Safety

-----------------------------------------------------------------------------
(* What the contract promises, of this build.                              *)

\* The steps of the contract keep what a user may rely on.
LEMMA ContractKeepsReliable ==
  ASSUME Contract!Reliable, [Contract!Next]_(Contract!vars)
  PROVE  Contract!Reliable'
<1> USE DEF Contract!Reliable, Contract!SuccessIsImage,
            Contract!QuietCleanupLeavesNothing, Contract!DraftKeepsInstaller,
            Contract!Ended
<1>1. ASSUME NEW file \in Contract!Files, Contract!Store(file)
      PROVE  Contract!Reliable'
  BY <1>1 DEF Contract!Store, Contract!Files
<1>2. ASSUME NEW file \in Contract!Files, Contract!Drop(file)
      PROVE  Contract!Reliable'
  BY <1>2 DEF Contract!Drop, Contract!Files
<1>3. CASE Contract!Create
  BY <1>3 DEF Contract!Create, Contract!Files
<1>4. CASE Contract!Complete
  BY <1>4 DEF Contract!Complete, Contract!Files
<1>5. CASE Contract!Destroy
  BY <1>5 DEF Contract!Destroy, Contract!Files
<1>6. CASE Contract!Warn \/ Contract!Interrupt
  BY <1>6 DEF Contract!Warn, Contract!Interrupt, Contract!Files
<1>7. CASE Contract!Succeed \/ Contract!Fail
  BY <1>7 DEF Contract!Succeed, Contract!Fail, Contract!Files
<1>8. CASE Contract!BeginCleaning \/ Contract!EndCleaning
  BY <1>8 DEF Contract!BeginCleaning, Contract!EndCleaning, Contract!Files
<1>9. CASE UNCHANGED Contract!vars
  BY <1>9 DEF Contract!vars, Contract!Files
<1> QED
  BY <1>1, <1>2, <1>3, <1>4, <1>5, <1>6, <1>7, <1>8, <1>9 DEF Contract!Next

\* What a user may rely on after every Proxmox build: its image after a success,
\* nothing after a cleanup without a warning, until an interrupt the installer
\* beside a machine that is not finished, and a machine that does not go away.
THEOREM ContractHolds ==
  Safety => /\ [](Contract!SuccessIsImage /\ Contract!QuietCleanupLeavesNothing
                    /\ Contract!DraftKeepsInstaller)
            /\ Contract!MachineKept
<1>1. Contract!Init => Contract!Reliable
  BY DEF Contract!Init, Contract!Reliable, Contract!SuccessIsImage,
         Contract!QuietCleanupLeavesNothing, Contract!DraftKeepsInstaller,
         Contract!Ended, Contract!Files
<1>2. Contract!Reliable /\ [Contract!Next]_(Contract!vars) => Contract!Reliable'
  BY ContractKeepsReliable
<1>3. Contract!Reliable => Contract!SuccessIsImage /\ Contract!QuietCleanupLeavesNothing
                             /\ Contract!DraftKeepsInstaller
  BY DEF Contract!Reliable
<1>4. [Contract!Next]_(Contract!vars) => [Contract!MachineStays]_(Contract!vars)
  BY DEF Contract!Next, Contract!MachineStays, Contract!Store, Contract!Drop,
         Contract!Create, Contract!Complete, Contract!Destroy, Contract!Warn,
         Contract!Interrupt, Contract!Succeed, Contract!Fail,
         Contract!BeginCleaning, Contract!EndCleaning
<1> QED
  BY <1>1, <1>2, <1>3, <1>4, KeepsContract, PTL DEF Contract!MachineKept

-----------------------------------------------------------------------------
(* The build with the goroutine that streams its console.                  *)

\* While the goroutine lives, nothing is in flight that could change the VM,
\* and the VM is the build's and still has its serial port.
StreamInv ==
  /\ stream \in Streaming \cup {"off"} /\ pending \in BOOLEAN
  /\ pending => stream # "off"
  /\ stream # "off" => /\ pc \in {"poll", "finalize", "return"} /\ ~awaiting
                       /\ Ours /\ vm.serial
                       /\ \A op \in Ops : task[op] = "idle"

\* A step of a build with its stream is a step of the build, or the stream's.
LEMMA ConsoleStepIsBuildStep ==
  [ConsoleNext]_consoleVars => [Next]_vars
  BY DEF ConsoleNext, consoleVars, BuilderSteps, Around, Stream, StreamAdvances, Receive,
         StreamFails, StreamReadsStatus, Reconnect, Flush, To, Next

\* The node, a signal and the end of the wait change nothing the stream needs.
LEMMA StreamSurvives ==
  ASSUME IInv, StreamInv, stream # "off", stream' = stream, pending' = pending,
         (ReadActions /\ pc = "poll") \/ TaskActions \/ OtherActions
  PROVE  StreamInv'
<1> USE DEF IInv, BuildInv, StreamInv
<1>1. CASE ReadActions /\ pc = "poll"
  BY <1>1, ReadsFrame DEF ReadFrame, ReadMoves, Ours
<1>2. CASE TaskActions
  <2>1. PICK op \in Ops : TaskRuns(op) \/ TaskFails(op)
    BY <1>2 DEF TaskActions
  <2> QED
    BY <2>1, TaskEffect
<1>3. CASE OtherActions
  <2>1. Ours' /\ vm'.serial
    BY <1>3, OthersMove DEF Ours, TypeOK, VMs
  <2> QED
    BY <1>3, <2>1, OthersMove
<1> QED
  BY <1>1, <1>2, <1>3

\* Every step of a build with its console keeps the stream's place in the build.
LEMMA StreamStep ==
  ASSUME IInv, IInv', StreamInv, [ConsoleNext]_consoleVars
  PROVE  StreamInv'
<1>1. CASE Stream
  <2>1. /\ UNCHANGED vars /\ stream # "off"
        /\ \/ stream' \in Streaming /\ pending' \in BOOLEAN
           \/ stream' = "off" /\ pending' = FALSE
    BY <1>1 DEF Stream, StreamAdvances, Receive, StreamFails, StreamReadsStatus,
                Reconnect, Flush, To, Streaming, Connected, StreamInv
  <2>2. "off" \notin Streaming
    BY DEF Streaming, Connected
  <2> QED
    BY <2>1, <2>2 DEF vars, StreamInv, Ours
<1>2. CASE BuilderSteps
  <2>1. CASE pc = "poll"
    <3>1. ReadActions
      BY <1>2, <2>1, VMStepsAreVMSteps DEF BuilderSteps, Builder, ReadActions,
         UploadTemporaryInstallerISO, CreateVM, VMStepActions, VMStep, VMOps,
         DiscardTemporaryISO, DeleteInstallerISO, CleanupStopVM, CleanupDestroyVM,
         CleanupDeleteISO
    <3>2. stream' = stream /\ pending' = pending
      BY <1>2, <2>1 DEF BuilderSteps
    <3>3. CASE stream = "off"
      BY <3>2, <3>3 DEF StreamInv
    <3> QED
      BY <2>1, <3>1, <3>2, <3>3, StreamSurvives
  <2>2. CASE pc # "poll"
    <3>1. stream = "off" /\ ~pending /\ pending' = pending
      BY <1>2, <2>2 DEF BuilderSteps, StreamWaited, StreamInv
    <3>2. CASE pc' # "poll"
      BY <1>2, <3>1, <3>2 DEF BuilderSteps, StreamInv
    <3>3. CASE pc' = "poll"
      <4> USE DEF IInv, BuildInv
      <4>1. ~awaiting'
        BY <3>3 DEF AwaitInv, CallSteps, VMOps
      <4>2. \A op \in Ops : task'[op] = "idle"
        BY <3>3, <4>1 DEF PathInv, PathSteps, MainSteps
      <4>3. Ours'
        BY <3>3 DEF AckInv, AfterCreate, OwnershipInv, InCleanup, CleanupSteps, Ours
      <4>4. vm'.serial
        BY <3>3, <4>3 DEF ShapeInv, Before, Installing
      <4>5. stream' = "proxy"
        BY <1>2, <2>2, <3>3 DEF BuilderSteps
      <4> QED
        BY <3>1, <3>3, <4>1, <4>2, <4>3, <4>4, <4>5 DEF StreamInv, Streaming
    <3> QED
      BY <3>2, <3>3
  <2> QED
    BY <2>1, <2>2
<1>3. CASE Around \/ UNCHANGED consoleVars
  <2>1. TaskActions \/ OtherActions
    BY <1>3 DEF Around, Node, TaskActions, OtherActions, consoleVars
  <2>2. stream' = stream /\ pending' = pending
    BY <1>3 DEF Around, consoleVars
  <2>3. CASE stream = "off"
    BY <2>2, <2>3 DEF StreamInv
  <2> QED
    BY <2>1, <2>2, <2>3, StreamSurvives
<1> QED
  BY <1>1, <1>2, <1>3 DEF ConsoleNext

\* The stream adds nothing to what a build may do, so every theorem about
\* Safety is one about the build with its console.
THEOREM ConsoleBuildIsBuild == ConsoleSpec => Safety
<1>1. ConsoleInit => Init
  BY DEF ConsoleInit
<1> QED
  BY <1>1, ConsoleStepIsBuildStep, PTL DEF ConsoleSpec, Safety

\* The console stream is over, its connection closed and its last line out,
\* before the build takes the serial port from the VM or gives the VM up.
THEOREM StreamOver == ConsoleSpec => []StreamOverBeforeVMChanges
<1>1. ConsoleInit => StreamInv
  BY DEF ConsoleInit, StreamInv
<1>2. IInv /\ IInv' /\ StreamInv /\ [ConsoleNext]_consoleVars => StreamInv'
  BY StreamStep
<1>3. StreamInv => StreamOverBeforeVMChanges
  <2>1. "off" \notin Streaming /\ Connected \subseteq Streaming
    BY DEF Streaming, Connected
  <2> QED
    BY <2>1 DEF StreamInv, StreamOverBeforeVMChanges, Ours
<1> QED
  BY <1>1, <1>2, <1>3, ConsoleBuildIsBuild, BuildInvariant, PTL DEF ConsoleSpec

\* What the run of the build with its console checks, for that specification.
THEOREM ConsoleBuildIsCorrect ==
  ConsoleSpec => /\ []TypeOK /\ []SuccessMeansFinishedImage
                 /\ ForeignVMUntouched /\ TemplateIsFinal
                 /\ Contract!Init /\ [][Contract!Next]_(Contract!vars)
<1>1. IInv => TypeOK
  BY DEF IInv
<1>2. IInv /\ [Next]_vars => [vm.owner = "foreign" => vm' = vm]_vars
  BY ForeignStep DEF IInv
<1>3. Safety => ForeignVMUntouched
  BY <1>2, BuildInvariant, PTL DEF Safety, ForeignVMUntouched
<1> QED
  BY <1>1, <1>3, ConsoleBuildIsBuild, BuildInvariant, SuccessIsFinished,
     ConversionIsLast, KeepsContract, PTL

=============================================================================
