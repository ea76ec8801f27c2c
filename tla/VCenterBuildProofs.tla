------------------------- MODULE VCenterBuildProofs -------------------------
(***************************************************************************)
(* TLAPS proofs about VCenterBuild: its types, what a failed build leaves  *)
(* to its user, whose VM its cleanup may touch, when the VM becomes a      *)
(* template, and that every step of the build is a step of the contract of *)
(* a remote build, RemoteBuild.                                            *)
(*                                                                         *)
(* The remote state changes only when a task runs, maybe long after the    *)
(* build gave up on it.  The strengthening therefore says which tasks can  *)
(* be in flight (PathInv), which VM the build's reference means            *)
(* (HandleInv, LostInv), where its files are (FileInv), what its VM looks  *)
(* like to the task that runs next (ShapeInv), when it is finished         *)
(* (DoneInv), and what there is to debug a failure with (DebugInv).        *)
(***************************************************************************)
EXTENDS VCenterBuild, TLAPS

InCleanup == pc \in CleanupSteps \cup {"cLogout", "cleaned"}

\* The steps of a build that has not failed, before and after the upload and
\* the answer to createVM; the cleanup once it is done with the VM.
PathSteps == MainSteps \ {"discardISO"}
BeforeUpload == {"connect", "localISO", "upload", "uploadHost"}
AfterCreate == {"powerOn", "waitOff", "finalize", "verify", "hardware",
                "template", "deleteISO", "deleteLog"}
BeforeCreate == MainSteps \ AfterCreate
AfterUpload == AfterCreate \cup {"create"}
VMDone == {"cDeleteISO", "cDeleteLog", "cLogout", "cleaned"}

VMOps == {"create", "powerOn", "finalize", "hardware", "template"}

CallSteps == VMOps \cup {"discardISO", "deleteISO", "deleteLog", "cPowerOff",
                         "cDestroy", "cDeleteISO", "cDeleteLog"}

Mine == vm.owner = "ours"

\* A task whose end is known is the one the builder waits for.
AwaitInv ==
  /\ awaiting => pc \in CallSteps /\ task[OpOf(pc)] # "idle"
  /\ \A op \in Ops : task[op] \in {"ok", "failed", "missing"} =>
                       awaiting /\ op = OpOf(pc)

\* A build that has not failed has no task but the one it waits for; the VM
\* never has more than one of its operations in flight.
PathInv ==
  /\ pc \in PathSteps \/ completed =>
       \A op \in Ops : task[op] # "idle" => awaiting /\ op = OpOf(pc)
  /\ completed => pc \in {"announce", "return", "logout", "ended"}
  /\ InCleanup => signalled /\ ~completed
  /\ ~InCleanup => task["powerOff"] = "idle" /\ task["destroy"] = "idle"
  /\ \A op1, op2 \in VMOps :
       task[op1] # "idle" /\ task[op2] # "idle" => op1 = op2

\* The build's reference is the VM that createVM returned; only a cleanup
\* without one takes another.
HandleInv ==
  /\ handle = "foreign" => InCleanup /\ ~vmAcked
  /\ ~InCleanup => (handle = "ours" <=> vmAcked) /\ (vmAcked => Mine)
  /\ pc = "cFind" => handle = "none" /\ ~vmAcked
  /\ pc \in VMDone /\ ~warned => handle = "none"
  /\ vmAcked /\ handle = "none" => ~Mine
  /\ vmAcked /\ task["destroy"] = "ok" => ~Mine
  /\ vmAcked => task["create"] = "idle"
  /\ task["create"] = "ok" => Mine
  /\ pc \in AfterCreate \/ completed => vmAcked
  /\ pc \in BeforeCreate => ~vmAcked
  /\ \A op \in VMOps \ {"create"} : task[op] # "idle" => vmAcked

\* A VM of the build that createVM did not return is one whose answer is on
\* its way or was lost.
LostInv ==
  /\ Mine => vmAcked \/ createLost \/ (pc = "create" /\ task["create"] = "ok")
  /\ task["create"] = "queued" => createLost \/ (pc = "create" /\ awaiting)
  /\ pc \in PathSteps => ~createLost

\* The installer ISO is where the flags say it is.
ISOInv ==
  /\ isoDeleted => recorded /\ ~iso
  /\ task["deleteISO"] \in {"ok", "missing"} => ~iso
  /\ task["deleteISO"] # "idle" => recorded
  /\ pc \in BeforeUpload => ~recorded
  /\ pc \in AfterUpload => recorded /\ (pc \notin {"deleteISO", "deleteLog"} => iso)
  /\ pc = "discardISO" => recorded
  /\ vmAcked => recorded
  /\ pc = "deleteLog" \/ completed => isoDeleted
  /\ awaiting /\ pc = "cDeleteISO" => ISOToDelete
  /\ pc \in {"cDeleteLog", "cLogout", "cleaned"} /\ ~warned /\ recorded => ~iso

\* So is the console log.
LogToDelete == recorded /\ ~logDeleted
LogInv ==
  /\ ~recorded => ~log
  /\ logDeleted => completed \/ pc \in {"cLogout", "cleaned"}
  /\ completed => ~log
  /\ pc = "deleteLog" /\ task["deleteLog"] = "ok" => ~log
  /\ handle = "none" /\ task["deleteLog"] \in {"ok", "missing"} => ~log
  /\ awaiting /\ pc = "cDeleteLog" => LogToDelete

FileInv == ISOInv /\ LogInv

\* The build's VM before each operation of the build runs.
Installing == vm.installer /\ vm.serial /\ ~vm.template
Bare == /\ vm.booted /\ ~vm.on /\ ~vm.template
        /\ ~vm.installer /\ ~vm.serial /\ vm.diskBoot
Before(op) ==
  CASE op = "create" -> TRUE
    [] op = "powerOn" -> Installing
    [] op = "waitOff" -> Installing /\ vm.booted
    [] op = "finalize" -> Installing /\ vm.booted /\ ~vm.on
    [] op \in {"verify", "hardware"} -> Bare
    [] op = "template" -> Bare /\ vm.sized
    [] OTHER -> Finished

NextOp(op) ==
  CASE op = "create" -> "powerOn"
    [] op = "powerOn" -> "waitOff"
    [] op = "waitOff" -> "finalize"
    [] op = "finalize" -> "verify"
    [] op = "verify" -> "hardware"
    [] op = "hardware" -> AfterHardware
    [] OTHER -> "deleteISO"

\* What a task in flight will meet, and what one that ended OK has left.
ShapeInv ==
  /\ \A op \in VMOps :
       /\ task[op] = "queued" /\ Mine => Before(op)
       /\ task[op] = "ok" /\ Mine => Before(NextOp(op))
  /\ \A op \in AfterCreate : pc = op /\ ~awaiting /\ Mine => Before(op)

\* Only a finished VM loses the files it was built from, unless the build
\* was interrupted.
DoneInv ==
  /\ pc \in {"deleteISO", "deleteLog"} => Finished
  /\ completed => Finished
  /\ task["deleteISO"] # "idle" /\ ~signalled => ~vmAcked \/ Finished
  /\ task["deleteLog"] # "idle" /\ ~signalled => Finished
  /\ pc = "template" \/ task["template"] # "idle" => template

\* The VM has what its user needs to debug it.
DebugInv ==
  /\ vm.installer \/ vm.serial => Mine
  /\ ~signalled /\ ~createLost => /\ vm.installer => iso
                                  /\ vm.serial /\ vm.booted => log

BuildInv == /\ AwaitInv /\ PathInv /\ HandleInv /\ LostInv /\ FileInv
            /\ ShapeInv /\ DoneInv /\ DebugInv

-----------------------------------------------------------------------------
(* The operations.                                                         *)

\* What the three VMs that vCenter can create from nothing look like.
LEMMA VMConstants ==
  /\ NoVM \in VMs /\ FreshVM \in VMs /\ ForeignVM \in VMs
  /\ NoVM.owner = "none" /\ ~NoVM.installer /\ ~NoVM.serial /\ ~NoVM.template
  /\ FreshVM.owner = "ours" /\ FreshVM.installer /\ FreshVM.serial
  /\ ~FreshVM.booted /\ ~FreshVM.template
  /\ ForeignVM.owner = "foreign" /\ ~ForeignVM.installer /\ ~ForeignVM.serial
  /\ ~ForeignVM.template
<1>1. NoVM \in VMs /\ FreshVM \in VMs /\ ForeignVM \in VMs
  BY DEF NoVM, FreshVM, ForeignVM, VMs, Owners
<1>2. NoVM.owner = "none" /\ ~NoVM.installer /\ ~NoVM.serial /\ ~NoVM.template
  BY DEF NoVM
<1>3. /\ FreshVM.owner = "ours" /\ FreshVM.installer /\ FreshVM.serial
      /\ ~FreshVM.booted /\ ~FreshVM.template
  BY DEF FreshVM, NoVM
<1>4. /\ ForeignVM.owner = "foreign" /\ ~ForeignVM.installer /\ ~ForeignVM.serial
      /\ ~ForeignVM.template
  BY DEF ForeignVM, NoVM
<1> QED
  BY <1>1, <1>2, <1>3, <1>4

\* What a task does to a VM that it does not create or destroy.
LEMMA VMEffect ==
  ASSUME vm \in VMs, NEW op \in Ops \ {"create", "destroy"}
  PROVE  /\ VMAfter(op) \in VMs
         /\ VMAfter(op).owner = vm.owner
         /\ VMAfter(op).on <=> op = "powerOn" \/ (op # "powerOff" /\ vm.on)
         /\ VMAfter(op).booted <=> op = "powerOn" \/ vm.booted
         /\ VMAfter(op).installer <=> op # "finalize" /\ vm.installer
         /\ VMAfter(op).serial <=> op # "finalize" /\ vm.serial
         /\ VMAfter(op).diskBoot <=> op = "finalize" \/ vm.diskBoot
         /\ VMAfter(op).sized <=> op = "hardware" \/ vm.sized
         /\ VMAfter(op).template <=> op = "template" \/ vm.template
<1> USE DEF VMAfter, VMs
<1>1. CASE op = "powerOn"
  BY <1>1
<1>2. CASE op = "finalize"
  BY <1>2
<1>3. CASE op = "hardware"
  BY <1>3
<1>4. CASE op = "template"
  BY <1>4
<1>5. CASE op = "powerOff"
  BY <1>5
<1>6. CASE op \in {"deleteISO", "deleteLog"}
  BY <1>6
<1> QED
  BY <1>1, <1>2, <1>3, <1>4, <1>5, <1>6 DEF Ops

\* Executing an operation keeps the types of what it changes.
LEMMA ExecuteTypes ==
  ASSUME TypeOK, NEW op \in Ops, Execute(op)
  PROVE  vm' \in VMs /\ iso' \in BOOLEAN /\ log' \in BOOLEAN
<1>1. VMAfter(op) \in VMs
  <2>1. CASE op \in {"create", "destroy"}
    BY <2>1, VMConstants DEF VMAfter
  <2> QED
    BY <2>1, VMEffect DEF TypeOK
<1>2. iso' \in BOOLEAN /\ log' \in BOOLEAN
  BY DEF Execute
<1> QED
  BY <1>1, <1>2 DEF Execute

\* The outcomes of a call, those that only the cleanup accepts included.
Calls(op) == Submit(op) \/ WaitEnds(op, {"ok", "missing"}) \/ Fails(op)

\* A wait that ends in success is one of them.
LEMMA SuccessIsWait == \A op : Succeeds(op) => WaitEnds(op, {"ok", "missing"})
  BY DEF Succeeds, WaitEnds

TaskStates == {"idle", "queued", "ok", "failed", "missing"}

\* A call changes nothing but what is known of its task.
LEMMA CallFrame ==
  ASSUME TypeOK, NEW op \in Ops, Calls(op)
  PROVE  /\ UNCHANGED <<vm, iso, log>>
         /\ task' \in [Ops -> TaskStates] /\ awaiting' \in BOOLEAN
<1> USE DEF TypeOK, TaskStates
<1>1. CASE Submit(op)
  BY <1>1 DEF Submit
<1>2. CASE WaitEnds(op, {"ok", "missing"})
  BY <1>2 DEF WaitEnds
<1>3. CASE Fails(op)
  BY <1>3 DEF Fails
<1> QED
  BY <1>1, <1>2, <1>3 DEF Calls

\* What a call does to the tasks.
LEMMA CallEffect ==
  ASSUME TypeOK, AwaitInv, NEW op \in Ops, op = OpOf(pc), Calls(op)
  PROVE  /\ \A o \in Ops : o # op => task'[o] = task[o]
         /\ task'[op] \in {"idle", "queued"}
         /\ task'[op] = "queued" => ~awaiting \/ task[op] = "queued"
         /\ Submit(op) => awaiting' /\ pc' = pc /\ task'[op] = "queued"
         /\ ~Submit(op) => ~awaiting'
         /\ WaitEnds(op, {"ok", "missing"}) =>
              ~awaiting' /\ awaiting /\ task[op] \in {"ok", "missing"} /\ task'[op] = "idle"
         /\ Fails(op) => ~awaiting'
<1> USE DEF TypeOK, AwaitInv
<1>1. CASE Submit(op)
  BY <1>1 DEF Submit, WaitEnds, Fails
<1>2. CASE WaitEnds(op, {"ok", "missing"})
  BY <1>2 DEF Submit, WaitEnds, Fails
<1>3. CASE Fails(op)
  BY <1>3 DEF Submit, WaitEnds, Fails
<1> QED
  BY <1>1, <1>2, <1>3 DEF Calls

\* A call of the builder is the one whose task it waits for.
LEMMA CallKeepsAwait ==
  ASSUME TypeOK, AwaitInv, NEW op \in Ops, op = OpOf(pc), pc \in CallSteps, Calls(op)
  PROVE  AwaitInv'
<1>1. CASE Submit(op)
  BY <1>1, CallEffect DEF AwaitInv, TypeOK
<1>2. CASE ~Submit(op)
  BY <1>2, CallEffect DEF AwaitInv, TypeOK
<1> QED
  BY <1>1, <1>2

\* What the end of a task does to the tasks.
LEMMA TaskEffect ==
  ASSUME TypeOK, NEW op \in Ops, TaskRuns(op) \/ TaskFails(op)
  PROVE  /\ task[op] = "queued"
         /\ \A o \in Ops : o # op => task'[o] = task[o]
         /\ awaiting /\ op = OpOf(pc) => task'[op] \in {"ok", "failed", "missing"}
         /\ ~(awaiting /\ op = OpOf(pc)) => task'[op] = "idle"
         /\ \/ Execute(op) /\ task'[op] \in {"ok", "idle"}
            \/ /\ task'[op] \in {"failed", "missing", "idle"}
               /\ vm' = vm /\ iso' = iso /\ log' = log
               /\ task'[op] = "missing" => \/ op = "deleteISO" /\ ~iso
                                           \/ op = "deleteLog" /\ ~log
         /\ UNCHANGED <<template, pc, awaiting, handle, vmCreated, recorded, isoDeleted,
                        logDeleted, completed, signalled, warned, vmAcked, createLost>>
<1> USE DEF TypeOK, Exits, builderOnly, flags, history
<1>1. CASE TaskRuns(op)
  BY <1>1 DEF TaskRuns
<1>2. CASE TaskFails(op)
  BY <1>2 DEF TaskFails
<1> QED
  BY <1>1, <1>2

-----------------------------------------------------------------------------
(* Types.                                                                  *)

\* The variables of the builder that are flags.
FlagsTypeOK ==
  /\ template \in BOOLEAN /\ handle \in Owners
  /\ vmCreated \in BOOLEAN /\ recorded \in BOOLEAN
  /\ isoDeleted \in BOOLEAN /\ logDeleted \in BOOLEAN
  /\ completed \in BOOLEAN /\ tempDir \in BOOLEAN
  /\ signalled \in BOOLEAN /\ expired \in BOOLEAN
  /\ announced \in BOOLEAN /\ warned \in BOOLEAN
  /\ vmAcked \in BOOLEAN /\ createLost \in BOOLEAN

RemoteTypeOK ==
  /\ vm \in VMs /\ iso \in BOOLEAN /\ log \in BOOLEAN
  /\ task \in [Ops -> TaskStates] /\ awaiting \in BOOLEAN

\* A call keeps the types of everything remote.
LEMMA CallTypes ==
  ASSUME TypeOK, NEW op \in Ops, Calls(op) \/ Succeeds(op)
  PROVE  RemoteTypeOK'
  BY CallFrame, SuccessIsWait DEF RemoteTypeOK, TypeOK, Calls

\* So does a step that changes nothing remote.
LEMMA SameRemoteTypes ==
  ASSUME TypeOK, UNCHANGED <<remote, awaiting>>
  PROVE  RemoteTypeOK'
  BY DEF TypeOK, RemoteTypeOK, TaskStates, remote

\* A build starts with its types.
LEMMA TypeInit == Init => TypeOK
<1>1. Init => vm \in VMs
  BY VMConstants DEF Init
<1> QED
  BY <1>1 DEF Init, TypeOK, Steps, MainSteps, Owners

\* The steps of the builder keep them.
LEMMA BuilderTypes ==
  ASSUME TypeOK, Builder
  PROVE  TypeOK'
<1>0. SUFFICES RemoteTypeOK' /\ FlagsTypeOK' /\ pc' \in Steps
  BY DEF TypeOK, RemoteTypeOK, FlagsTypeOK, TaskStates
<1> USE DEF TypeOK, Quiet, flags, history, Steps, MainSteps, CleanupSteps, LogoutSteps, Ended
<1>1. CASE ConnectAndResolvePlacement
  <2>1. RemoteTypeOK'
    BY <1>1, SameRemoteTypes DEF ConnectAndResolvePlacement, Reads, remote
  <2>2. FlagsTypeOK'
    BY <1>1 DEF ConnectAndResolvePlacement, Reads, FlagsTypeOK
  <2>3. pc' \in Steps
    BY <1>1 DEF ConnectAndResolvePlacement, Reads
  <2> QED
    BY <2>1, <2>2, <2>3
<1>2. CASE CreateInstallerISO
  <2>1. RemoteTypeOK'
    BY <1>2, SameRemoteTypes DEF CreateInstallerISO, Reads, remote
  <2>2. FlagsTypeOK'
    BY <1>2 DEF CreateInstallerISO, Reads, FlagsTypeOK
  <2>3. pc' \in Steps
    BY <1>2 DEF CreateInstallerISO, Reads
  <2> QED
    BY <2>1, <2>2, <2>3
<1>3. CASE ReadPoweredOff
  <2>1. RemoteTypeOK'
    BY <1>3, SameRemoteTypes DEF ReadPoweredOff, Reads, remote
  <2>2. FlagsTypeOK'
    BY <1>3 DEF ReadPoweredOff, Reads, FlagsTypeOK
  <2>3. pc' \in Steps
    BY <1>3 DEF ReadPoweredOff, Reads
  <2> QED
    BY <2>1, <2>2, <2>3
<1>4. CASE VerifyPostInstallDevices
  <2>1. RemoteTypeOK'
    BY <1>4, SameRemoteTypes DEF VerifyPostInstallDevices, Reads, remote
  <2>2. FlagsTypeOK'
    BY <1>4 DEF VerifyPostInstallDevices, Reads, FlagsTypeOK
  <2>3. pc' \in Steps
    BY <1>4 DEF VerifyPostInstallDevices, Reads
  <2> QED
    BY <2>1, <2>2, <2>3
<1>5. CASE Announce
  <2>1. RemoteTypeOK'
    BY <1>5, SameRemoteTypes DEF Announce, remote
  <2>2. FlagsTypeOK'
    BY <1>5 DEF Announce, FlagsTypeOK
  <2>3. pc' \in Steps
    BY <1>5 DEF Announce
  <2> QED
    BY <2>1, <2>2, <2>3
<1>6. CASE Return
  <2>1. RemoteTypeOK'
    BY <1>6, SameRemoteTypes DEF Return, remote
  <2>2. FlagsTypeOK'
    <3>1. UNCHANGED <<template, handle, vmCreated, recorded, isoDeleted, logDeleted, completed,
                      tempDir, signalled, expired, announced, warned, vmAcked, createLost>>
      BY <1>6 DEF Return
    <3> QED
      BY <3>1 DEF FlagsTypeOK
  <2>3. pc' \in Steps
    BY <1>6 DEF Return
  <2> QED
    BY <2>1, <2>2, <2>3
<1>7. CASE CleanupFindVM
  <2>1. RemoteTypeOK'
    BY <1>7, SameRemoteTypes DEF CleanupFindVM, remote
  <2>2. FlagsTypeOK'
    <3>1. handle' \in Owners /\ warned' \in BOOLEAN
      BY <1>7 DEF CleanupFindVM, Owners, VMs
    <3>2. UNCHANGED <<template, vmCreated, recorded, isoDeleted, logDeleted, completed, tempDir,
                      signalled, expired, announced, vmAcked, createLost>>
      BY <1>7 DEF CleanupFindVM
    <3> QED
      BY <3>1, <3>2 DEF FlagsTypeOK
  <2>3. pc' \in Steps
    BY <1>7 DEF CleanupFindVM
  <2> QED
    BY <2>1, <2>2, <2>3
<1>8. CASE CleanupReadPower
  <2>1. RemoteTypeOK'
    BY <1>8, SameRemoteTypes DEF CleanupReadPower, remote
  <2>2. FlagsTypeOK'
    <3>1. warned' \in BOOLEAN
      BY <1>8 DEF CleanupReadPower
    <3>2. UNCHANGED <<template, handle, vmCreated, recorded, isoDeleted, logDeleted, completed,
                      tempDir, signalled, expired, announced, vmAcked, createLost>>
      BY <1>8 DEF CleanupReadPower
    <3> QED
      BY <3>1, <3>2 DEF FlagsTypeOK
  <2>3. pc' \in Steps
    BY <1>8 DEF CleanupReadPower
  <2> QED
    BY <2>1, <2>2, <2>3
<1>9. CASE UploadInstallerISO("upload", "uploadHost") \/ UploadInstallerISO("uploadHost", "return")
  <2>1. RemoteTypeOK'
    BY <1>9 DEF UploadInstallerISO, RemoteTypeOK, TaskStates
  <2>2. FlagsTypeOK'
    <3>1. recorded' \in BOOLEAN
      BY <1>9 DEF UploadInstallerISO
    <3>2. UNCHANGED <<template, handle, vmCreated, isoDeleted, logDeleted, completed, tempDir,
                      signalled, expired, announced, warned, vmAcked, createLost>>
      BY <1>9 DEF UploadInstallerISO
    <3> QED
      BY <3>1, <3>2 DEF FlagsTypeOK
  <2>3. pc' \in Steps
    BY <1>9 DEF UploadInstallerISO
  <2> QED
    BY <2>1, <2>2, <2>3
<1>10. CASE CreateVM
  <2>1. RemoteTypeOK'
    BY <1>10, CallTypes, SameRemoteTypes DEF CreateVM, Calls, Ops
  <2>2. FlagsTypeOK'
    <3>1. handle' \in Owners /\ vmCreated' \in BOOLEAN /\ vmAcked' \in BOOLEAN /\ createLost' \in BOOLEAN
      BY <1>10 DEF CreateVM, Owners
    <3>2. UNCHANGED <<template, recorded, isoDeleted, logDeleted, completed, tempDir, signalled,
                      expired, announced, warned>>
      BY <1>10 DEF CreateVM
    <3> QED
      BY <3>1, <3>2 DEF FlagsTypeOK
  <2>3. pc' \in Steps
    BY <1>10 DEF CreateVM, Submit
  <2> QED
    BY <2>1, <2>2, <2>3
<1>11. CASE DiscardISO
  <2>1. RemoteTypeOK'
    BY <1>11, CallTypes, SameRemoteTypes DEF DiscardISO, Calls, Ops
  <2>2. FlagsTypeOK'
    <3>1. isoDeleted' \in BOOLEAN /\ warned' \in BOOLEAN
      BY <1>11 DEF DiscardISO
    <3>2. UNCHANGED <<template, handle, vmCreated, recorded, logDeleted, completed, tempDir,
                      signalled, expired, announced, vmAcked, createLost>>
      BY <1>11 DEF DiscardISO
    <3> QED
      BY <3>1, <3>2 DEF FlagsTypeOK
  <2>3. pc' \in Steps
    BY <1>11 DEF DiscardISO, Submit
  <2> QED
    BY <2>1, <2>2, <2>3
<1>12. CASE PowerOn
  <2>1. RemoteTypeOK'
    BY <1>12, CallTypes, SameRemoteTypes DEF PowerOn, VMStep, Calls, Ops
  <2>2. FlagsTypeOK'
    BY <1>12 DEF PowerOn, VMStep, FlagsTypeOK, Owners
  <2>3. pc' \in Steps
    BY <1>12 DEF PowerOn, VMStep, Submit
  <2> QED
    BY <2>1, <2>2, <2>3
<1>13. CASE FinalizePostInstallDevices
  <2>1. RemoteTypeOK'
    BY <1>13, CallTypes, SameRemoteTypes DEF FinalizePostInstallDevices, VMStep, Calls, Ops
  <2>2. FlagsTypeOK'
    BY <1>13 DEF FinalizePostInstallDevices, VMStep, FlagsTypeOK, Owners
  <2>3. pc' \in Steps
    BY <1>13 DEF FinalizePostInstallDevices, VMStep, Submit
  <2> QED
    BY <2>1, <2>2, <2>3
<1>14. CASE ApplyFinalHardware
  <2>1. RemoteTypeOK'
    BY <1>14, CallTypes, SameRemoteTypes DEF ApplyFinalHardware, VMStep, AfterHardware,
       Calls, Ops
  <2>2. FlagsTypeOK'
    BY <1>14 DEF ApplyFinalHardware, VMStep, AfterHardware, FlagsTypeOK, Owners
  <2>3. pc' \in Steps
    BY <1>14 DEF ApplyFinalHardware, VMStep, AfterHardware, Submit
  <2> QED
    BY <2>1, <2>2, <2>3
<1>15. CASE MaybeMarkAsTemplate
  <2>1. RemoteTypeOK'
    BY <1>15, CallTypes, SameRemoteTypes DEF MaybeMarkAsTemplate, VMStep, Calls, Ops
  <2>2. FlagsTypeOK'
    BY <1>15 DEF MaybeMarkAsTemplate, VMStep, FlagsTypeOK, Owners
  <2>3. pc' \in Steps
    BY <1>15 DEF MaybeMarkAsTemplate, VMStep, Submit
  <2> QED
    BY <2>1, <2>2, <2>3
<1>16. CASE DeleteDatastoreISO
  <2>1. RemoteTypeOK'
    BY <1>16, CallTypes, SameRemoteTypes DEF DeleteDatastoreISO, Calls, Ops
  <2>2. FlagsTypeOK'
    <3>1. isoDeleted' \in BOOLEAN
      BY <1>16 DEF DeleteDatastoreISO
    <3>2. UNCHANGED <<template, handle, vmCreated, recorded, logDeleted, completed, tempDir,
                      signalled, expired, announced, warned, vmAcked, createLost>>
      BY <1>16 DEF DeleteDatastoreISO
    <3> QED
      BY <3>1, <3>2 DEF FlagsTypeOK
  <2>3. pc' \in Steps
    BY <1>16 DEF DeleteDatastoreISO, Submit
  <2> QED
    BY <2>1, <2>2, <2>3
<1>17. CASE DeleteDatastoreConsoleLog
  <2>1. RemoteTypeOK'
    BY <1>17, CallTypes, SameRemoteTypes DEF DeleteDatastoreConsoleLog, Calls, Ops
  <2>2. FlagsTypeOK'
    <3>1. logDeleted' \in BOOLEAN /\ completed' \in BOOLEAN
      BY <1>17 DEF DeleteDatastoreConsoleLog
    <3>2. UNCHANGED <<template, handle, vmCreated, recorded, isoDeleted, tempDir, signalled,
                      expired, announced, warned, vmAcked, createLost>>
      BY <1>17 DEF DeleteDatastoreConsoleLog
    <3> QED
      BY <3>1, <3>2 DEF FlagsTypeOK
  <2>3. pc' \in Steps
    BY <1>17 DEF DeleteDatastoreConsoleLog, Submit
  <2> QED
    BY <2>1, <2>2, <2>3
<1>18. CASE CleanupPowerOff
  <2>1. RemoteTypeOK'
    BY <1>18, CallTypes, SameRemoteTypes DEF CleanupPowerOff, Calls, Ops
  <2>2. FlagsTypeOK'
    <3>1. warned' \in BOOLEAN
      BY <1>18 DEF CleanupPowerOff
    <3>2. UNCHANGED <<template, handle, vmCreated, recorded, isoDeleted, logDeleted, completed,
                      tempDir, signalled, expired, announced, vmAcked, createLost>>
      BY <1>18 DEF CleanupPowerOff
    <3> QED
      BY <3>1, <3>2 DEF FlagsTypeOK
  <2>3. pc' \in Steps
    BY <1>18 DEF CleanupPowerOff, Submit
  <2> QED
    BY <2>1, <2>2, <2>3
<1>19. CASE CleanupDestroyVM
  <2>1. RemoteTypeOK'
    BY <1>19, CallTypes, SameRemoteTypes DEF CleanupDestroyVM, Calls, Ops
  <2>2. FlagsTypeOK'
    <3>1. handle' \in Owners /\ vmCreated' \in BOOLEAN /\ warned' \in BOOLEAN
      BY <1>19 DEF CleanupDestroyVM, Owners
    <3>2. UNCHANGED <<template, recorded, isoDeleted, logDeleted, completed, tempDir, signalled,
                      expired, announced, vmAcked, createLost>>
      BY <1>19 DEF CleanupDestroyVM
    <3> QED
      BY <3>1, <3>2 DEF FlagsTypeOK
  <2>3. pc' \in Steps
    BY <1>19 DEF CleanupDestroyVM, Submit
  <2> QED
    BY <2>1, <2>2, <2>3
<1>20. CASE CleanupDeleteISO
  <2>1. RemoteTypeOK'
    BY <1>20, CallTypes, SameRemoteTypes DEF CleanupDeleteISO, DeleteForInterrupt, Calls, Ops
  <2>2. FlagsTypeOK'
    <3>1. isoDeleted' \in BOOLEAN /\ warned' \in BOOLEAN
      BY <1>20 DEF CleanupDeleteISO, DeleteForInterrupt
    <3>2. UNCHANGED <<template, handle, vmCreated, recorded, logDeleted, completed, tempDir,
                      signalled, expired, announced, vmAcked, createLost>>
      BY <1>20 DEF CleanupDeleteISO, DeleteForInterrupt
    <3> QED
      BY <3>1, <3>2 DEF FlagsTypeOK
  <2>3. pc' \in Steps
    BY <1>20 DEF CleanupDeleteISO, DeleteForInterrupt, Submit
  <2> QED
    BY <2>1, <2>2, <2>3
<1>21. CASE CleanupDeleteLog
  <2>1. RemoteTypeOK'
    BY <1>21, CallTypes, SameRemoteTypes DEF CleanupDeleteLog, DeleteForInterrupt, Calls, Ops
  <2>2. FlagsTypeOK'
    <3>1. logDeleted' \in BOOLEAN /\ warned' \in BOOLEAN
      BY <1>21 DEF CleanupDeleteLog, DeleteForInterrupt
    <3>2. UNCHANGED <<template, handle, vmCreated, recorded, isoDeleted, completed, tempDir,
                      signalled, expired, announced, vmAcked, createLost>>
      BY <1>21 DEF CleanupDeleteLog, DeleteForInterrupt
    <3> QED
      BY <3>1, <3>2 DEF FlagsTypeOK
  <2>3. pc' \in Steps
    BY <1>21 DEF CleanupDeleteLog, DeleteForInterrupt, Submit
  <2> QED
    BY <2>1, <2>2, <2>3
<1>22. CASE Logout
  <2>1. RemoteTypeOK'
    BY <1>22, SameRemoteTypes DEF Logout, remote
  <2>2. FlagsTypeOK'
    <3>1. tempDir' \in BOOLEAN
      BY <1>22 DEF Logout
    <3>2. UNCHANGED <<template, handle, vmCreated, recorded, isoDeleted, logDeleted, completed,
                      signalled, expired, announced, warned, vmAcked, createLost>>
      BY <1>22 DEF Logout
    <3> QED
      BY <3>1, <3>2 DEF FlagsTypeOK
  <2>3. pc' \in Steps
    BY <1>22 DEF Logout
  <2> QED
    BY <2>1, <2>2, <2>3
<1> QED
  BY <1>1, <1>2, <1>3, <1>4, <1>5, <1>6, <1>7, <1>8, <1>9, <1>10, <1>11, <1>12, <1>13,
     <1>14, <1>15, <1>16, <1>17, <1>18, <1>19, <1>20, <1>21, <1>22
     DEF Builder

\* So does every step.
LEMMA TypeStep == TypeOK /\ [Next]_vars => TypeOK'
<1> SUFFICES ASSUME TypeOK, [Next]_vars PROVE TypeOK'
  OBVIOUS
<1> USE DEF TypeOK, builderOnly, flags, history, remote
<1>1. CASE Builder
  BY <1>1, BuilderTypes
<1>2. ASSUME NEW op \in Ops, TaskRuns(op) PROVE TypeOK'
  BY <1>2, ExecuteTypes DEF TaskRuns, Exits
<1>3. ASSUME NEW op \in Ops, TaskFails(op) PROVE TypeOK'
  BY <1>3 DEF TaskFails, Exits
<1>4. CASE GuestPowersOff
  <2>1. vm' \in VMs
    BY <1>4 DEF GuestPowersOff, VMs
  <2> QED
    BY <1>4, <2>1 DEF GuestPowersOff
<1>5. CASE ForeignCreate
  BY <1>5, VMConstants DEF ForeignCreate
<1>6. CASE Signal
  BY <1>6 DEF Signal
<1>7. CASE CleanupExpires
  BY <1>7 DEF CleanupExpires
<1>8. CASE UNCHANGED vars
  BY <1>8 DEF vars
<1> QED
  BY <1>1, <1>2, <1>3, <1>4, <1>5, <1>6, <1>7, <1>8 DEF Next, VCenter

\* Every variable of a vCenter build keeps its type.
THEOREM TypeCorrect == Spec => []TypeOK
  BY TypeInit, TypeStep, PTL DEF Spec

-----------------------------------------------------------------------------
(* The actions in the groups that the proofs below treat alike.            *)

ReadActions ==
  \/ ConnectAndResolvePlacement \/ CreateInstallerISO \/ ReadPoweredOff
  \/ VerifyPostInstallDevices \/ Announce \/ Return
  \/ CleanupFindVM \/ CleanupReadPower \/ Logout

\* The steps that call nothing or only read, and what follows them.
ReadMoves ==
  \/ pc = "connect" /\ pc' \in {"localISO", "logout", "ended"}
  \/ pc = "localISO" /\ pc' \in {"upload", "return"}
  \/ pc = "waitOff" /\ pc' = "finalize" /\ ~vm.on
  \/ pc = "waitOff" /\ pc' = "announce"
  \/ pc = "verify" /\ pc' \in {"hardware", "announce"}
  \/ pc = "announce" /\ pc' = "return"
  \/ pc = "return" /\ pc' = "cFind" /\ signalled /\ ~completed /\ handle = "none"
  \/ pc = "return" /\ pc' = "cPower" /\ signalled /\ ~completed /\ handle # "none"
  \/ pc = "return" /\ pc' = "logout" /\ (completed \/ ~signalled)
  \/ pc = "cFind" /\ pc' = "cPower" /\ handle' = vm.owner /\ handle' # "none"
  \/ pc = "cFind" /\ pc' = "cDeleteISO" /\ handle' = vm.owner /\ handle' = "none"
  \/ pc = "cFind" /\ pc' = "cDeleteISO" /\ handle' = handle /\ warned' = TRUE
  \/ pc = "cPower" /\ pc' \in {"cPowerOff", "cDestroy"}
  \/ pc = "logout" /\ pc' = "ended"
  \/ pc = "cLogout" /\ pc' = "cleaned"

ReadFrame ==
  /\ pc \notin CallSteps
  /\ ReadMoves
  /\ pc # "cFind" => handle' = handle
  /\ pc \notin {"cFind", "cPower"} => warned' = warned
  /\ warned' \in {warned, TRUE}
  /\ UNCHANGED <<template, awaiting, recorded, isoDeleted, logDeleted, completed,
                 signalled, vm, iso, log, task, vmAcked, createLost>>

\* The steps that ask vCenter for something leave what the invariant is about.
LEMMA ReadsFrame ==
  ASSUME TypeOK, ReadActions
  PROVE  ReadFrame
<1> USE DEF ReadFrame, ReadMoves, flags, remote, history, Quiet, CallSteps, VMOps
<1>1. CASE ConnectAndResolvePlacement
  BY <1>1 DEF ConnectAndResolvePlacement, Reads
<1>2. CASE CreateInstallerISO
  BY <1>2 DEF CreateInstallerISO, Reads
<1>3. CASE ReadPoweredOff
  BY <1>3 DEF ReadPoweredOff, Reads
<1>4. CASE VerifyPostInstallDevices
  BY <1>4 DEF VerifyPostInstallDevices, Reads
<1>5. CASE Announce
  BY <1>5 DEF Announce
<1>6. CASE Return
  BY <1>6 DEF Return, CleanupDue, TypeOK
<1>7. CASE CleanupFindVM
  BY <1>7 DEF CleanupFindVM
<1>8. CASE CleanupReadPower
  BY <1>8 DEF CleanupReadPower
<1>9. CASE Logout
  BY <1>9 DEF Logout, LogoutSteps
<1> QED
  BY <1>1, <1>2, <1>3, <1>4, <1>5, <1>6, <1>7, <1>8, <1>9 DEF ReadActions

UploadActions == \/ UploadInstallerISO("upload", "uploadHost")
                 \/ UploadInstallerISO("uploadHost", "return")

\* Where the upload goes: only its success records the ISO.
LEMMA UploadMoves ==
  ASSUME TypeOK, UploadActions
  PROVE  /\ pc \in {"upload", "uploadHost"}
         /\ \/ pc' = "create" /\ recorded' = TRUE /\ iso' = TRUE
            \/ pc' \in {"uploadHost", "return"} /\ recorded' = recorded
         /\ UNCHANGED <<template, awaiting, handle, isoDeleted, logDeleted, completed,
                        signalled, warned, vm, log, task, vmAcked, createLost>>
  BY DEF UploadActions, UploadInstallerISO, history, Quiet

\* Where createVM goes: its answer is the build's reference, and an answer that
\* is lost may leave a VM behind.
LEMMA CreateMoves ==
  ASSUME TypeOK, AwaitInv, CreateVM
  PROVE  /\ pc = "create" /\ OpOf(pc) = "create" /\ pc \in CallSteps
         /\ Calls("create")
         /\ \/ Submit("create") /\ UNCHANGED <<pc, handle, vmAcked, createLost>>
            \/ /\ Succeeds("create") /\ pc' = "powerOn" /\ handle' = "ours"
               /\ vmAcked' = TRUE /\ UNCHANGED createLost
               /\ awaiting /\ task["create"] = "ok" /\ task'["create"] = "idle"
            \/ /\ Fails("create") /\ pc' = "discardISO" /\ UNCHANGED <<handle, vmAcked>>
               /\ createLost' = (task'["create"] = "queued" \/ task["create"] = "ok")
         /\ UNCHANGED <<template, recorded, isoDeleted, logDeleted, completed,
                        signalled, warned>>
<1>1. pc = "create" /\ OpOf(pc) = "create" /\ pc \in CallSteps
  BY DEF CreateVM, OpOf, CallSteps, VMOps
<1>2. Succeeds("create") => awaiting /\ task["create"] = "ok" /\ task'["create"] = "idle"
  BY DEF Succeeds, WaitEnds, TypeOK, Ops
<1> QED
  BY <1>1, <1>2, SuccessIsWait DEF CreateVM, Calls, history, Quiet, Submit

VMStepActions == \E step \in VMOps \ {"create"} : VMStep(step, NextOp(step))

\* The build's calls on its VM after the creation have one form.
LEMMA VMStepsAreVMSteps ==
  PowerOn \/ FinalizePostInstallDevices \/ ApplyFinalHardware \/ MaybeMarkAsTemplate
    => VMStepActions
<1> USE DEF VMStepActions, VMOps, NextOp
<1>1. PowerOn => VMStepActions
  BY DEF PowerOn
<1>2. FinalizePostInstallDevices => VMStepActions
  BY DEF FinalizePostInstallDevices
<1>3. ApplyFinalHardware => VMStepActions
  BY DEF ApplyFinalHardware
<1>4. MaybeMarkAsTemplate => VMStepActions
  BY DEF MaybeMarkAsTemplate
<1> QED
  BY <1>1, <1>2, <1>3, <1>4

\* Where they go: on with the build, or to the announcement of its failure.
LEMMA VMStepMoves ==
  ASSUME TypeOK, AwaitInv, NEW step \in VMOps \ {"create"}, VMStep(step, NextOp(step))
  PROVE  /\ pc = step /\ step = OpOf(pc) /\ step \in Ops /\ pc \in CallSteps
         /\ Calls(step)
         /\ \/ Submit(step) /\ UNCHANGED pc
            \/ Succeeds(step) /\ pc' = NextOp(step) /\ awaiting /\ task[step] = "ok"
            \/ Fails(step) /\ pc' = "announce"
         /\ UNCHANGED <<template, handle, recorded, isoDeleted, logDeleted, completed,
                        signalled, warned, vmAcked, createLost>>
<1>1. pc = step /\ step = OpOf(pc) /\ step \in Ops /\ pc \in CallSteps
  BY DEF VMStep, OpOf, VMOps, Ops, CallSteps
<1>2. Succeeds(step) => awaiting /\ task[step] = "ok"
  BY DEF Succeeds, WaitEnds
<1> QED
  BY <1>1, <1>2, SuccessIsWait DEF VMStep, Calls, flags, history, Quiet, Submit

CleanupCalls == CleanupPowerOff \/ CleanupDestroyVM

\* What the two calls of the cleanup on the VM have in common.
LEMMA CleanupMoves ==
  ASSUME TypeOK, AwaitInv, CleanupCalls
  PROVE  /\ pc \in {"cPowerOff", "cDestroy"} /\ pc \in CallSteps /\ OpOf(pc) \in Ops
         /\ OpOf(pc) = (IF pc = "cPowerOff" THEN "powerOff" ELSE "destroy")
         /\ Calls(OpOf(pc))
         /\ \/ Submit(OpOf(pc)) /\ UNCHANGED <<pc, handle, warned>>
            \/ /\ Succeeds(OpOf(pc)) /\ pc = "cPowerOff" /\ pc' = "cDestroy"
               /\ UNCHANGED <<handle, warned>>
            \/ /\ Succeeds(OpOf(pc)) /\ pc = "cDestroy" /\ pc' = "cDeleteISO"
               /\ task["destroy"] = "ok" /\ handle' = "none" /\ UNCHANGED warned
            \/ /\ Fails(OpOf(pc)) /\ pc' = "cDeleteISO" /\ warned' = TRUE
               /\ UNCHANGED handle
         /\ UNCHANGED <<template, recorded, isoDeleted, logDeleted, completed, signalled,
                        vmAcked, createLost>>
<1>1. Succeeds("destroy") => task["destroy"] = "ok"
  BY DEF Succeeds, WaitEnds
<1>2. CASE CleanupPowerOff
  <2>1. pc = "cPowerOff" /\ OpOf(pc) = "powerOff" /\ pc \in CallSteps /\ OpOf(pc) \in Ops
    BY <1>2 DEF CleanupPowerOff, OpOf, CallSteps, Ops
  <2> QED
    BY <1>2, <2>1, SuccessIsWait DEF CleanupPowerOff, Calls, flags, history, Submit
<1>3. CASE CleanupDestroyVM
  <2>1. pc = "cDestroy" /\ OpOf(pc) = "destroy" /\ pc \in CallSteps /\ OpOf(pc) \in Ops
    BY <1>3 DEF CleanupDestroyVM, OpOf, CallSteps, Ops
  <2> QED
    BY <1>1, <1>3, <2>1, SuccessIsWait DEF CleanupDestroyVM, Calls, history, Submit
<1> QED
  BY <1>2, <1>3 DEF CleanupCalls

OtherActions == GuestPowersOff \/ ForeignCreate \/ Signal \/ CleanupExpires
                  \/ UNCHANGED vars

\* The steps of others leave the builder's and the tasks' state alone.
LEMMA OthersMove ==
  ASSUME TypeOK, OtherActions
  PROVE  /\ UNCHANGED <<template, pc, awaiting, handle, recorded, isoDeleted, logDeleted,
                        completed, warned, iso, log, task, vmAcked, createLost>>
         /\ signalled' \in {signalled, TRUE} /\ (signalled => signalled')
         /\ signalled' # signalled => pc \notin LogoutSteps \cup Ended /\ vm' = vm
         /\ \/ vm' = vm
            \/ vm.owner = "none" /\ vm' = ForeignVM
            \/ Mine /\ vm.on /\ vm' = [vm EXCEPT !.on = FALSE]
<1> USE DEF builderOnly, flags, remote, history, Mine
<1>1. CASE GuestPowersOff
  BY <1>1 DEF GuestPowersOff
<1>2. CASE ForeignCreate
  BY <1>2 DEF ForeignCreate
<1>3. CASE Signal
  BY <1>3 DEF Signal
<1>4. CASE CleanupExpires
  BY <1>4 DEF CleanupExpires
<1>5. CASE UNCHANGED vars
  BY <1>5 DEF vars
<1> QED
  BY <1>1, <1>2, <1>3, <1>4, <1>5 DEF OtherActions

TaskActions == \E op \in Ops : TaskRuns(op) \/ TaskFails(op)

DeleteActions == DiscardISO \/ DeleteDatastoreISO \/ DeleteDatastoreConsoleLog
                   \/ CleanupDeleteISO \/ CleanupDeleteLog

DeleteSteps == {"discardISO", "deleteISO", "deleteLog", "cDeleteISO", "cDeleteLog"}

\* Where a delete goes when it is done, and when it failed.
DeleteThen(step) ==
  CASE step = "deleteISO" -> "deleteLog"
    [] step = "cDeleteISO" -> "cDeleteLog"
    [] step = "cDeleteLog" -> "cLogout"
    [] OTHER -> "announce"
DeleteFailedThen(step) ==
  CASE step = "cDeleteISO" -> "cDeleteLog"
    [] step = "cDeleteLog" -> "cLogout"
    [] OTHER -> "announce"

\* The outcomes that the deletions of the two files have in common.
Skips(op) ==
  /\ ~awaiting /\ pc' = DeleteThen(pc)
  /\ \/ pc = "discardISO"
     \/ pc = "cDeleteISO" /\ ~ISOToDelete
     \/ pc = "cDeleteLog" /\ ~LogToDelete
  /\ UNCHANGED <<awaiting, vm, iso, log, task, isoDeleted, logDeleted, completed, warned>>
Asks(op) ==
  /\ Submit(op)
  /\ pc = "cDeleteISO" => ISOToDelete
  /\ pc = "cDeleteLog" => LogToDelete
  /\ UNCHANGED <<pc, isoDeleted, logDeleted, completed, warned>>
Deletes(op) ==
  /\ WaitEnds(op, {"ok", "missing"}) /\ pc' = DeleteThen(pc)
  /\ pc = "deleteLog" => task["deleteLog"] = "ok"
  /\ isoDeleted' = (isoDeleted \/ op = "deleteISO")
  /\ logDeleted' = (logDeleted \/ op = "deleteLog")
  /\ completed' = (completed \/ pc = "deleteLog")
  /\ UNCHANGED warned
Keeps(op) ==
  /\ Fails(op) /\ pc' = DeleteFailedThen(pc)
  /\ pc = "cDeleteISO" => ISOToDelete
  /\ pc = "cDeleteLog" => LogToDelete
  /\ warned' = (warned \/ pc \notin {"deleteISO", "deleteLog"})
  /\ UNCHANGED <<isoDeleted, logDeleted, completed>>

\* The deletions have one form too: nothing to delete, asked, deleted or kept.
LEMMA DeleteMoves ==
  ASSUME TypeOK, AwaitInv, FileInv, DeleteActions
  PROVE  /\ pc \in DeleteSteps /\ pc \in CallSteps
         /\ OpOf(pc) = (IF pc \in {"deleteLog", "cDeleteLog"} THEN "deleteLog" ELSE "deleteISO")
         /\ OpOf(pc) \in Ops
         /\ Skips(OpOf(pc)) \/ Asks(OpOf(pc)) \/ Deletes(OpOf(pc)) \/ Keeps(OpOf(pc))
         /\ UNCHANGED <<template, handle, recorded, signalled, vmAcked, createLost>>
<1>1. /\ pc \in DeleteSteps /\ pc \in CallSteps
      /\ OpOf(pc) = (IF pc \in {"deleteLog", "cDeleteLog"} THEN "deleteLog" ELSE "deleteISO")
      /\ OpOf(pc) \in Ops
  BY DEF DeleteActions, DiscardISO, DeleteDatastoreISO, DeleteDatastoreConsoleLog,
         CleanupDeleteISO, CleanupDeleteLog, DeleteSteps, CallSteps, OpOf, Ops
<1>2. UNCHANGED <<template, handle, recorded, signalled, vmAcked, createLost>>
  BY DEF DeleteActions, DiscardISO, DeleteDatastoreISO, DeleteDatastoreConsoleLog,
         CleanupDeleteISO, CleanupDeleteLog, DeleteForInterrupt, history, Quiet
<1> USE DEF TypeOK, DeleteThen, DeleteFailedThen
<1>3. CASE DiscardISO
  <2>1. pc = "discardISO" /\ OpOf(pc) = "deleteISO" /\ UNCHANGED <<logDeleted, completed>>
    BY <1>1, <1>3 DEF DiscardISO
  <2>2. CASE /\ signalled /\ ~awaiting /\ pc' = "announce"
             /\ UNCHANGED <<awaiting, remote, isoDeleted, warned>>
    BY <1>1, <1>2, <2>1, <2>2 DEF Skips, remote
  <2>3. CASE Submit("deleteISO") /\ UNCHANGED <<isoDeleted, warned>>
    BY <1>1, <1>2, <2>1, <2>3 DEF Asks, Submit
  <2>4. CASE Succeeds("deleteISO") /\ pc' = "announce" /\ isoDeleted' = TRUE
             /\ UNCHANGED warned
    BY <1>1, <1>2, <2>1, <2>4, SuccessIsWait DEF Deletes
  <2>5. CASE Fails("deleteISO") /\ pc' = "announce" /\ warned' = TRUE
             /\ UNCHANGED isoDeleted
    BY <1>1, <1>2, <2>1, <2>5 DEF Keeps
  <2> QED
    BY <1>3, <2>2, <2>3, <2>4, <2>5 DEF DiscardISO
<1>4. CASE DeleteDatastoreISO
  <2>1. /\ pc = "deleteISO" /\ OpOf(pc) = "deleteISO"
        /\ UNCHANGED <<logDeleted, completed, warned>>
    BY <1>1, <1>4 DEF DeleteDatastoreISO, Quiet
  <2>2. CASE Submit("deleteISO") /\ UNCHANGED isoDeleted
    BY <1>1, <1>2, <2>1, <2>2 DEF Asks, Submit
  <2>3. CASE Succeeds("deleteISO") /\ pc' = "deleteLog" /\ isoDeleted' = TRUE
    BY <1>1, <1>2, <2>1, <2>3, SuccessIsWait DEF Deletes
  <2>4. CASE Fails("deleteISO") /\ pc' = "announce" /\ UNCHANGED isoDeleted
    BY <1>1, <1>2, <2>1, <2>4 DEF Keeps
  <2> QED
    BY <1>4, <2>2, <2>3, <2>4 DEF DeleteDatastoreISO
<1>5. CASE DeleteDatastoreConsoleLog
  <2>1. /\ pc = "deleteLog" /\ OpOf(pc) = "deleteLog"
        /\ UNCHANGED <<isoDeleted, warned>>
    BY <1>1, <1>5 DEF DeleteDatastoreConsoleLog, Quiet
  <2>2. CASE Submit("deleteLog") /\ UNCHANGED <<logDeleted, completed>>
    BY <1>1, <1>2, <2>1, <2>2 DEF Asks, Submit
  <2>3. CASE /\ Succeeds("deleteLog") /\ pc' = "announce"
             /\ logDeleted' = TRUE /\ completed' = TRUE
    <3>1. task["deleteLog"] = "ok"
      BY <2>3 DEF Succeeds, WaitEnds
    <3> QED
      BY <1>1, <1>2, <2>1, <2>3, <3>1, SuccessIsWait DEF Deletes
  <2>4. CASE Fails("deleteLog") /\ pc' = "announce" /\ UNCHANGED <<logDeleted, completed>>
    BY <1>1, <1>2, <2>1, <2>4 DEF Keeps
  <2> QED
    BY <1>5, <2>2, <2>3, <2>4 DEF DeleteDatastoreConsoleLog
<1>6. CASE CleanupDeleteISO
  <2>1. /\ pc = "cDeleteISO" /\ OpOf(pc) = "deleteISO"
        /\ UNCHANGED <<logDeleted, completed>>
    BY <1>1, <1>6 DEF CleanupDeleteISO, DeleteForInterrupt
  <2>2. PICK deletes \in BOOLEAN :
          /\ DeleteForInterrupt("deleteISO", ISOToDelete, "cDeleteLog", deletes)
          /\ isoDeleted' = (isoDeleted \/ deletes)
    BY <1>6 DEF CleanupDeleteISO
  <2>3. CASE ~ISOToDelete
    <3>1. ~awaiting
      BY <2>1, <2>3 DEF FileInv, ISOInv
    <3> QED
      BY <1>1, <1>2, <2>1, <2>2, <2>3, <3>1 DEF DeleteForInterrupt, Skips, remote
  <2>4. CASE ISOToDelete /\ ~deletes
    BY <1>1, <1>2, <2>1, <2>2, <2>4 DEF DeleteForInterrupt, Asks, Keeps, Submit
  <2>5. CASE ISOToDelete /\ deletes
    BY <1>1, <1>2, <2>1, <2>2, <2>5 DEF DeleteForInterrupt, Deletes
  <2> QED
    BY <2>3, <2>4, <2>5
<1>7. CASE CleanupDeleteLog
  <2>1. /\ pc = "cDeleteLog" /\ OpOf(pc) = "deleteLog"
        /\ UNCHANGED <<isoDeleted, completed>>
    BY <1>1, <1>7 DEF CleanupDeleteLog, DeleteForInterrupt
  <2>2. PICK deletes \in BOOLEAN :
          /\ DeleteForInterrupt("deleteLog", LogToDelete, "cLogout", deletes)
          /\ logDeleted' = (logDeleted \/ deletes)
    BY <1>7 DEF CleanupDeleteLog, LogToDelete
  <2>3. CASE ~LogToDelete
    <3>1. ~awaiting
      BY <2>1, <2>3 DEF FileInv, LogInv
    <3> QED
      BY <1>1, <1>2, <2>1, <2>2, <2>3, <3>1 DEF DeleteForInterrupt, Skips, remote
  <2>4. CASE LogToDelete /\ ~deletes
    BY <1>1, <1>2, <2>1, <2>2, <2>4 DEF DeleteForInterrupt, Asks, Keeps, Submit
  <2>5. CASE LogToDelete /\ deletes
    BY <1>1, <1>2, <2>1, <2>2, <2>5 DEF DeleteForInterrupt, Deletes
  <2> QED
    BY <2>3, <2>4, <2>5
<1> QED
  BY <1>3, <1>4, <1>5, <1>6, <1>7 DEF DeleteActions

\* What a delete does to the remote state and to the tasks.
LEMMA DeleteEffect ==
  ASSUME TypeOK, AwaitInv, FileInv, DeleteActions
  PROVE  /\ UNCHANGED <<vm, iso, log>>
         /\ \A o \in Ops : o # OpOf(pc) => task'[o] = task[o]
         /\ task'[OpOf(pc)] \in {task[OpOf(pc)], "idle", "queued"}
         /\ task'[OpOf(pc)] \in {"idle", "queued"}
         /\ Skips(OpOf(pc)) => ~awaiting /\ ~awaiting' /\ task' = task
         /\ Asks(OpOf(pc)) => awaiting' /\ pc' = pc
         /\ Deletes(OpOf(pc)) => /\ ~awaiting' /\ task'[OpOf(pc)] = "idle"
                                 /\ awaiting /\ task[OpOf(pc)] \in {"ok", "missing"}
         /\ Keeps(OpOf(pc)) => ~awaiting'
<1> DEFINE op == OpOf(pc)
<1>0. op \in Ops
  BY DeleteMoves
<1>1. CASE Skips(op)
  <2>1. task[op] \in {"idle", "queued"} /\ task' = task
    BY <1>0, <1>1 DEF Skips, AwaitInv, TypeOK
  <2>2. ~Asks(op) /\ ~Deletes(op)
    BY <1>0, <1>1 DEF Skips, Asks, Deletes, Submit, WaitEnds
  <2> QED
    BY <1>1, <2>1, <2>2 DEF Skips, Keeps, Fails
<1>2. CASE Asks(op) \/ Deletes(op) \/ Keeps(op)
  <2>1. Calls(op)
    BY <1>2 DEF Asks, Deletes, Keeps, Calls
  <2>2. ~Skips(op) \/ (task' = task /\ ~awaiting /\ ~awaiting')
    BY DEF Skips
  <2> QED
    BY <1>0, <2>1, <2>2, CallFrame, CallEffect DEF Asks, Deletes, Keeps
<1> QED
  BY <1>1, <1>2, DeleteMoves

\* Where a delete goes, and what it may say.
LEMMA DeletesMove ==
  ASSUME TypeOK, AwaitInv, FileInv, DeleteActions
  PROVE  /\ pc' \in {pc, DeleteThen(pc), DeleteFailedThen(pc)}
         /\ warned => warned'
         /\ completed => completed'
         /\ completed' => completed \/ (pc = "deleteLog" /\ pc' = DeleteThen(pc))
         /\ UNCHANGED <<template, handle, recorded, signalled, vmAcked, createLost>>
<1>1. UNCHANGED <<template, handle, recorded, signalled, vmAcked, createLost>>
  BY DeleteMoves
<1>2. CASE Skips(OpOf(pc))
  BY <1>1, <1>2 DEF Skips
<1>3. CASE Asks(OpOf(pc))
  BY <1>1, <1>3 DEF Asks
<1>4. CASE Deletes(OpOf(pc))
  BY <1>1, <1>4 DEF Deletes
<1>5. CASE Keeps(OpOf(pc))
  BY <1>1, <1>5 DEF Keeps
<1> QED
  BY <1>2, <1>3, <1>4, <1>5, DeleteMoves

\* Every step is one of these.
LEMMA NextInGroups ==
  [Next]_vars => \/ ReadActions \/ UploadActions \/ CreateVM
                 \/ VMStepActions \/ DeleteActions \/ CleanupCalls
                 \/ TaskActions \/ OtherActions
  BY VMStepsAreVMSteps DEF Next, Builder, VCenter, ReadActions, UploadActions,
       DeleteActions, CleanupCalls, TaskActions, OtherActions

-----------------------------------------------------------------------------
(* Each part of BuildInv is kept by every step.                            *)

\* The operation of a step that waits for one is one of vCenter's.
LEMMA OperationOfStep == pc \in CallSteps => OpOf(pc) \in Ops
  BY DEF CallSteps, VMOps, OpOf, Ops

\* Only the task that the builder waits for has an end that is known: an end
\* that nobody waits for is forgotten (a call that failed, a cleanup).
LEMMA AwaitStep ==
  ASSUME TypeOK, BuildInv, [Next]_vars
  PROVE  AwaitInv'
<1> USE DEF BuildInv
<1>1. CASE ReadActions
  <2>1. ~awaiting /\ UNCHANGED <<awaiting, task>>
    BY <1>1, ReadsFrame DEF ReadFrame, AwaitInv
  <2> QED
    BY <2>1 DEF AwaitInv
<1>2. CASE UploadActions
  <2>1. ~awaiting /\ UNCHANGED <<awaiting, task>>
    BY <1>2, UploadMoves DEF AwaitInv, CallSteps, VMOps
  <2> QED
    BY <2>1 DEF AwaitInv
<1>3. CASE CreateVM
  BY <1>3, CreateMoves, CallKeepsAwait DEF Ops
<1>4. CASE VMStepActions
  BY <1>4, VMStepMoves, CallKeepsAwait DEF VMStepActions
<1>5. CASE DeleteActions
  <2>1. CASE Skips(OpOf(pc))
    BY <1>5, <2>1, DeleteMoves DEF Skips, AwaitInv, TypeOK
  <2>2. CASE ~Skips(OpOf(pc))
    BY <1>5, <2>2, DeleteMoves, CallKeepsAwait DEF Asks, Deletes, Keeps, Calls
  <2> QED
    BY <2>1, <2>2
<1>6. CASE CleanupCalls
  BY <1>6, CleanupMoves, CallKeepsAwait
<1>7. CASE TaskActions
  <2>1. PICK op \in Ops : TaskRuns(op) \/ TaskFails(op)
    BY <1>7 DEF TaskActions
  <2> QED
    BY <2>1, TaskEffect, OperationOfStep DEF AwaitInv, TypeOK
<1>8. CASE OtherActions
  <2>1. UNCHANGED <<pc, awaiting, task>>
    BY <1>8, OthersMove
  <2> QED
    BY <2>1 DEF AwaitInv
<1> QED
  BY <1>1, <1>2, <1>3, <1>4, <1>5, <1>6, <1>7, <1>8, NextInGroups

\* A build that has not failed has one task at a time, and none once it has
\* declared its success; an interrupted one never declares it.
LEMMA PathStep ==
  ASSUME TypeOK, BuildInv, [Next]_vars
  PROVE  PathInv'
<1> USE DEF BuildInv
<1>1. CASE ReadActions
  <2>1. UNCHANGED <<awaiting, completed, signalled, task>> /\ ~awaiting /\ ReadMoves
    BY <1>1, ReadsFrame DEF ReadFrame, AwaitInv
  <2>2. pc' \in PathSteps => pc \in PathSteps
    BY <2>1 DEF ReadMoves, PathSteps, MainSteps
  <2>3. completed => pc' \in {"announce", "return", "logout", "ended"}
    BY <2>1 DEF ReadMoves, PathInv
  <2>4. InCleanup' /\ ~InCleanup => signalled /\ ~completed
    BY <2>1 DEF ReadMoves, InCleanup, CleanupSteps
  <2>5. InCleanup => InCleanup'
    BY <2>1 DEF ReadMoves, InCleanup, CleanupSteps
  <2> QED
    BY <2>1, <2>2, <2>3, <2>4, <2>5 DEF PathInv
<1>2. CASE UploadActions
  <2>1. ~awaiting /\ pc \in PathSteps
    BY <1>2, UploadMoves DEF AwaitInv, CallSteps, VMOps, PathSteps, MainSteps
  <2>2. \A op \in Ops : task[op] = "idle"
    BY <2>1 DEF PathInv
  <2>3. task' = task /\ ~completed' /\ pc' \notin CleanupSteps \cup {"cLogout", "cleaned"}
    <3>1. UNCHANGED <<completed, task>> /\ pc \in {"upload", "uploadHost"}
      BY <1>2, UploadMoves
    <3>2. pc' \in {"create", "uploadHost", "return"}
      BY <1>2, UploadMoves
    <3> QED
      BY <3>1, <3>2 DEF PathInv, CleanupSteps
  <2> QED
    BY <2>2, <2>3 DEF PathInv, InCleanup, VMOps, Ops
<1>3. CASE CreateVM
  <2>1. \A op \in Ops : task[op] # "idle" => op = "create"
    BY <1>3, CreateMoves DEF PathInv, PathSteps, MainSteps
  <2>2. \A op \in Ops : task'[op] # "idle" => op = "create"
    BY <1>3, <2>1, CreateMoves, CallEffect DEF Ops
  <2>3. pc' \in PathSteps => \A op \in Ops : task'[op] # "idle" => awaiting' /\ op = OpOf(pc')
    BY <1>3, <2>1, <2>2, CreateMoves, CallEffect DEF PathSteps, MainSteps, Ops
  <2>4. ~completed' /\ pc' \in {"create", "powerOn", "discardISO"}
    <3>1. UNCHANGED completed /\ pc = "create"
      BY <1>3, CreateMoves
    <3>2. pc' \in {"create", "powerOn", "discardISO"}
      BY <1>3, CreateMoves
    <3> QED
      BY <3>1, <3>2 DEF PathInv
  <2> QED
    BY <2>2, <2>3, <2>4 DEF PathInv, InCleanup, CleanupSteps, VMOps, Ops
<1>4. CASE VMStepActions
  <2>1. PICK step \in VMOps \ {"create"} : VMStep(step, NextOp(step))
    BY <1>4 DEF VMStepActions
  <2>2. pc = step /\ step = OpOf(pc) /\ step \in Ops /\ pc \in PathSteps
    BY <2>1, VMStepMoves DEF PathSteps, MainSteps, VMOps
  <2>3. \A op \in Ops : task[op] # "idle" => op = step
    BY <2>2 DEF PathInv
  <2>4. \A op \in Ops : task'[op] # "idle" => op = step
    BY <2>1, <2>3, VMStepMoves, CallEffect
  <2>5. pc' \in PathSteps => \A op \in Ops : task'[op] # "idle" => awaiting' /\ op = OpOf(pc')
    <3>1. CASE Submit(step)
      BY <2>1, <2>2, <2>4, <3>1, VMStepMoves, CallEffect
    <3>2. CASE Succeeds(step)
      BY <2>1, <2>2, <2>4, <3>2, VMStepMoves, CallEffect, SuccessIsWait
    <3>3. CASE pc' = "announce"
      BY <3>3 DEF PathSteps, MainSteps
    <3> QED
      BY <2>1, <3>1, <3>2, <3>3, VMStepMoves
  <2>6. ~completed' /\ pc' \in {step, "announce", NextOp(step)}
    BY <2>1, <2>2, VMStepMoves DEF PathInv, PathSteps, MainSteps
  <2>7. ~InCleanup'
    BY <2>6 DEF InCleanup, CleanupSteps, NextOp, VMOps, AfterHardware
  <2> QED
    BY <2>4, <2>5, <2>6, <2>7 DEF PathInv, VMOps, Ops
<1>5. CASE DeleteActions
  <2>1. /\ task'["powerOff"] = task["powerOff"] /\ task'["destroy"] = task["destroy"]
        /\ \A o \in VMOps : task'[o] = task[o]
    BY <1>5, DeleteMoves, DeleteEffect DEF Ops, VMOps
  <2>2. /\ pc' \in {pc, DeleteThen(pc), DeleteFailedThen(pc)} /\ signalled' = signalled
        /\ completed' => completed \/ (pc = "deleteLog" /\ pc' = "announce")
    BY <1>5, DeletesMove DEF DeleteThen
  <2>3. /\ InCleanup' <=> InCleanup
        /\ completed' => pc' \in {"announce", "return", "logout", "ended"} /\ ~InCleanup
    BY <1>5, <2>2, DeleteMoves DEF InCleanup, CleanupSteps, DeleteThen, DeleteFailedThen,
       DeleteSteps, PathInv
  <2>4. ASSUME pc' \in PathSteps \/ completed'
        PROVE  \A op \in Ops : task'[op] # "idle" => awaiting' /\ op = OpOf(pc')
    <3>1. pc \in {"deleteISO", "deleteLog"}
      BY <1>5, <2>2, <2>4, DeleteMoves DEF PathSteps, MainSteps, DeleteSteps, DeleteThen,
         DeleteFailedThen, PathInv
    <3>2. \A op \in Ops : task[op] # "idle" => awaiting /\ op = OpOf(pc)
      BY <3>1 DEF PathInv, PathSteps, MainSteps
    <3>3. CASE Asks(OpOf(pc))
      BY <1>5, <3>2, <3>3, DeleteEffect
    <3>4. CASE Deletes(OpOf(pc))
      BY <1>5, <3>2, <3>4, DeleteEffect
    <3>5. CASE Skips(OpOf(pc))
      BY <3>1, <3>5 DEF Skips
    <3>6. CASE Keeps(OpOf(pc))
      <4>1. pc' = "announce" /\ completed' = completed /\ ~completed
        BY <3>1, <3>6 DEF Keeps, DeleteFailedThen, PathInv
      <4> QED
        BY <2>4, <4>1 DEF PathSteps, MainSteps
    <3> QED
      BY <1>5, <3>3, <3>4, <3>5, <3>6, DeleteMoves
  <2> QED
    BY <2>1, <2>2, <2>3, <2>4 DEF PathInv
<1>6. CASE CleanupCalls
  <2>1. \A o \in VMOps : task'[o] = task[o]
    BY <1>6, CleanupMoves, CallEffect DEF Ops, VMOps
  <2>2. pc' \notin PathSteps /\ ~completed' /\ signalled' /\ InCleanup'
    <3>1. UNCHANGED <<completed, signalled>> /\ pc \in {"cPowerOff", "cDestroy"}
      BY <1>6, CleanupMoves
    <3>2. pc' \in {"cPowerOff", "cDestroy", "cDeleteISO"}
      BY <1>6, CleanupMoves
    <3> QED
      BY <3>1, <3>2 DEF PathInv, PathSteps, MainSteps, InCleanup, CleanupSteps
  <2> QED
    BY <2>1, <2>2 DEF PathInv
<1>7. CASE TaskActions
  <2>1. PICK op \in Ops : TaskRuns(op) \/ TaskFails(op)
    BY <1>7 DEF TaskActions
  <2>2. \A o \in Ops : task'[o] # "idle" => task[o] # "idle"
    BY <2>1, TaskEffect
  <2>3. UNCHANGED <<pc, awaiting, completed, signalled>>
    BY <2>1, TaskEffect
  <2> QED
    BY <2>2, <2>3 DEF PathInv, InCleanup, VMOps, Ops
<1>8. CASE OtherActions
  <2>1. UNCHANGED <<pc, awaiting, completed, task>> /\ (signalled => signalled')
    BY <1>8, OthersMove
  <2> QED
    BY <2>1 DEF PathInv, InCleanup
<1> QED
  BY <1>1, <1>2, <1>3, <1>4, <1>5, <1>6, <1>7, <1>8, NextInGroups

\* What executing an operation does to the owner of the VM.
LEMMA OwnerEffect ==
  ASSUME TypeOK, NEW op \in Ops, Execute(op)
  PROVE  vm'.owner = (CASE op = "create" -> "ours"
                        [] op = "destroy" -> "none"
                        [] OTHER -> vm.owner)
<1>1. CASE op \in {"create", "destroy"}
  BY <1>1, VMConstants DEF Execute, VMAfter
<1>2. CASE op \notin {"create", "destroy"}
  BY <1>2, VMEffect DEF Execute, TypeOK
<1> QED
  BY <1>1, <1>2

\* The build's reference never comes to mean another tenant's VM, except in a
\* cleanup that looked one up by name because createVM had not returned.
LEMMA HandleStep ==
  ASSUME TypeOK, BuildInv, [Next]_vars
  PROVE  HandleInv'
<1> USE DEF BuildInv, Mine
<1>1. CASE ReadActions
  <2>1. /\ UNCHANGED <<completed, vm, task, vmAcked>> /\ ReadMoves
        /\ warned' \in {warned, TRUE} /\ (pc # "cFind" => handle' = handle)
    BY <1>1, ReadsFrame DEF ReadFrame
  <2>2. CASE pc = "cFind"
    <3>1. InCleanup /\ InCleanup' /\ pc' \in {"cPower", "cDeleteISO"} /\ ~vmAcked
      BY <2>1, <2>2 DEF ReadMoves, InCleanup, CleanupSteps, HandleInv
    <3>2. pc' \in VMDone /\ ~warned' => handle' = "none"
      BY <2>1, <2>2, <3>1 DEF ReadMoves, VMDone
    <3> QED
      BY <2>1, <3>1, <3>2 DEF HandleInv, AfterCreate, BeforeCreate, MainSteps
  <2>3. CASE pc # "cFind"
    <3>1. /\ pc' \in AfterCreate => pc \in AfterCreate
          /\ pc' \in BeforeCreate => pc \in BeforeCreate
          /\ pc' \in VMDone => pc = "cLogout" /\ pc \in VMDone
          /\ InCleanup => InCleanup'
          /\ pc' = "cFind" => handle = "none" /\ ~InCleanup
          /\ InCleanup' => ~(pc' \in AfterCreate)
      BY <2>1, <2>3 DEF ReadMoves, InCleanup, CleanupSteps, VMDone, AfterCreate, BeforeCreate,
         MainSteps
    <3>2. pc' \in VMDone => warned' = warned
      BY <1>1, <3>1, ReadsFrame DEF ReadFrame
    <3> QED
      BY <2>1, <2>3, <3>1, <3>2 DEF HandleInv
  <2> QED
    BY <2>2, <2>3
<1>2. CASE UploadActions
  <2>1. pc' \in {"create", "uploadHost", "return"} /\ pc \in BeforeCreate
    BY <1>2, UploadMoves DEF BeforeCreate, MainSteps, AfterCreate
  <2>2. ~InCleanup /\ ~InCleanup'
    BY <1>2, <2>1, UploadMoves DEF InCleanup, CleanupSteps
  <2> QED
    BY <1>2, <2>1, <2>2, UploadMoves DEF HandleInv, VMDone, AfterCreate
<1>3. CASE CreateVM
  <2>1. /\ pc' \in {"create", "powerOn", "discardISO"} /\ pc = "create"
        /\ vm' = vm /\ UNCHANGED completed /\ ~vmAcked
    BY <1>3, CreateMoves, CallFrame DEF HandleInv, BeforeCreate, MainSteps, AfterCreate, Ops
  <2>2. ~InCleanup /\ ~InCleanup' /\ ~completed
    BY <2>1 DEF InCleanup, CleanupSteps, PathInv
  <2>3. \A op \in Ops : task[op] # "idle" => op = "create"
    BY <2>1 DEF PathInv, PathSteps, MainSteps, OpOf
  <2>4. \A op \in Ops \ {"create"} : task'[op] = "idle"
    BY <1>3, <2>3, CreateMoves, CallEffect DEF Ops
  <2>5. task'["create"] # "ok"
    BY <1>3, CreateMoves, CallEffect DEF Ops
  <2>6. CASE vmAcked'
    BY <1>3, <2>1, <2>2, <2>4, <2>5, <2>6, CreateMoves DEF HandleInv, VMDone, AfterCreate,
       BeforeCreate, Ops, VMOps, MainSteps
  <2>7. CASE ~vmAcked'
    <3>1. handle' = handle /\ pc' # "powerOn"
      BY <1>3, <2>7, CreateMoves
    <3> QED
      BY <2>1, <2>2, <2>4, <2>5, <2>7, <3>1 DEF HandleInv, VMDone, AfterCreate, Ops, VMOps
  <2> QED
    BY <2>6, <2>7
<1>4. CASE VMStepActions
  <2>1. PICK step \in VMOps \ {"create"} : VMStep(step, NextOp(step))
    BY <1>4 DEF VMStepActions
  <2>2. /\ vm' = vm /\ UNCHANGED <<handle, vmAcked, completed>>
        /\ task'["create"] = task["create"] /\ task'["destroy"] = task["destroy"]
    BY <2>1, VMStepMoves, CallFrame, CallEffect DEF Ops, VMOps
  <2>3. pc \in AfterCreate /\ pc' \in AfterCreate \cup {"announce"}
    BY <2>1, VMStepMoves DEF AfterCreate, VMOps, NextOp, AfterHardware
  <2>4. ~InCleanup /\ ~InCleanup' /\ vmAcked
    BY <2>3 DEF InCleanup, CleanupSteps, AfterCreate, HandleInv
  <2> QED
    BY <2>2, <2>3, <2>4 DEF HandleInv, AfterCreate, BeforeCreate, MainSteps, VMDone
<1>5. CASE DeleteActions
  <2>1. /\ vm' = vm /\ UNCHANGED <<handle, vmAcked>>
        /\ \A o \in VMOps : task'[o] = task[o]
        /\ task'["destroy"] = task["destroy"]
    BY <1>5, DeleteMoves, DeleteEffect DEF Ops, VMOps
  <2>2. /\ pc' \in {pc, DeleteThen(pc), DeleteFailedThen(pc)} /\ (~warned' => ~warned)
        /\ completed' => completed \/ pc = "deleteLog"
    BY <1>5, DeletesMove
  <2>3. /\ InCleanup' <=> InCleanup
        /\ pc' # "cFind" /\ (pc' \in VMDone => pc \in VMDone)
        /\ pc' \in AfterCreate => pc \in AfterCreate
        /\ pc' \in BeforeCreate => pc \in BeforeCreate
    BY <1>5, <2>2, DeleteMoves DEF InCleanup, CleanupSteps, DeleteThen, DeleteFailedThen,
       DeleteSteps, VMDone, AfterCreate, BeforeCreate, MainSteps
  <2>4. /\ pc' \in VMDone /\ ~warned' => handle' = "none"
        /\ pc' \in AfterCreate \/ completed' => vmAcked'
        /\ pc' \in BeforeCreate => ~vmAcked'
    BY <2>1, <2>2, <2>3 DEF HandleInv, AfterCreate
  <2> QED
    BY <2>1, <2>3, <2>4 DEF HandleInv, VMOps
<1>6. CASE CleanupCalls
  <2>1. /\ vm' = vm /\ UNCHANGED <<vmAcked, completed>> /\ InCleanup /\ InCleanup'
        /\ \A o \in VMOps : task'[o] = task[o]
        /\ pc' \notin AfterCreate /\ pc' \notin BeforeCreate /\ pc' # "cFind"
    BY <1>6, CleanupMoves, CallFrame, CallEffect DEF InCleanup, CleanupSteps, AfterCreate,
       BeforeCreate, MainSteps, Ops, VMOps
  <2>2. task'["destroy"] # "ok"
    BY <1>6, CleanupMoves, CallEffect DEF AwaitInv, Ops
  <2>3. handle' \in {handle, "none"} /\ (pc' \in VMDone /\ ~warned' => handle' = "none")
    BY <1>6, CleanupMoves DEF VMDone
  <2>4. vmAcked /\ handle' = "none" => ~Mine
    BY <1>6, CleanupMoves DEF HandleInv
  <2> QED
    BY <2>1, <2>2, <2>3, <2>4 DEF HandleInv, VMOps
<1>7. CASE TaskActions
  <2>1. PICK op \in Ops : TaskRuns(op) \/ TaskFails(op)
    BY <1>7 DEF TaskActions
  <2>2. UNCHANGED <<pc, handle, warned, vmAcked, completed>>
    BY <2>1, TaskEffect
  <2>3. \A o \in Ops : /\ task'[o] # "idle" => task[o] # "idle"
                       /\ o # op => task'[o] = task[o]
    BY <2>1, TaskEffect
  <2>4. vmAcked => op # "create"
    BY <2>1, TaskEffect DEF HandleInv
  <2>5. vmAcked /\ ~Mine => ~Mine'
    BY <2>1, <2>4, TaskEffect, OwnerEffect
  <2>6. ~InCleanup => op # "destroy"
    BY <2>1, TaskEffect DEF PathInv
  <2>7. Mine /\ op # "destroy" => Mine'
    BY <2>1, TaskEffect, OwnerEffect
  <2>8. task'["create"] = "ok" => Mine'
    <3>1. CASE op = "create"
      BY <2>1, <3>1, TaskEffect, OwnerEffect
    <3>2. CASE op # "create" /\ task["create"] = "ok"
      <4>1. ~InCleanup
        BY <3>2 DEF AwaitInv, OpOf, InCleanup, CleanupSteps, Ops
      <4> QED
        BY <2>6, <2>7, <3>2, <4>1 DEF HandleInv
    <3> QED
      BY <2>3, <3>1, <3>2 DEF Ops
  <2>9. vmAcked /\ task'["destroy"] = "ok" => ~Mine'
    <3>1. CASE op = "destroy"
      BY <2>1, <3>1, TaskEffect, OwnerEffect
    <3>2. CASE op # "destroy"
      BY <2>3, <2>5, <3>2 DEF HandleInv, Ops
    <3> QED
      BY <3>1, <3>2
  <2> QED
    BY <2>2, <2>3, <2>5, <2>6, <2>7, <2>8, <2>9 DEF HandleInv, InCleanup, VMOps, Ops
<1>8. CASE OtherActions
  <2>1. Mine' <=> Mine
    BY <1>8, OthersMove, VMConstants DEF TypeOK, VMs
  <2> QED
    BY <1>8, <2>1, OthersMove DEF HandleInv, InCleanup
<1> QED
  BY <1>1, <1>2, <1>3, <1>4, <1>5, <1>6, <1>7, <1>8, NextInGroups

\* Whether the build's VM is there after a step that runs no task.
LEMMA MineKept ==
  ASSUME TypeOK, OtherActions
  PROVE  Mine' <=> Mine
  BY OthersMove, VMConstants DEF Mine, TypeOK, VMs

\* A VM of the build that it does not know of is one whose creation it lost.
LEMMA LostStep ==
  ASSUME TypeOK, BuildInv, [Next]_vars
  PROVE  LostInv'
<1> USE DEF BuildInv
<1>1. CASE ReadActions
  <2>1. UNCHANGED <<awaiting, vm, task, vmAcked, createLost>> /\ ReadMoves
    BY <1>1, ReadsFrame DEF ReadFrame
  <2>2. pc # "create" /\ (pc' \in PathSteps => pc \in PathSteps)
    BY <2>1 DEF ReadMoves, PathSteps, MainSteps
  <2> QED
    BY <2>1, <2>2 DEF LostInv, Mine
<1>2. CASE UploadActions
  <2>1. UNCHANGED <<awaiting, vm, task, vmAcked, createLost>> /\ pc \in {"upload", "uploadHost"}
    BY <1>2, UploadMoves
  <2>2. pc # "create" /\ pc \in PathSteps
    BY <2>1 DEF PathSteps, MainSteps
  <2> QED
    BY <2>1, <2>2 DEF LostInv, Mine
<1>3. CASE CreateVM
  <2>1. pc = "create" /\ vm' = vm /\ ~createLost /\ ~vmAcked
    BY <1>3, CreateMoves, CallFrame DEF LostInv, PathSteps, MainSteps, HandleInv, BeforeCreate,
       AfterCreate, Ops
  <2>2. Mine => task["create"] = "ok" /\ awaiting
    BY <2>1 DEF LostInv, AwaitInv, Ops
  <2>3. CASE Submit("create") /\ UNCHANGED <<pc, handle, vmAcked, createLost>>
    <3>1. awaiting' /\ ~awaiting
      BY <2>3 DEF Submit
    <3> QED
      BY <2>1, <2>2, <2>3, <3>1 DEF LostInv, Mine
  <2>4. CASE vmAcked' = TRUE /\ UNCHANGED createLost /\ task'["create"] = "idle"
    BY <2>1, <2>4 DEF LostInv
  <2>5. CASE /\ pc' = "discardISO"
             /\ createLost' = (task'["create"] = "queued" \/ task["create"] = "ok")
    BY <2>1, <2>2, <2>5 DEF LostInv, Mine, PathSteps
  <2> QED
    BY <1>3, <2>3, <2>4, <2>5, CreateMoves
<1>4. CASE VMStepActions
  <2>1. PICK step \in VMOps \ {"create"} : VMStep(step, NextOp(step))
    BY <1>4 DEF VMStepActions
  <2>2. pc = step /\ task'["create"] = task["create"] /\ UNCHANGED <<vmAcked, createLost>>
    BY <2>1, VMStepMoves, CallEffect DEF Ops
  <2>3. vmAcked /\ ~createLost /\ task["create"] = "idle"
    BY <2>2 DEF HandleInv, LostInv, AfterCreate, PathSteps, MainSteps, VMOps
  <2> QED
    BY <2>2, <2>3 DEF LostInv
<1>5. CASE DeleteActions
  <2>1. vm' = vm /\ UNCHANGED <<vmAcked, createLost>> /\ task'["create"] = task["create"]
    BY <1>5, DeleteMoves, DeleteEffect DEF Ops
  <2>2. pc # "create" /\ (pc' \in PathSteps => pc \in PathSteps)
    BY <1>5, DeleteMoves, DeletesMove DEF DeleteSteps, DeleteThen, DeleteFailedThen, PathSteps,
       MainSteps
  <2> QED
    BY <2>1, <2>2 DEF LostInv, Mine
<1>6. CASE CleanupCalls
  <2>1. vm' = vm /\ UNCHANGED <<vmAcked, createLost>> /\ task'["create"] = task["create"]
    BY <1>6, CleanupMoves, CallFrame, CallEffect DEF Ops
  <2>2. pc # "create" /\ pc' \notin PathSteps
    BY <1>6, CleanupMoves DEF PathSteps, MainSteps
  <2> QED
    BY <2>1, <2>2 DEF LostInv, Mine
<1>7. CASE TaskActions
  <2>1. PICK op \in Ops : TaskRuns(op) \/ TaskFails(op)
    BY <1>7 DEF TaskActions
  <2>2. UNCHANGED <<pc, awaiting, vmAcked, createLost>> /\ task[op] = "queued"
    BY <2>1, TaskEffect
  <2>3. CASE op = "create"
    <3>1. CASE createLost
      BY <2>2, <3>1 DEF LostInv, PathSteps
    <3>2. CASE pc = "create" /\ awaiting
      <4>1. /\ OpOf(pc) = "create" /\ task'["create"] # "queued"
            /\ Mine' => task'["create"] = "ok" \/ Mine
        BY <2>1, <2>3, <3>2, TaskEffect DEF OpOf, Mine
      <4> QED
        BY <2>2, <2>3, <3>2, <4>1 DEF LostInv
    <3> QED
      BY <2>2, <2>3, <3>1, <3>2 DEF LostInv
  <2>4. CASE op # "create"
    <3>1. task'["create"] = task["create"]
      BY <2>1, <2>4, TaskEffect DEF Ops
    <3>2. Mine' => Mine
      BY <2>1, <2>4, TaskEffect, OwnerEffect DEF Mine
    <3> QED
      BY <2>2, <3>1, <3>2 DEF LostInv
  <2> QED
    BY <2>3, <2>4
<1>8. CASE OtherActions
  <2>1. UNCHANGED <<pc, awaiting, task, vmAcked, createLost>>
    BY <1>8, OthersMove
  <2> QED
    BY <1>8, <2>1, MineKept DEF LostInv
<1> QED
  BY <1>1, <1>2, <1>3, <1>4, <1>5, <1>6, <1>7, <1>8, NextInGroups

\* The ISO is on the datastore from the upload to its deletion, and the flags say
\* so on every path.
LEMMA ISOStep ==
  ASSUME TypeOK, BuildInv, [Next]_vars
  PROVE  ISOInv'
<1> USE DEF BuildInv, FileInv
<1>1. CASE ReadActions
  <2>1. /\ UNCHANGED <<awaiting, recorded, isoDeleted, completed, iso, task, vmAcked>>
        /\ ReadMoves /\ ~awaiting
    BY <1>1, ReadsFrame DEF ReadFrame, AwaitInv
  <2>2. /\ pc' \in BeforeUpload => pc \in BeforeUpload
        /\ pc' \in AfterUpload => pc \in AfterUpload \ {"deleteISO", "deleteLog"}
        /\ pc' \notin {"discardISO", "deleteLog", "cDeleteLog", "cLogout"}
        /\ pc' = "cleaned" => pc = "cLogout" /\ warned' = warned
    BY <1>1, <2>1, ReadsFrame DEF ReadFrame, ReadMoves, BeforeUpload, AfterUpload, AfterCreate
  <2> QED
    BY <2>1, <2>2 DEF ISOInv
<1>2. CASE UploadActions
  <2>1. pc \in {"upload", "uploadHost"} /\ pc' \in {"create", "uploadHost", "return"}
    BY <1>2, UploadMoves
  <2>2. UNCHANGED <<awaiting, isoDeleted, completed, task, vmAcked>>
    BY <1>2, UploadMoves
  <2>3. ~isoDeleted /\ ~completed /\ ~vmAcked /\ task["deleteISO"] = "idle"
    BY <2>1 DEF ISOInv, BeforeUpload, PathInv
  <2>4. pc' = "create" => recorded' /\ iso'
    BY <1>2, UploadMoves
  <2>5. pc' # "create" => ~recorded'
    BY <1>2, <2>1, UploadMoves DEF ISOInv, BeforeUpload
  <2> QED
    BY <2>1, <2>2, <2>3, <2>4, <2>5 DEF ISOInv, BeforeUpload, AfterUpload, AfterCreate
<1>3. CASE CreateVM
  <2>1. pc = "create" /\ pc' \in {"create", "powerOn", "discardISO"}
    BY <1>3, CreateMoves
  <2>2. UNCHANGED <<recorded, isoDeleted, completed, iso>>
    BY <1>3, CreateMoves, CallFrame DEF Ops
  <2>3. task'["deleteISO"] = task["deleteISO"]
    BY <1>3, CreateMoves, CallEffect DEF Ops
  <2>4. recorded /\ iso /\ ~isoDeleted /\ ~completed
    BY <2>1 DEF ISOInv, AfterUpload, PathInv
  <2> QED
    BY <2>1, <2>2, <2>3, <2>4 DEF ISOInv, BeforeUpload, AfterUpload, AfterCreate
<1>4. CASE VMStepActions
  <2>1. PICK step \in VMOps \ {"create"} : VMStep(step, NextOp(step))
    BY <1>4 DEF VMStepActions
  <2>2. /\ pc \in AfterUpload \ {"deleteISO", "deleteLog"}
        /\ pc' \in (AfterUpload \ {"deleteLog"}) \cup {"announce"}
    BY <2>1, VMStepMoves DEF AfterUpload, AfterCreate, VMOps, NextOp, AfterHardware
  <2>3. UNCHANGED <<recorded, isoDeleted, completed, iso>>
    BY <2>1, VMStepMoves, CallFrame
  <2>4. task'["deleteISO"] = task["deleteISO"]
    BY <2>1, VMStepMoves, CallEffect DEF Ops, VMOps
  <2>5. recorded /\ iso /\ ~isoDeleted /\ ~completed
    BY <2>2 DEF ISOInv, AfterUpload, AfterCreate, PathInv
  <2> QED
    BY <2>2, <2>3, <2>4, <2>5 DEF ISOInv, BeforeUpload, AfterUpload, AfterCreate
<1>5. CASE DeleteActions
  <2>1. /\ iso' = iso /\ UNCHANGED <<recorded, vmAcked>> /\ pc \in DeleteSteps
        /\ OpOf(pc) = (IF pc \in {"deleteLog", "cDeleteLog"} THEN "deleteLog" ELSE "deleteISO")
    BY <1>5, DeleteMoves, DeleteEffect
  <2>2. /\ pc \in {"deleteLog", "cDeleteLog"} => task'["deleteISO"] = task["deleteISO"]
        /\ task'["deleteISO"] \in {task["deleteISO"], "idle", "queued"}
    BY <1>5, <2>1, DeleteEffect DEF Ops
  <2> USE DEF DeleteSteps, BeforeUpload, AfterUpload, AfterCreate
  <2>3. CASE Skips(OpOf(pc))
    <3>1. /\ UNCHANGED <<awaiting, task, isoDeleted, completed, warned>> /\ ~awaiting
          /\ pc' \in {"announce", "cDeleteLog", "cLogout"}
          /\ pc' = "cDeleteLog" => ~ISOToDelete
          /\ pc' = "cLogout" => pc = "cDeleteLog"
      BY <2>1, <2>3 DEF Skips, DeleteThen
    <3>2. pc' \in {"cDeleteLog", "cLogout"} /\ ~warned' /\ recorded' => ~iso'
      BY <2>1, <3>1 DEF ISOInv, ISOToDelete
    <3> QED
      BY <2>1, <3>1, <3>2 DEF ISOInv
  <2>4. CASE Asks(OpOf(pc))
    <3>1. UNCHANGED <<pc, isoDeleted, completed, warned>> /\ (pc = "cDeleteISO" => ISOToDelete)
      BY <2>4 DEF Asks
    <3>2. /\ task'["deleteISO"] # "idle" => recorded
          /\ task'["deleteISO"] \in {"ok", "missing"} => ~iso
      BY <2>1, <2>2, <3>1 DEF ISOInv, ISOToDelete
    <3> QED
      BY <2>1, <3>1, <3>2 DEF ISOInv, ISOToDelete
  <2>5. CASE Deletes(OpOf(pc))
    <3>1. /\ isoDeleted' <=> isoDeleted \/ OpOf(pc) = "deleteISO"
          /\ completed' <=> completed \/ pc = "deleteLog"
          /\ pc' \in {"announce", "deleteLog", "cDeleteLog", "cLogout"}
          /\ pc' = "cLogout" => pc = "cDeleteLog"
          /\ pc' \in {"deleteLog", "cDeleteLog"} => OpOf(pc) = "deleteISO"
          /\ warned' = warned
      BY <2>1, <2>5 DEF Deletes, DeleteThen
    <3>2. ~awaiting' /\ task'[OpOf(pc)] = "idle" /\ task[OpOf(pc)] \in {"ok", "missing"}
      BY <1>5, <2>5, DeleteEffect
    <3>3. CASE OpOf(pc) = "deleteISO"
      <4>1. recorded /\ ~iso /\ task'["deleteISO"] = "idle" /\ isoDeleted'
        BY <3>1, <3>2, <3>3 DEF ISOInv
      <4> QED
        BY <2>1, <3>1, <3>2, <4>1 DEF ISOInv
    <3>4. CASE OpOf(pc) = "deleteLog"
      BY <2>1, <2>2, <3>1, <3>2, <3>4 DEF ISOInv
    <3> QED
      BY <2>1, <3>3, <3>4
  <2>6. CASE Keeps(OpOf(pc))
    <3>1. /\ UNCHANGED <<isoDeleted, completed>>
          /\ pc' \in {"announce", "cDeleteLog", "cLogout"}
          /\ pc = "cDeleteISO" => ISOToDelete
          /\ pc' \in {"cDeleteLog", "cLogout"} => warned'
      BY <2>1, <2>6 DEF Keeps, DeleteFailedThen
    <3>2. /\ task'["deleteISO"] # "idle" => recorded
          /\ task'["deleteISO"] \in {"ok", "missing"} => ~iso
      BY <2>1, <2>2, <3>1 DEF ISOInv, ISOToDelete
    <3> QED
      BY <2>1, <3>1, <3>2 DEF ISOInv
  <2> QED
    BY <1>5, <2>3, <2>4, <2>5, <2>6, DeleteMoves
<1>6. CASE CleanupCalls
  <2>1. /\ iso' = iso /\ UNCHANGED <<recorded, isoDeleted, completed, vmAcked>>
        /\ task'["deleteISO"] = task["deleteISO"]
    BY <1>6, CleanupMoves, CallFrame, CallEffect DEF Ops
  <2>2. pc' \in {"cPowerOff", "cDestroy", "cDeleteISO"} /\ (awaiting' => pc' # "cDeleteISO")
    BY <1>6, CleanupMoves, CallEffect
  <2> QED
    BY <2>1, <2>2 DEF ISOInv, BeforeUpload, AfterUpload, AfterCreate
<1>7. CASE TaskActions
  <2>1. PICK op \in Ops : TaskRuns(op) \/ TaskFails(op)
    BY <1>7 DEF TaskActions
  <2>2. UNCHANGED <<pc, awaiting, recorded, isoDeleted, completed, warned, vmAcked>>
    BY <2>1, TaskEffect
  <2>3. iso' => iso
    BY <2>1, TaskEffect DEF Execute
  <2>4. CASE op = "deleteISO"
    <3>1. /\ task["deleteISO"] = "queued"
          /\ task'["deleteISO"] \in {"ok", "missing"} => ~iso'
      BY <2>1, <2>4, TaskEffect DEF Execute
    <3>2. pc \in AfterUpload => pc \in {"deleteISO", "deleteLog"}
      BY <2>4, <3>1 DEF PathInv, PathSteps, MainSteps, AfterUpload, AfterCreate, OpOf, Ops
    <3> QED
      BY <2>2, <2>3, <3>1, <3>2 DEF ISOInv, ISOToDelete
  <2>5. CASE op # "deleteISO"
    <3>1. task'["deleteISO"] = task["deleteISO"] /\ (iso => iso')
      BY <2>1, <2>5, TaskEffect DEF Execute, Ops
    <3> QED
      BY <2>2, <2>3, <3>1 DEF ISOInv, ISOToDelete
  <2> QED
    BY <2>4, <2>5
<1>8. CASE OtherActions
  <2>1. UNCHANGED <<pc, awaiting, recorded, isoDeleted, completed, warned, iso, task, vmAcked>>
    BY <1>8, OthersMove
  <2> QED
    BY <2>1 DEF ISOInv, ISOToDelete
<1> QED
  BY <1>1, <1>2, <1>3, <1>4, <1>5, <1>6, <1>7, <1>8, NextInGroups

\* Only a VM that is powered on opens its console log.
LEMMA LogEffect ==
  ASSUME TypeOK, NEW op \in Ops, TaskRuns(op) \/ TaskFails(op)
  PROVE  /\ log' => log \/ (op = "powerOn" /\ Ours /\ Execute(op))
         /\ op = "deleteLog" /\ task'[op] \in {"ok", "missing"} => ~log'
<1>1. Execute(op) => (log' => log \/ (op = "powerOn" /\ Ours))
  BY DEF Execute, Applies
<1>2. Execute("deleteLog") => ~log'
  BY DEF Execute
<1> QED
  BY <1>1, <1>2, TaskEffect

\* The console log outlives a failed build and no finished one.
LEMMA LogStep ==
  ASSUME TypeOK, BuildInv, [Next]_vars
  PROVE  LogInv'
<1> USE DEF BuildInv, FileInv
<1>1. CASE ReadActions
  <2>1. /\ UNCHANGED <<awaiting, recorded, logDeleted, completed, log, task>>
        /\ ReadMoves /\ ~awaiting
    BY <1>1, ReadsFrame DEF ReadFrame, AwaitInv
  <2>2. /\ pc \notin {"deleteLog", "cleaned"} /\ pc' # "deleteLog"
        /\ pc \in {"cLogout", "cleaned"} => pc' \in {"cLogout", "cleaned"}
    BY <2>1 DEF ReadMoves
  <2>3. task["deleteLog"] \notin {"ok", "missing"}
    BY <2>1 DEF AwaitInv, Ops
  <2> QED
    BY <2>1, <2>2, <2>3 DEF LogInv
<1>2. CASE UploadActions
  <2>1. pc \in {"upload", "uploadHost"} /\ pc' \in {"create", "uploadHost", "return"}
    BY <1>2, UploadMoves
  <2>2. UNCHANGED <<awaiting, logDeleted, completed, log, task, handle>>
    BY <1>2, UploadMoves
  <2>3. ~log /\ ~completed /\ ~logDeleted
    BY <2>1 DEF LogInv, ISOInv, BeforeUpload, PathInv
  <2> QED
    BY <2>1, <2>2, <2>3 DEF LogInv
<1>3. CASE CreateVM
  <2>1. pc = "create" /\ pc' \in {"create", "powerOn", "discardISO"}
    BY <1>3, CreateMoves
  <2>2. UNCHANGED <<recorded, logDeleted, completed, log>>
    BY <1>3, CreateMoves, CallFrame DEF Ops
  <2>3. task'["deleteLog"] = "idle"
    BY <1>3, <2>1, CreateMoves, CallEffect DEF Ops, PathInv, PathSteps, MainSteps
  <2> QED
    BY <2>1, <2>2, <2>3 DEF LogInv
<1>4. CASE VMStepActions
  <2>1. PICK step \in VMOps \ {"create"} : VMStep(step, NextOp(step))
    BY <1>4 DEF VMStepActions
  <2>2. pc \in VMOps \ {"create"} /\ pc' \notin {"deleteLog", "cDeleteLog", "cLogout", "cleaned"}
    BY <2>1, VMStepMoves DEF VMOps, NextOp, AfterHardware
  <2>3. UNCHANGED <<handle, recorded, logDeleted, completed, log>>
    BY <2>1, VMStepMoves, CallFrame
  <2>4. task'["deleteLog"] = task["deleteLog"]
    BY <2>1, VMStepMoves, CallEffect DEF Ops, VMOps
  <2> QED
    BY <2>2, <2>3, <2>4 DEF LogInv, VMOps
<1>5. CASE DeleteActions
  <2>1. /\ log' = log /\ UNCHANGED <<recorded, handle>> /\ pc \in DeleteSteps
        /\ OpOf(pc) = (IF pc \in {"deleteLog", "cDeleteLog"} THEN "deleteLog" ELSE "deleteISO")
    BY <1>5, DeleteMoves, DeleteEffect
  <2>2. /\ pc \notin {"deleteLog", "cDeleteLog"} => task'["deleteLog"] = task["deleteLog"]
        /\ pc \in {"deleteLog", "cDeleteLog"} => task'["deleteLog"] \in {"idle", "queued"}
    BY <1>5, <2>1, DeleteEffect DEF Ops
  <2>3. pc # "deleteLog" /\ task["deleteLog"] = "ok" => pc = "cDeleteLog"
    BY <2>1 DEF AwaitInv, OpOf, Ops, DeleteSteps
  <2>4. CASE Skips(OpOf(pc)) \/ Asks(OpOf(pc)) \/ Keeps(OpOf(pc))
    <3>1. pc' # "deleteLog" \/ pc' = pc
      BY <2>1, <2>4 DEF Skips, Asks, Keeps, DeleteThen, DeleteFailedThen, DeleteSteps
    <3>2. UNCHANGED <<logDeleted, completed>>
      BY <2>4 DEF Skips, Asks, Keeps
    <3>3. awaiting' /\ pc' = "cDeleteLog" => LogToDelete'
      <4>1. CASE Asks(OpOf(pc))
        BY <2>1, <3>2, <4>1 DEF Asks, LogToDelete
      <4>2. CASE Skips(OpOf(pc)) \/ Keeps(OpOf(pc))
        BY <1>5, <4>2, DeleteEffect
      <4> QED
        BY <2>4, <4>1, <4>2
    <3>4. pc' = "deleteLog" => task'["deleteLog"] # "ok"
      BY <2>1, <2>2, <3>1 DEF DeleteSteps, Skips
    <3> QED
      BY <2>1, <2>2, <3>2, <3>3, <3>4 DEF LogInv, DeleteSteps
  <2>5. CASE Deletes(OpOf(pc))
    <3>1. /\ logDeleted' <=> logDeleted \/ OpOf(pc) = "deleteLog"
          /\ completed' <=> completed \/ pc = "deleteLog"
          /\ pc = "deleteLog" => task["deleteLog"] = "ok"
          /\ pc' = "deleteLog" => pc = "deleteISO"
          /\ pc = "cDeleteLog" => pc' = "cLogout"
      BY <2>1, <2>5 DEF Deletes, DeleteThen, DeleteSteps
    <3>2. ~awaiting'
      BY <1>5, <2>5, DeleteEffect
    <3> QED
      BY <2>1, <2>2, <2>3, <3>1, <3>2 DEF LogInv, DeleteSteps
  <2> QED
    BY <1>5, <2>4, <2>5, DeleteMoves
<1>6. CASE CleanupCalls
  <2>1. /\ log' = log /\ UNCHANGED <<recorded, logDeleted, completed>>
        /\ task'["deleteLog"] = task["deleteLog"]
    BY <1>6, CleanupMoves, CallFrame, CallEffect DEF Ops
  <2>2. pc \in {"cPowerOff", "cDestroy"} /\ pc' \in {"cPowerOff", "cDestroy", "cDeleteISO"}
    BY <1>6, CleanupMoves
  <2>3. task["deleteLog"] \notin {"ok", "missing"}
    BY <2>2 DEF AwaitInv, OpOf, Ops
  <2> QED
    BY <2>1, <2>2, <2>3 DEF LogInv
<1>7. CASE TaskActions
  <2>1. PICK op \in Ops : TaskRuns(op) \/ TaskFails(op)
    BY <1>7 DEF TaskActions
  <2>2. UNCHANGED <<pc, awaiting, handle, recorded, logDeleted, completed>> /\ task[op] =
                    "queued"
    BY <2>1, TaskEffect
  <2>3. ~recorded => ~log'
    <3>1. op = "powerOn" => recorded
      BY <2>2 DEF HandleInv, ISOInv, VMOps
    <3> QED
      BY <2>1, <3>1, LogEffect DEF LogInv
  <2>4. ~completed
    BY <2>2 DEF PathInv, AwaitInv, CallSteps, VMOps
  <2>5. pc = "deleteLog" => op = "deleteLog"
    BY <2>2 DEF PathInv, PathSteps, MainSteps, OpOf
  <2>6. handle = "none" /\ log' => log
    BY <2>1, LogEffect DEF Ours
  <2>7. op # "deleteLog" => task'["deleteLog"] = task["deleteLog"]
    BY <2>1, TaskEffect DEF Ops
  <2>8. op = "deleteLog" /\ task'["deleteLog"] \in {"ok", "missing"} => ~log'
    BY <2>1, LogEffect
  <2> QED
    BY <2>2, <2>3, <2>4, <2>5, <2>6, <2>7, <2>8 DEF LogInv, LogToDelete
<1>8. CASE OtherActions
  <2>1. UNCHANGED <<pc, awaiting, handle, recorded, logDeleted, completed, log, task>>
    BY <1>8, OthersMove
  <2> QED
    BY <2>1 DEF LogInv, LogToDelete
<1> QED
  BY <1>1, <1>2, <1>3, <1>4, <1>5, <1>6, <1>7, <1>8, NextInGroups

-----------------------------------------------------------------------------
(* The VM from one operation to the next.                                  *)

Shapes == VMOps \cup AfterCreate

\* An operation that meets the VM as the build left it makes of it what the
\* next one needs.
LEMMA RunsToNext ==
  ASSUME TypeOK, NEW op \in VMOps, Execute(op), Before(op), template' = template,
         op # "create" => Mine, op = "template" => template
  PROVE  Before(NextOp(op))'
<1> USE DEF Installing, Bare, Execute, TypeOK
<1>0. op \in Ops /\ vm' = VMAfter(op)
  BY DEF VMOps, Ops
<1>1. CASE op = "create"
  BY <1>0, <1>1, VMConstants DEF VMAfter, Before, NextOp
<1>2. CASE op = "powerOn"
  BY <1>0, <1>2, VMEffect DEF Before, NextOp
<1>3. CASE op = "finalize"
  BY <1>0, <1>3, VMEffect DEF Before, NextOp
<1>4. CASE op = "hardware"
  <2>1. Bare' /\ vm'.sized /\ vm'.owner = "ours"
    BY <1>0, <1>4, VMEffect DEF Before, Mine
  <2>2. vm'.template = FALSE
    BY <1>0, <1>4, <2>1, VMEffect DEF VMs
  <2>3. CASE template
    BY <1>4, <2>1, <2>3 DEF Before, NextOp, AfterHardware
  <2>4. CASE ~template
    BY <1>4, <2>1, <2>2, <2>4 DEF Before, NextOp, AfterHardware, Finished
  <2> QED
    BY <2>3, <2>4
<1>5. CASE op = "template"
  <2>1. vm'.template = TRUE
    BY <1>0, <1>5, VMEffect DEF VMs
  <2>2. template' = TRUE
    BY <1>5
  <2> QED
    BY <1>0, <1>5, <2>1, <2>2, VMEffect DEF Before, NextOp, Finished, Mine
<1> QED
  BY <1>1, <1>2, <1>3, <1>4, <1>5 DEF VMOps

\* The VM as it was, or powered off, or gone, meets the same expectations.
ShapesKept ==
  /\ template' = template
  /\ \A op \in Shapes : Mine' => Mine /\ (Before(op) => Before(op)')

\* A step that leaves the VM alone leaves every shape of it.
LEMMA SameVMKeepsShapes ==
  ASSUME vm' = vm, template' = template
  PROVE  ShapesKept /\ (Finished' <=> Finished)
  BY DEF ShapesKept, Mine, Before, Installing, Bare, Finished

\* A power-off, by the guest or by the cleanup, takes nothing away that was
\* reached.
LEMMA PowerOffKeepsShapes ==
  ASSUME TypeOK, vm' = [vm EXCEPT !.on = FALSE], template' = template
  PROVE  ShapesKept /\ (Finished => Finished')
<1>1. /\ vm'.owner = vm.owner /\ vm'.on = FALSE /\ vm'.booted = vm.booted
      /\ vm'.installer = vm.installer /\ vm'.serial = vm.serial /\ vm'.sized = vm.sized
      /\ vm'.diskBoot = vm.diskBoot /\ vm'.template = vm.template
  BY DEF TypeOK, VMs
<1>2. Finished => Finished'
  BY <1>1 DEF Finished
<1>3. ASSUME NEW op \in Shapes, Before(op) PROVE Before(op)'
  BY <1>1, <1>2, <1>3 DEF Before, Installing, Bare
<1> QED
  BY <1>1, <1>2, <1>3 DEF ShapesKept, Mine

\* A task that only the cleanup starts, or that deletes a file.
LEMMA OtherTasksKeepShapes ==
  ASSUME TypeOK, NEW op \in Ops \ VMOps, TaskRuns(op) \/ TaskFails(op)
  PROVE  ShapesKept /\ (op # "destroy" => (Finished => Finished'))
<1>1. template' = template
  BY TaskEffect
<1>2. CASE vm' = vm
  BY <1>1, <1>2, SameVMKeepsShapes
<1>3. CASE vm' # vm
  <2>1. Execute(op)
    BY <1>3, TaskEffect
  <2>2. op \in {"powerOff", "destroy"}
    BY <1>3, <2>1 DEF Execute, VMAfter, Ops, VMOps
  <2>3. CASE op = "powerOff"
    BY <1>1, <2>1, <2>3, PowerOffKeepsShapes DEF Execute, VMAfter
  <2>4. CASE op = "destroy"
    BY <1>1, <2>1, <2>4, VMConstants DEF Execute, VMAfter, ShapesKept, Mine
  <2> QED
    BY <2>2, <2>3, <2>4
<1> QED
  BY <1>2, <1>3

\* The steps of others: nothing, a power-off, or a foreign VM where none was.
LEMMA OthersKeepShapes ==
  ASSUME TypeOK, OtherActions
  PROVE  ShapesKept /\ (Finished => Finished')
<1>1. template' = template
  BY OthersMove
<1>2. CASE vm' = vm
  BY <1>1, <1>2, SameVMKeepsShapes
<1>3. CASE vm.owner = "none" /\ vm' = ForeignVM
  BY <1>1, <1>3, VMConstants DEF ShapesKept, Mine, Finished
<1>4. CASE vm' = [vm EXCEPT !.on = FALSE]
  BY <1>1, <1>4, PowerOffKeepsShapes
<1> QED
  BY <1>2, <1>3, <1>4, OthersMove

\* ShapeInv for a step that starts no operation on the VM and reaches none.
LEMMA ShapeFrame ==
  ASSUME TypeOK, ShapeInv, ShapesKept,
         \A op \in VMOps : task'[op] = task[op] \/ task'[op] = "idle",
         pc' \in AfterCreate => pc' = pc /\ awaiting' = awaiting
  PROVE  ShapeInv'
<1>1. \A op \in VMOps : NextOp(op)' = NextOp(op) /\ op \in Shapes /\ NextOp(op) \in Shapes
  BY DEF Shapes, VMOps, NextOp, AfterHardware, ShapesKept, AfterCreate
<1>2. \A op \in VMOps : task'[op] = "queued" /\ Mine' => Before(op)'
  BY <1>1 DEF ShapeInv, ShapesKept
<1>3. \A op \in VMOps : task'[op] = "ok" /\ Mine' => Before(NextOp(op))'
  <2> SUFFICES ASSUME NEW op \in VMOps, task'[op] = "ok", Mine'
               PROVE  Before(NextOp(op))'
    OBVIOUS
  <2>1. Before(NextOp(op)) /\ NextOp(op) \in Shapes
    BY <1>1 DEF ShapeInv, ShapesKept
  <2>2. PICK next \in Shapes : next = NextOp(op) /\ next = NextOp(op)'
    BY <1>1
  <2>3. Before(next)'
    BY <2>1, <2>2 DEF ShapesKept
  <2> QED
    BY <2>2, <2>3 DEF Before
<1>4. \A op \in AfterCreate : pc' = op /\ ~awaiting' /\ Mine' => Before(op)'
  BY DEF ShapeInv, ShapesKept, Shapes
<1> QED
  BY <1>2, <1>3, <1>4 DEF ShapeInv

\* A task leaves a finished VM finished, unless the cleanup destroys it.
LEMMA FinishedSurvivesTasks ==
  ASSUME TypeOK, BuildInv, NEW op \in Ops, TaskRuns(op) \/ TaskFails(op), Finished
  PROVE  \/ Finished'
         \/ op = "destroy" /\ Execute(op) /\ InCleanup /\ signalled /\ ~completed
<1> USE DEF BuildInv
<1>0. template' = template /\ task[op] = "queued"
  BY TaskEffect
<1>1. CASE vm' = vm
  BY <1>0, <1>1, SameVMKeepsShapes
<1>2. CASE Execute(op) /\ op = "destroy"
  BY <1>0, <1>2 DEF PathInv
<1>3. CASE op \in Ops \ (VMOps \cup {"destroy"})
  BY <1>3, OtherTasksKeepShapes
<1>4. CASE op \in VMOps /\ Execute(op)
  <2>1. Mine /\ op # "create"
    BY <1>4 DEF Finished, Mine, Execute, Applies
  <2>2. Before(op) /\ (op = "template" => template)
    BY <1>0, <1>4, <2>1 DEF ShapeInv, DoneInv
  <2>3. op = "hardware"
    <3>1. ~vm.installer /\ vm.template = template
      BY DEF Finished
    <3> QED
      BY <1>4, <2>1, <2>2, <3>1 DEF Before, Installing, Bare, VMOps
  <2>4. vm' = VMAfter("hardware") /\ "hardware" \in Ops \ {"create", "destroy"} /\ vm \in VMs
    BY <1>4, <2>3 DEF Execute, Ops, TypeOK
  <2>5. vm'.template = vm.template
    <3>1. vm'.template <=> vm.template
      BY <2>4, VMEffect
    <3> QED
      BY <2>4, <3>1, VMEffect DEF VMs
  <2> QED
    BY <1>0, <2>4, <2>5, VMEffect DEF Finished
<1> QED
  BY <1>1, <1>2, <1>3, <1>4, TaskEffect

\* Every task meets the VM it was submitted for.
LEMMA ShapeStep ==
  ASSUME TypeOK, BuildInv, [Next]_vars
  PROVE  ShapeInv'
<1> USE DEF BuildInv
<1>1. CASE ReadActions
  <2>1. UNCHANGED <<template, awaiting, vm, task>> /\ ReadMoves /\ ~awaiting
    BY <1>1, ReadsFrame DEF ReadFrame, AwaitInv
  <2>2. ShapesKept
    BY <2>1, SameVMKeepsShapes
  <2>3. CASE pc' \notin AfterCreate
    BY <2>1, <2>2, <2>3, ShapeFrame
  <2>4. CASE pc' \in AfterCreate
    <3>1. \/ pc = "waitOff" /\ pc' = "finalize" /\ ~vm.on
          \/ pc = "verify" /\ pc' = "hardware"
      BY <2>1, <2>4 DEF ReadMoves, AfterCreate
    <3>2. Mine => Before(pc)
      BY <2>1, <3>1 DEF ShapeInv, AfterCreate
    <3>3. /\ pc' = "finalize" /\ Mine => Before("finalize")'
          /\ pc' = "hardware" /\ Mine => Before("hardware")'
      BY <2>1, <3>1, <3>2 DEF Before, Installing, Bare
    <3>4. \A op \in AfterCreate : pc' = op /\ ~awaiting' /\ Mine' => Before(op)'
      BY <2>1, <3>1, <3>3 DEF Mine
    <3>5. \A op \in VMOps : /\ task'[op] = "queued" /\ Mine' => Before(op)'
                            /\ task'[op] = "ok" /\ Mine' => Before(NextOp(op))'
      <4>1. \A op \in VMOps : NextOp(op)' = NextOp(op)
        BY <2>1 DEF NextOp, AfterHardware
      <4> QED
        BY <2>1, <4>1 DEF ShapeInv, Before, Installing, Bare, Finished, Mine
    <3> QED
      BY <3>4, <3>5 DEF ShapeInv
  <2> QED
    BY <2>3, <2>4
<1>2. CASE UploadActions
  <2>1. UNCHANGED <<template, vm, task>> /\ pc' \in {"create", "uploadHost", "return"}
    BY <1>2, UploadMoves
  <2> QED
    BY <2>1, SameVMKeepsShapes, ShapeFrame DEF AfterCreate
<1>3. CASE CreateVM
  <2>1. /\ pc' \in {"create", "powerOn", "discardISO"} /\ vm' = vm /\ template' = template
        /\ pc' = "powerOn" => task["create"] = "ok"
        /\ \A op \in Ops : op # "create" => task'[op] = task[op]
        /\ task'["create"] \in {"idle", "queued"}
    BY <1>3, CreateMoves, CallFrame, CallEffect DEF Ops
  <2>2. \A op \in VMOps \ {"create"} : task'[op] = "idle"
    BY <1>3, <2>1, CreateMoves DEF PathInv, PathSteps, MainSteps, Ops, VMOps
  <2>3. pc' = "powerOn" /\ Mine' => Before("powerOn")'
    BY <2>1 DEF ShapeInv, NextOp, VMOps, Before, Installing, Mine
  <2>4. Before("create")'
    BY DEF Before
  <2> QED
    BY <2>1, <2>2, <2>3, <2>4 DEF ShapeInv, AfterCreate
<1>4. CASE VMStepActions
  <2>1. PICK step \in VMOps \ {"create"} : VMStep(step, NextOp(step))
    BY <1>4 DEF VMStepActions
  <2>2. /\ pc = step /\ step = OpOf(pc) /\ step \in Ops /\ step \in AfterCreate
        /\ vm' = vm /\ template' = template
        /\ \A op \in Ops : op # step => task'[op] = task[op]
        /\ task'[step] \in {"idle", "queued"}
        /\ task'[step] = "queued" => ~awaiting \/ task[step] = "queued"
    BY <2>1, VMStepMoves, CallFrame, CallEffect DEF AfterCreate, VMOps
  <2>3. \A op \in VMOps \ {step} : task'[op] = "idle"
    BY <2>2 DEF PathInv, PathSteps, MainSteps, Ops, VMOps
  <2>4. ShapesKept
    BY <2>2, SameVMKeepsShapes
  <2>5. task'[step] = "queued" /\ Mine' => Before(step)'
    BY <2>2, <2>4 DEF ShapeInv, ShapesKept, Shapes
  <2>6. \A op \in VMOps : /\ task'[op] = "queued" /\ Mine' => Before(op)'
                          /\ task'[op] = "ok" /\ Mine' => Before(NextOp(op))'
    BY <2>2, <2>3, <2>5
  <2>7. \A op \in AfterCreate : pc' = op /\ ~awaiting' /\ Mine' => Before(op)'
    <3>1. CASE Submit(step)
      BY <3>1 DEF Submit
    <3>2. CASE pc' = NextOp(step) /\ task[step] = "ok"
      <4>1. Mine => Before(NextOp(step))
        BY <3>2 DEF ShapeInv
      <4>2. NextOp(step) \in Shapes
        BY DEF NextOp, AfterHardware, Shapes, AfterCreate, VMOps
      <4> QED
        BY <2>4, <3>2, <4>1, <4>2 DEF ShapesKept
    <3>3. CASE pc' = "announce"
      BY <3>3 DEF AfterCreate
    <3> QED
      BY <2>1, <3>1, <3>2, <3>3, VMStepMoves
  <2> QED
    BY <2>6, <2>7 DEF ShapeInv
<1>5. CASE DeleteActions
  <2>1. /\ UNCHANGED <<template, vm>> /\ \A o \in VMOps : task'[o] = task[o]
        /\ pc' \in {pc, DeleteThen(pc), DeleteFailedThen(pc)} /\ pc \in DeleteSteps
    BY <1>5, DeleteMoves, DeletesMove, DeleteEffect DEF Ops, VMOps
  <2>2. CASE pc' \notin AfterCreate
    BY <2>1, <2>2, SameVMKeepsShapes, ShapeFrame
  <2>3. CASE pc' \in AfterCreate
    <3>1. pc \in {"deleteISO", "deleteLog"} /\ pc' \in {"deleteISO", "deleteLog"}
      BY <2>1, <2>3 DEF DeleteSteps, DeleteThen, DeleteFailedThen, AfterCreate
    <3>2. Finished'
      BY <2>1, <3>1 DEF DoneInv, Finished
    <3>3. ShapesKept
      BY <2>1, SameVMKeepsShapes
    <3>4. \A op \in AfterCreate : pc' = op => Before(op)'
      BY <3>1, <3>2 DEF Before
    <3>5. \A op \in VMOps : /\ task'[op] = "queued" /\ Mine' => Before(op)'
                            /\ task'[op] = "ok" /\ Mine' => Before(NextOp(op))'
      <4>1. \A op \in VMOps : NextOp(op)' = NextOp(op)
        BY <2>1 DEF NextOp, AfterHardware
      <4> QED
        BY <2>1, <4>1 DEF ShapeInv, Before, Installing, Bare, Finished, Mine
    <3> QED
      BY <3>4, <3>5 DEF ShapeInv
  <2> QED
    BY <2>2, <2>3
<1>6. CASE CleanupCalls
  <2>1. /\ UNCHANGED <<template, vm>> /\ \A o \in VMOps : task'[o] = task[o]
    BY <1>6, CleanupMoves, CallFrame, CallEffect DEF Ops, VMOps
  <2>2. pc' \in {"cPowerOff", "cDestroy", "cDeleteISO"}
    BY <1>6, CleanupMoves
  <2> QED
    BY <2>1, <2>2, SameVMKeepsShapes, ShapeFrame DEF AfterCreate
<1>7. CASE TaskActions
  <2>1. PICK op \in Ops : TaskRuns(op) \/ TaskFails(op)
    BY <1>7 DEF TaskActions
  <2>2. /\ UNCHANGED <<template, pc, awaiting>> /\ task[op] = "queued"
        /\ \A o \in Ops : o # op => task'[o] = task[o]
        /\ task'[op] # "queued"
    BY <2>1, TaskEffect
  <2>3. CASE op \notin VMOps
    BY <2>1, <2>2, <2>3, OtherTasksKeepShapes, ShapeFrame DEF VMOps, Ops
  <2>4. CASE op \in VMOps
    <3>1. \A o \in VMOps : o # op => task'[o] = "idle"
      BY <2>2, <2>4 DEF PathInv, VMOps, Ops
    <3>2. pc \in AfterCreate => awaiting
      BY <2>2 DEF PathInv, PathSteps, MainSteps, AfterCreate
    <3>3. task'[op] = "ok" /\ Mine' => Before(NextOp(op))'
      <4> SUFFICES ASSUME task'[op] = "ok", Mine' PROVE Before(NextOp(op))'
        OBVIOUS
      <4>1. Execute(op)
        BY <2>1, TaskEffect
      <4>2. op # "create" => Mine
        BY <2>4, <4>1, OwnerEffect DEF Mine, VMOps
      <4>3. Before(op) /\ (op = "template" => template)
        BY <2>2, <2>4, <4>2 DEF ShapeInv, DoneInv, Before
      <4> QED
        BY <2>2, <2>4, <4>1, <4>2, <4>3, RunsToNext
    <3> QED
      BY <2>2, <2>4, <3>1, <3>2, <3>3 DEF ShapeInv
  <2> QED
    BY <2>3, <2>4
<1>8. CASE OtherActions
  <2>1. UNCHANGED <<pc, awaiting, task>>
    BY <1>8, OthersMove
  <2> QED
    BY <1>8, <2>1, OthersKeepShapes, ShapeFrame
<1> QED
  BY <1>1, <1>2, <1>3, <1>4, <1>5, <1>6, <1>7, <1>8, NextInGroups

\* Only a finished VM loses the files it was built from, or an interrupted one.
LEMMA DoneStep ==
  ASSUME TypeOK, BuildInv, [Next]_vars
  PROVE  DoneInv'
<1> USE DEF BuildInv
<1>1. CASE ReadActions
  <2>1. /\ UNCHANGED <<template, completed, signalled, vm, task, vmAcked>> /\ ReadMoves
    BY <1>1, ReadsFrame DEF ReadFrame
  <2>2. pc' \notin {"deleteISO", "deleteLog", "template"}
    BY <2>1 DEF ReadMoves
  <2> QED
    BY <2>1, <2>2, SameVMKeepsShapes DEF DoneInv
<1>2. CASE UploadActions
  <2>1. /\ UNCHANGED <<template, completed, signalled, vm, task, vmAcked>>
        /\ pc' \in {"create", "uploadHost", "return"}
    BY <1>2, UploadMoves
  <2> QED
    BY <2>1, SameVMKeepsShapes DEF DoneInv
<1>3. CASE CreateVM
  <2>1. /\ UNCHANGED <<template, completed, signalled, vm>> /\ pc = "create"
        /\ pc' \in {"create", "powerOn", "discardISO"}
    BY <1>3, CreateMoves, CallFrame DEF Ops
  <2>2. \A op \in Ops \ {"create"} : task'[op] = "idle"
    BY <1>3, <2>1, CreateMoves, CallEffect DEF PathInv, PathSteps, MainSteps, Ops
  <2> QED
    BY <2>1, <2>2, SameVMKeepsShapes DEF DoneInv, Ops
<1>4. CASE VMStepActions
  <2>1. PICK step \in VMOps \ {"create"} : VMStep(step, NextOp(step))
    BY <1>4 DEF VMStepActions
  <2>2. /\ pc = step /\ step = OpOf(pc) /\ step \in Ops
        /\ UNCHANGED <<template, completed, signalled, vm>>
        /\ \A op \in Ops : op # step => task'[op] = task[op]
    BY <2>1, VMStepMoves, CallFrame, CallEffect
  <2>3. \A op \in Ops \ {step} : task'[op] = "idle"
    BY <2>2 DEF PathInv, PathSteps, MainSteps, Ops, VMOps
  <2>4. \/ pc' = pc \/ pc' = "announce"
        \/ pc' = NextOp(step) /\ task[step] = "ok"
    BY <2>1, VMStepMoves
  <2>5. pc' = "template" \/ task'["template"] # "idle" => template
    <3>1. step = "template" => template
      BY <2>2 DEF DoneInv
    <3>2. pc' = "template" => step = "template" \/ template
      BY <2>2, <2>4 DEF NextOp, AfterHardware, VMOps
    <3> QED
      BY <2>3, <3>1, <3>2 DEF Ops
  <2>6. pc' \in {"deleteISO", "deleteLog"} => Finished'
    <3> SUFFICES ASSUME pc' \in {"deleteISO", "deleteLog"} PROVE Finished'
      OBVIOUS
    <3>1. NextOp(step) = "deleteISO" /\ task[step] = "ok"
      BY <2>2, <2>4 DEF NextOp, AfterHardware, VMOps
    <3>2. Mine
      BY <2>2 DEF HandleInv, InCleanup, CleanupSteps, AfterCreate, VMOps
    <3>3. Before("deleteISO")
      BY <3>1, <3>2 DEF ShapeInv
    <3> QED
      BY <2>2, <3>3 DEF Before, Finished
  <2>7. task'["deleteISO"] = "idle" /\ task'["deleteLog"] = "idle"
    BY <2>3 DEF Ops, VMOps
  <2> QED
    BY <2>2, <2>5, <2>6, <2>7, SameVMKeepsShapes DEF DoneInv
<1>5. CASE DeleteActions
  <2>1. /\ UNCHANGED <<template, signalled, vm, vmAcked>> /\ pc \in DeleteSteps
        /\ task'["template"] = task["template"]
        /\ \A o \in Ops : o # OpOf(pc) => task'[o] = task[o]
    BY <1>5, DeleteMoves, DeletesMove, DeleteEffect DEF Ops
  <2>2. /\ pc' \in {"deleteISO", "deleteLog"} => pc \in {"deleteISO", "deleteLog"}
        /\ completed' => completed \/ pc = "deleteLog"
        /\ pc' # "template"
    BY <1>5, <2>1, DeletesMove DEF DeleteSteps, DeleteThen, DeleteFailedThen
  <2>3. Finished' <=> Finished
    BY <2>1, SameVMKeepsShapes
  <2>4. /\ pc \in {"deleteISO", "deleteLog"} => Finished
        /\ pc \in {"cDeleteISO", "cDeleteLog"} => signalled
        /\ pc = "discardISO" => ~vmAcked
    BY DEF DoneInv, PathInv, InCleanup, CleanupSteps, HandleInv, BeforeCreate, MainSteps,
           AfterCreate
  <2>5. task'["deleteISO"] # "idle" /\ ~signalled' => ~vmAcked' \/ Finished'
    <3>1. CASE OpOf(pc) = "deleteISO"
      BY <2>1, <2>3, <2>4 DEF DeleteSteps
    <3>2. CASE OpOf(pc) # "deleteISO"
      BY <2>1, <2>3, <3>2 DEF DoneInv, Ops
    <3> QED
      BY <3>1, <3>2
  <2>6. task'["deleteLog"] # "idle" /\ ~signalled' => Finished'
    <3>1. CASE OpOf(pc) = "deleteLog"
      <4>1. pc \in {"deleteLog", "cDeleteLog"}
        BY <2>1, <3>1 DEF OpOf, DeleteSteps
      <4> QED
        BY <2>1, <2>3, <2>4, <4>1
    <3>2. CASE OpOf(pc) # "deleteLog"
      BY <2>1, <2>3, <3>2 DEF DoneInv, Ops
    <3> QED
      BY <3>1, <3>2
  <2>7. pc' \in {"deleteISO", "deleteLog"} \/ completed' => Finished'
    BY <2>2, <2>3, <2>4 DEF DoneInv
  <2>8. pc' = "template" \/ task'["template"] # "idle" => template'
    BY <2>1, <2>2 DEF DoneInv
  <2> QED
    BY <2>5, <2>6, <2>7, <2>8 DEF DoneInv
<1>6. CASE CleanupCalls
  <2>1. /\ UNCHANGED <<template, completed, signalled, vm, vmAcked>>
        /\ task'["deleteISO"] = task["deleteISO"] /\ task'["deleteLog"] = task["deleteLog"]
        /\ task'["template"] = task["template"]
    BY <1>6, CleanupMoves, CallFrame, CallEffect DEF Ops
  <2>2. pc' \in {"cPowerOff", "cDestroy", "cDeleteISO"}
    BY <1>6, CleanupMoves
  <2> QED
    BY <2>1, <2>2, SameVMKeepsShapes DEF DoneInv
<1>7. CASE TaskActions
  <2>1. PICK op \in Ops : TaskRuns(op) \/ TaskFails(op)
    BY <1>7 DEF TaskActions
  <2>2. /\ UNCHANGED <<template, pc, completed, signalled, vmAcked>>
        /\ \A o \in Ops : task'[o] # "idle" => task[o] # "idle"
    BY <2>1, TaskEffect
  <2>3. Finished => Finished' \/ (InCleanup /\ signalled /\ ~completed)
    BY <2>1, FinishedSurvivesTasks
  <2>4. pc \in {"deleteISO", "deleteLog"} => ~InCleanup
    BY DEF InCleanup, CleanupSteps
  <2> QED
    BY <2>2, <2>3, <2>4 DEF DoneInv, Ops
<1>8. CASE OtherActions
  <2>1. UNCHANGED <<template, pc, completed, task, vmAcked>> /\ (signalled => signalled')
    BY <1>8, OthersMove
  <2>2. Finished => Finished'
    BY <1>8, OthersKeepShapes
  <2> QED
    BY <2>1, <2>2 DEF DoneInv
<1> QED
  BY <1>1, <1>2, <1>3, <1>4, <1>5, <1>6, <1>7, <1>8, NextInGroups

\* What is left to debug with changes only by a task, and by an upload while
\* there is no VM.
LEMMA DebugStep ==
  ASSUME TypeOK, BuildInv, [Next]_vars
  PROVE  DebugInv'
<1> USE DEF BuildInv
<1>1. CASE UNCHANGED <<vm, iso, log, createLost>> /\ (signalled => signalled')
  BY <1>1 DEF DebugInv, Mine
<1>2. CASE ReadActions
  <2>1. UNCHANGED <<vm, iso, log, createLost, signalled>>
    BY <1>2, ReadsFrame DEF ReadFrame
  <2> QED
    BY <1>1, <2>1
<1>3. CASE UploadActions
  <2>1. vm' = vm /\ pc \in {"upload", "uploadHost"}
    BY <1>3, UploadMoves
  <2>2. ~Mine
    BY <2>1 DEF LostInv, HandleInv, BeforeCreate, AfterCreate, PathSteps, MainSteps
  <2> QED
    BY <2>1, <2>2 DEF DebugInv, Mine
<1>4. CASE CreateVM
  <2>1. UNCHANGED <<vm, iso, log, signalled>> /\ pc = "create"
    BY <1>4, CreateMoves, CallFrame DEF Ops
  <2>2. ~createLost
    BY <2>1 DEF LostInv, PathSteps, MainSteps
  <2> QED
    BY <2>1, <2>2 DEF DebugInv, Mine
<1>5. CASE VMStepActions
  <2>1. UNCHANGED <<vm, iso, log, createLost, signalled>>
    BY <1>5, VMStepMoves, CallFrame DEF VMStepActions
  <2> QED
    BY <1>1, <2>1
<1>6. CASE DeleteActions
  <2>1. UNCHANGED <<vm, iso, log, createLost, signalled>>
    BY <1>6, DeleteMoves, DeleteEffect
  <2> QED
    BY <1>1, <2>1
<1>7. CASE CleanupCalls
  <2>1. UNCHANGED <<vm, iso, log, createLost, signalled>>
    BY <1>7, CleanupMoves, CallFrame
  <2> QED
    BY <1>1, <2>1
<1>8. CASE TaskActions
  <2>1. PICK op \in Ops : TaskRuns(op) \/ TaskFails(op)
    BY <1>8 DEF TaskActions
  <2>2. UNCHANGED <<pc, signalled, createLost>> /\ task[op] = "queued"
    BY <2>1, TaskEffect
  <2>3. CASE vm' = vm /\ iso' = iso /\ log' = log
    BY <2>2, <2>3 DEF DebugInv, Mine
  <2>4. CASE Execute(op)
    <3>0. /\ vm' = VMAfter(op) /\ vm \in VMs /\ (iso' <=> iso /\ op # "deleteISO")
          /\ log' <=> (log \/ (op = "powerOn" /\ vm.serial)) /\ op # "deleteLog"
      BY <2>4 DEF Execute, TypeOK
    <3>1. CASE op = "create"
      <4>1. ~createLost => iso
        BY <2>2, <3>1 DEF LostInv, FileInv, ISOInv, AfterUpload
      <4> QED
        BY <2>2, <3>0, <3>1, <4>1, VMConstants DEF DebugInv, Mine, VMAfter
    <3>2. CASE op = "destroy"
      BY <3>0, <3>2, VMConstants DEF DebugInv, VMAfter
    <3>3. CASE op \in Ops \ {"create", "destroy", "deleteISO", "deleteLog"}
      <4>1. /\ vm'.owner = vm.owner
            /\ vm'.installer => vm.installer
            /\ vm'.serial => vm.serial
            /\ vm'.booted => vm.booted \/ op = "powerOn"
        BY <3>0, <3>3, VMEffect
      <4> QED
        BY <2>2, <3>0, <3>3, <4>1 DEF DebugInv, Mine
    <3>4. CASE op = "deleteISO"
      <4>1. vm' = vm /\ (log => log')
        BY <3>0, <3>4 DEF VMAfter
      <4>2. ~signalled /\ ~createLost => ~vm.installer
        <5> SUFFICES ASSUME ~signalled, ~createLost, vm.installer PROVE FALSE
          OBVIOUS
        <5>1. ~vmAcked
          BY <2>2, <3>4 DEF DoneInv, Finished
        <5>2. pc = "create"
          BY <5>1 DEF DebugInv, LostInv
        <5> QED
          BY <2>2, <3>4, <5>2 DEF PathInv, PathSteps, MainSteps, OpOf, Ops
      <4> QED
        BY <2>2, <4>1, <4>2 DEF DebugInv, Mine
    <3>5. CASE op = "deleteLog"
      <4>1. vm' = vm /\ (iso => iso')
        BY <3>0, <3>5 DEF VMAfter
      <4>2. ~signalled => ~vm.serial
        BY <2>2, <3>5 DEF DoneInv, Finished
      <4> QED
        BY <2>2, <4>1, <4>2 DEF DebugInv, Mine
    <3> QED
      BY <3>1, <3>2, <3>3, <3>4, <3>5
  <2> QED
    BY <2>1, <2>3, <2>4, TaskEffect
<1>9. CASE OtherActions
  <2>1. UNCHANGED <<iso, log, createLost>> /\ (signalled => signalled')
    BY <1>9, OthersMove
  <2>2. CASE vm' = vm
    BY <1>1, <2>1, <2>2
  <2>3. CASE vm' = ForeignVM
    BY <2>3, VMConstants DEF DebugInv
  <2>4. CASE Mine /\ vm' = [vm EXCEPT !.on = FALSE]
    <3>1. /\ vm'.owner = vm.owner /\ vm'.installer = vm.installer
          /\ vm'.serial = vm.serial /\ vm'.booted = vm.booted
      BY <2>4 DEF TypeOK, VMs
    <3> QED
      BY <2>1, <3>1 DEF DebugInv, Mine
  <2> QED
    BY <1>9, <2>2, <2>3, <2>4, OthersMove
<1> QED
  BY <1>2, <1>3, <1>4, <1>5, <1>6, <1>7, <1>8, <1>9, NextInGroups

-----------------------------------------------------------------------------
(* The theorems.                                                           *)

\* A vCenter build without its fairness: what it may do, whatever it owes.
Safety == Init /\ [][Next]_vars

IInv == TypeOK /\ BuildInv

\* A build starts with no task, no reference, no file and no VM of its own.
LEMMA BuildInvInit == Init => BuildInv
<1> SUFFICES ASSUME Init PROVE BuildInv
  OBVIOUS
<1>1. \A op \in Ops : task[op] = "idle"
  BY DEF Init
<1>2. ~Mine /\ ~vm.installer /\ ~vm.serial
  BY VMConstants DEF Init, Mine
<1>3. AwaitInv /\ PathInv
  BY <1>1 DEF Init, AwaitInv, PathInv, InCleanup, CleanupSteps, Ops, VMOps
<1>4. HandleInv
  BY <1>1, <1>2 DEF Init, HandleInv, InCleanup, CleanupSteps, VMDone, AfterCreate, Ops, VMOps
<1>5. LostInv
  BY <1>1, <1>2 DEF Init, LostInv, Ops
<1>6. FileInv
  BY <1>1 DEF Init, FileInv, ISOInv, LogInv, AfterUpload, AfterCreate, Ops
<1>7. ShapeInv /\ DoneInv /\ DebugInv
  BY <1>1, <1>2 DEF Init, ShapeInv, DoneInv, DebugInv, AfterCreate, Ops, VMOps
<1> QED
  BY <1>3, <1>4, <1>5, <1>6, <1>7 DEF BuildInv

\* Every step keeps all parts of the invariant.
LEMMA BuildInvStep == TypeOK /\ BuildInv /\ [Next]_vars => BuildInv'
<1> SUFFICES ASSUME TypeOK, BuildInv, [Next]_vars PROVE BuildInv'
  OBVIOUS
<1>1. AwaitInv' /\ PathInv' /\ HandleInv' /\ LostInv'
  BY AwaitStep, PathStep, HandleStep, LostStep
<1>2. ISOInv' /\ LogInv'
  BY ISOStep, LogStep
<1>3. ShapeInv' /\ DoneInv' /\ DebugInv'
  BY ShapeStep, DoneStep, DebugStep
<1> QED
  BY <1>1, <1>2, <1>3 DEF BuildInv, FileInv

\* The invariant that the theorems below rest on holds of every build, whether
\* or not it is scheduled fairly.
THEOREM BuildInvariant == Safety => []IInv
<1>1. Init => IInv
  BY TypeInit, BuildInvInit DEF IInv
<1>2. IInv /\ [Next]_vars => IInv'
  BY TypeStep, BuildInvStep DEF IInv
<1> QED
  BY <1>1, <1>2, PTL DEF Safety

\* A build that nobody interrupted keeps what its user debugs it with: its VM,
\* the ISO that VM boots from, the console log of the guest that ran, unless
\* the answer to createVM was lost.
THEOREM FailureIsDebuggable == Safety => []FailedBuildStaysDebuggable
<1>1. IInv => FailedBuildStaysDebuggable
  BY DEF IInv, BuildInv, PathInv, HandleInv, DebugInv, Mine, FailedBuildStaysDebuggable
<1> QED
  BY <1>1, BuildInvariant, PTL

\* The builder itself changes nothing at vCenter but by its upload.
LEMMA BuilderChangesNothing ==
  ASSUME TypeOK, BuildInv, [Next]_vars
  PROVE  \/ UNCHANGED <<vm, iso, log, signalled, template>>
         \/ UploadActions /\ UNCHANGED <<vm, log, signalled, template>>
         \/ TaskActions
         \/ OtherActions /\ UNCHANGED <<iso, log, template>>
<1> USE DEF BuildInv
<1>1. CASE ReadActions
  BY <1>1, ReadsFrame DEF ReadFrame
<1>2. CASE UploadActions
  BY <1>2, UploadMoves
<1>3. CASE CreateVM
  BY <1>3, CreateMoves, CallFrame DEF Ops
<1>4. CASE VMStepActions
  BY <1>4, VMStepMoves, CallFrame DEF VMStepActions
<1>5. CASE DeleteActions
  BY <1>5, DeleteMoves, DeleteEffect
<1>6. CASE CleanupCalls
  BY <1>6, CleanupMoves, CallFrame
<1>7. CASE OtherActions
  BY <1>7, OthersMove
<1> QED
  BY <1>1, <1>2, <1>3, <1>4, <1>5, <1>6, <1>7, NextInGroups

\* No step but a task changes another client's VM, and a task works on the VM
\* of the build's reference: once createVM returned a VM, or while nobody
\* interrupted the build, that is never the other client's.
THEOREM ForeignVMSafe == Safety => ForeignVMUntouchedOnceCreated
<1>1. ASSUME TypeOK, BuildInv, [Next]_vars, vm.owner = "foreign", vmAcked \/ ~signalled
      PROVE  vm' = vm
  <2>1. handle # "foreign"
    BY <1>1 DEF BuildInv, HandleInv, PathInv
  <2>2. ASSUME NEW op \in Ops, Execute(op) PROVE vm' = vm
    <3>1. ~Ours
      BY <1>1, <2>1 DEF Ours
    <3>2. op \in {"deleteISO", "deleteLog"}
      BY <1>1, <2>2, <3>1 DEF Execute, Applies, Ops
    <3> QED
      BY <2>2, <3>2 DEF Execute, VMAfter
  <2>3. CASE TaskActions
    <3>1. PICK op \in Ops : TaskRuns(op) \/ TaskFails(op)
      BY <2>3 DEF TaskActions
    <3> QED
      BY <1>1, <2>2, <3>1, TaskEffect
  <2>4. CASE OtherActions
    BY <1>1, <2>4, OthersMove DEF Mine
  <2> QED
    BY <1>1, <2>3, <2>4, BuilderChangesNothing
<1>2. IInv /\ [Next]_vars =>
        [vm.owner = "foreign" /\ (vmAcked \/ ~signalled) => vm' = vm]_vars
  BY <1>1 DEF IInv
<1> QED
  BY <1>2, BuildInvariant, PTL DEF Safety, ForeignVMUntouchedOnceCreated

\* Only the template task of the build marks a VM as a template, and it meets
\* the build's VM when that is powered off, boots from its disk, has lost its
\* serial port and has its final hardware.
THEOREM TemplateOnlyWhenFinal == Safety => TemplateIsFinal
<1> DEFINE Final == vm.owner = "ours" /\ ~vm.on /\ vm.diskBoot /\ ~vm.serial /\ vm.sized
<1>1. ASSUME TypeOK, BuildInv, [Next]_vars, ~vm.template, vm'.template
      PROVE  Final
  <2> USE DEF BuildInv
  <2>1. CASE TaskActions
    <3>1. PICK op \in Ops : TaskRuns(op) \/ TaskFails(op)
      BY <2>1 DEF TaskActions
    <3>2. Execute(op) /\ task[op] = "queued"
      BY <1>1, <3>1, TaskEffect
    <3>3. op \notin {"create", "destroy"}
      BY <1>1, <3>2, VMConstants DEF Execute, VMAfter
    <3>4. op = "template"
      BY <1>1, <3>2, <3>3, VMEffect DEF Execute, TypeOK
    <3>5. vmAcked /\ vm.owner # "none" /\ vm.owner = handle
      BY <1>1, <3>2, <3>4 DEF HandleInv, VMOps, Execute, Applies, Ours
    <3>6. Mine
      BY <1>1, <3>5 DEF HandleInv, TypeOK, Owners, Mine
    <3>7. Before("template")
      BY <1>1, <3>2, <3>4, <3>6 DEF ShapeInv, VMOps
    <3> QED
      BY <3>6, <3>7 DEF Before, Bare, Mine
  <2>2. CASE OtherActions
    <3>1. CASE Mine /\ vm' = [vm EXCEPT !.on = FALSE]
      BY <1>1, <3>1 DEF TypeOK, VMs
    <3> QED
      BY <1>1, <2>2, <3>1, OthersMove, VMConstants
  <2> QED
    BY <1>1, <2>1, <2>2, BuilderChangesNothing
<1>2. IInv /\ [Next]_vars => [~vm.template /\ vm'.template => Final]_vars
  BY <1>1 DEF IInv
<1> QED
  BY <1>2, BuildInvariant, PTL DEF Safety, TemplateIsFinal

-----------------------------------------------------------------------------
(* The contract of a remote build: every step of a vCenter build is one of *)
(* its steps, or invisible.                                                *)

Phase == IF pc \in {"cLogout", "cleaned"} THEN "cleaned"
         ELSE IF pc \in {"logout", "ended"} THEN IF completed THEN "success" ELSE "failure"
         ELSE IF pc \in CleanupSteps THEN "cleaning" ELSE "working"
Machine == IF ~vmAcked \/ vm.owner # "ours" THEN "none"
           ELSE IF Finished THEN "image" ELSE "draft"
Stored == {file \in {"iso", "log"} : recorded /\ (IF file = "iso" THEN iso ELSE log)}

ContractStep == Contract!Next \/ UNCHANGED Contract!vars

\* The same machine and the same files: nothing happened, or a warning.
LEMMA NothingHappens ==
  ASSUME Phase' = Phase, signalled' = signalled, Machine' = Machine, Stored' = Stored,
         warned' = warned \/ (warned' = TRUE /\ Phase \in {"working", "cleaning"})
  PROVE  ContractStep
<1>1. CASE warned' = warned
  BY <1>1 DEF ContractStep, Contract!vars, Phase, Stored, Machine
<1>2. CASE warned' = TRUE /\ Phase \in {"working", "cleaning"}
  BY <1>2 DEF ContractStep, Contract!Next, Contract!Warn, Contract!Ended, Phase, Stored,
              Machine
<1> QED
  BY <1>1, <1>2

\* Nothing that the contract sees changes but the machine, and no machine
\* comes back, is unmade, or is given up without an interrupt.
LEMMA MachineChanges ==
  ASSUME Phase' = Phase, signalled' = signalled, warned' = warned, Stored' = Stored,
         vmAcked' = vmAcked,
         vmAcked /\ ~Mine => ~Mine',
         vmAcked /\ Mine /\ ~Mine' => signalled /\ Phase \in {"cleaning", "cleaned"},
         Finished /\ Mine' => Finished'
  PROVE  ContractStep
<1>1. CASE Machine' = Machine
  BY <1>1, NothingHappens
<1>2. CASE Machine = "draft" /\ Machine' = "image"
  BY <1>2 DEF ContractStep, Contract!Next, Contract!Complete, Phase, Stored, Machine
<1>3. CASE Machine' = "none" /\ signalled /\ Phase \in {"cleaning", "cleaned"}
  BY <1>3 DEF ContractStep, Contract!Next, Contract!Destroy, Phase, Stored, Machine
<1>4. \/ Machine' = Machine
      \/ Machine = "draft" /\ Machine' = "image"
      \/ Machine' = "none" /\ signalled /\ Phase \in {"cleaning", "cleaned"}
  BY DEF Machine, Mine
<1> QED
  BY <1>1, <1>2, <1>3, <1>4

\* Steps that leave vCenter alone leave the contract's machine and files
\* alone.
LEMMA SameRemote ==
  ASSUME UNCHANGED <<template, recorded, vm, iso, log, vmAcked>>
  PROVE  Machine' = Machine /\ Stored' = Stored
<1>1. Finished' = Finished
  BY DEF Finished
<1> QED
  BY <1>1 DEF Machine, Stored

\* The steps that only read change nothing the contract sees, except where the
\* build ends or begins its cleanup.
LEMMA ReadsKeepContract ==
  ASSUME IInv, ReadActions
  PROVE  ContractStep
<1> USE DEF IInv, BuildInv
<1>0. /\ ReadMoves /\ UNCHANGED <<template, recorded, completed, signalled, vm, iso, log, vmAcked>>
      /\ pc \notin {"cFind", "cPower"} => warned' = warned
      /\ warned' \in {warned, TRUE}
  BY ReadsFrame DEF ReadFrame
<1>1. Machine' = Machine /\ Stored' = Stored
  BY <1>0, SameRemote
<1>2. CASE pc \notin {"connect", "return"}
  <2>1. /\ Phase' = Phase
        /\ Phase \in {"working", "cleaning"} \/ warned' = warned
    BY <1>0, <1>2 DEF ReadMoves, Phase, CleanupSteps
  <2>2. warned' = warned \/ (warned' = TRUE /\ Phase \in {"working", "cleaning"})
    BY <1>0, <2>1
  <2> QED
    BY <1>0, <1>1, <2>1, <2>2, NothingHappens
<1>3. CASE pc = "connect" /\ pc' = "localISO"
  <2>1. Phase' = Phase
    BY <1>3 DEF Phase, CleanupSteps
  <2> QED
    BY <1>0, <1>1, <1>3, <2>1, NothingHappens
<1>4. CASE pc = "connect" /\ pc' \in {"logout", "ended"}
  <2>1. Phase = "working" /\ Phase' = "failure"
    BY <1>0, <1>4 DEF Phase, CleanupSteps, PathInv
  <2>2. Machine = "none" /\ Stored = {}
    BY <1>4 DEF Machine, Stored, HandleInv, BeforeCreate, MainSteps, AfterCreate, FileInv,
                ISOInv, BeforeUpload
  <2> QED
    BY <1>0, <1>1, <1>4, <2>1, <2>2 DEF ContractStep, Contract!Next, Contract!Fail, Phase,
                                        Stored, Machine
<1>5. CASE pc = "return" /\ pc' \in {"cFind", "cPower"}
  <2>1. Phase = "working" /\ Phase' = "cleaning" /\ signalled
    BY <1>0, <1>5 DEF ReadMoves, Phase, CleanupSteps
  <2> QED
    BY <1>0, <1>1, <1>5, <2>1 DEF ContractStep, Contract!Next, Contract!BeginCleaning, Phase,
                                  Stored, Machine
<1>6. CASE pc = "return" /\ pc' = "logout" /\ completed
  <2>1. Phase = "working" /\ Phase' = "success"
    BY <1>0, <1>6 DEF Phase, CleanupSteps
  <2>2. Machine = "image"
    BY <1>6 DEF Machine, HandleInv, DoneInv, Finished
  <2>3. Stored = {}
    BY <1>6 DEF Stored, FileInv, ISOInv, LogInv
  <2> QED
    BY <1>0, <1>1, <1>6, <2>1, <2>2, <2>3 DEF ContractStep, Contract!Next, Contract!Succeed,
                                              Phase, Stored, Machine
<1>7. CASE pc = "return" /\ pc' = "logout" /\ ~completed
  <2>1. Phase = "working" /\ Phase' = "failure" /\ ~signalled
    BY <1>0, <1>7 DEF ReadMoves, Phase, CleanupSteps
  <2> QED
    BY <1>0, <1>1, <1>7, <2>1 DEF ContractStep, Contract!Next, Contract!Fail, Phase, Stored,
                                  Machine
<1> QED
  BY <1>0, <1>2, <1>3, <1>4, <1>5, <1>6, <1>7 DEF ReadMoves

\* The end of the upload records the ISO; what a failed one left, nobody sees.
LEMMA UploadKeepsContract ==
  ASSUME IInv, UploadActions
  PROVE  ContractStep
<1> USE DEF IInv, BuildInv
<1>1. /\ UNCHANGED <<signalled, warned, vmAcked, log>> /\ pc \in {"upload", "uploadHost"}
      /\ pc' \in {"create", "uploadHost", "return"}
  BY UploadMoves
<1>2. Phase = "working" /\ Phase' = "working"
  BY <1>1 DEF Phase, CleanupSteps
<1>3. ~vmAcked /\ ~recorded /\ ~log
  BY <1>1 DEF HandleInv, BeforeCreate, MainSteps, AfterCreate, FileInv, ISOInv, LogInv,
              BeforeUpload
<1>4. Machine = "none" /\ Machine' = "none" /\ Stored = {}
  BY <1>1, <1>3 DEF Machine, Stored
<1>5. CASE recorded' = recorded
  <2>1. Stored' = {}
    BY <1>3, <1>5 DEF Stored
  <2> QED
    BY <1>1, <1>2, <1>4, <2>1, NothingHappens
<1>6. CASE recorded' = TRUE /\ iso' = TRUE
  <2>1. Stored' = {"iso"}
    BY <1>1, <1>3, <1>6 DEF Stored
  <2>2. Contract!Store("iso")
    BY <1>1, <1>2, <1>4, <2>1 DEF Contract!Store, Phase, Stored, Machine
  <2> QED
    BY <2>2 DEF ContractStep, Contract!Next, Contract!Files
<1> QED
  BY <1>5, <1>6, UploadMoves

\* The answer to the creation is what makes the VM the build's; a creation that
\* is only submitted, or fails, is nothing the contract sees.
LEMMA CreateKeepsContract ==
  ASSUME IInv, CreateVM
  PROVE  ContractStep
<1> USE DEF IInv, BuildInv
<1>1. /\ UNCHANGED <<template, recorded, vm, iso, log, signalled, warned>> /\ pc = "create"
      /\ pc' \in {"create", "powerOn", "discardISO"}
  BY CreateMoves, CallFrame DEF Ops
<1>2. Phase = "working" /\ Phase' = "working"
  BY <1>1 DEF Phase, CleanupSteps
<1>3. Machine = "none" /\ ~vmAcked
  BY <1>1 DEF Machine, HandleInv, BeforeCreate, MainSteps, AfterCreate
<1>4. Stored' = Stored /\ "iso" \in Stored
  BY <1>1 DEF Stored, FileInv, ISOInv, AfterUpload
<1>5. CASE vmAcked' = vmAcked
  <2>1. Machine' = Machine
    BY <1>1, <1>5, SameRemote
  <2> QED
    BY <1>1, <1>2, <1>4, <2>1, NothingHappens
<1>6. CASE vmAcked' = TRUE /\ task["create"] = "ok"
  <2>1. Mine
    BY <1>6 DEF HandleInv
  <2>2. Before("powerOn")
    BY <1>6, <2>1 DEF ShapeInv, VMOps, NextOp
  <2>3. ~Finished'
    BY <1>1, <2>2 DEF Before, Installing, Finished
  <2>4. Machine' = "draft"
    BY <1>1, <1>6, <2>1, <2>3 DEF Machine, Mine
  <2> QED
    BY <1>1, <1>2, <1>3, <1>4, <2>4 DEF ContractStep, Contract!Next, Contract!Create, Phase,
                                        Stored, Machine
<1> QED
  BY <1>5, <1>6, CreateMoves

\* A call of the build on its VM changes the VM when its task runs, not here.
LEMMA VMStepsKeepContract ==
  ASSUME IInv, NEW step \in VMOps \ {"create"}, VMStep(step, NextOp(step))
  PROVE  ContractStep
<1> USE DEF IInv, BuildInv
<1>1. UNCHANGED <<template, recorded, vm, iso, log, vmAcked, signalled, warned>>
  BY VMStepMoves, CallFrame
<1>2. pc = step /\ pc' \in {step, NextOp(step), "announce"}
  BY VMStepMoves
<1>3. Phase' = Phase
  BY <1>2 DEF Phase, CleanupSteps, VMOps, NextOp, AfterHardware
<1> QED
  BY <1>1, <1>3, SameRemote, NothingHappens

\* The end of a deletion is nothing the contract sees, or the end of the cleanup:
\* the file itself went when the task ran.
LEMMA DeletesKeepContract ==
  ASSUME IInv, DeleteActions
  PROVE  ContractStep
<1> USE DEF IInv, BuildInv
<1>1. /\ UNCHANGED <<template, recorded, vm, iso, log, vmAcked, signalled>> /\ pc \in DeleteSteps
      /\ pc' \in {pc, DeleteThen(pc), DeleteFailedThen(pc)}
  BY DeleteMoves, DeletesMove, DeleteEffect DEF FileInv
<1>2. Machine' = Machine /\ Stored' = Stored
  BY <1>1, SameRemote
<1>3. warned' = warned \/ (warned' = TRUE)
  <2>1. CASE Keeps(OpOf(pc))
    BY <2>1 DEF Keeps, TypeOK
  <2> QED
    BY <2>1, DeleteMoves DEF Skips, Asks, Deletes
<1>4. CASE pc' # "cLogout"
  <2>1. Phase' = Phase /\ Phase \in {"working", "cleaning"}
    BY <1>1, <1>4 DEF Phase, CleanupSteps, DeleteSteps, DeleteThen, DeleteFailedThen
  <2> QED
    BY <1>1, <1>2, <1>3, <2>1, NothingHappens
<1>5. CASE pc' = "cLogout"
  <2>1. pc = "cDeleteLog"
    BY <1>1, <1>5 DEF DeleteSteps, DeleteThen, DeleteFailedThen
  <2>2. Phase = "cleaning" /\ Phase' = "cleaned"
    BY <1>5, <2>1 DEF Phase, CleanupSteps
  <2>3. OpOf(pc) = "deleteLog" /\ ~completed
    BY <2>1 DEF OpOf, PathInv, InCleanup, CleanupSteps
  <2>4. warned' \/ (Machine = "none" /\ Stored = {})
    <3>1. CASE Keeps(OpOf(pc))
      BY <2>1, <3>1 DEF Keeps
    <3>2. CASE warned' = warned /\ (Skips(OpOf(pc)) \/ Deletes(OpOf(pc)))
      <4> SUFFICES ASSUME ~warned PROVE Machine = "none" /\ Stored = {}
        BY <3>2
      <4>1. handle = "none"
        BY <2>1 DEF HandleInv, VMDone
      <4>2. Machine = "none"
        BY <4>1 DEF Machine, HandleInv, Mine
      <4>3. recorded => ~iso
        BY <2>1 DEF FileInv, ISOInv
      <4>4. recorded => ~log
        <5>1. CASE Skips(OpOf(pc))
          BY <2>1, <2>3, <5>1 DEF Skips, LogToDelete, FileInv, LogInv
        <5>2. CASE Deletes(OpOf(pc))
          BY <2>3, <4>1, <5>2 DEF Deletes, WaitEnds, FileInv, LogInv
        <5> QED
          BY <3>2, <5>1, <5>2
      <4> QED
        BY <4>2, <4>3, <4>4 DEF Stored
    <3>3. ~Asks(OpOf(pc))
      BY <1>5, <2>1 DEF Asks
    <3> QED
      BY <3>1, <3>2, <3>3, DeleteMoves DEF Skips, Deletes
  <2> QED
    BY <1>1, <1>2, <1>3, <2>2, <2>4 DEF ContractStep, Contract!Next, Contract!EndCleaning,
                                        Phase, Stored, Machine
<1> QED
  BY <1>4, <1>5

\* The cleanup's calls submit or await; what they change, their tasks do.
LEMMA CleanupKeepsContract ==
  ASSUME IInv, CleanupCalls
  PROVE  ContractStep
<1> USE DEF IInv, BuildInv
<1>1. UNCHANGED <<template, recorded, vm, iso, log, vmAcked, signalled>>
  BY CleanupMoves, CallFrame
<1>2. /\ pc \in {"cPowerOff", "cDestroy"} /\ pc' \in {"cPowerOff", "cDestroy", "cDeleteISO"}
      /\ warned' \in {warned, TRUE}
  BY CleanupMoves
<1>3. Phase = "cleaning" /\ Phase' = "cleaning"
  BY <1>2 DEF Phase, CleanupSteps
<1> QED
  BY <1>1, <1>2, <1>3, SameRemote, NothingHappens

\* A task that runs does to the VM and the files what one step of the contract
\* allows, also when the build no longer waits for it.
LEMMA TasksKeepContract ==
  ASSUME IInv, NEW op \in Ops, TaskRuns(op) \/ TaskFails(op)
  PROVE  ContractStep
<1> USE DEF IInv, BuildInv
<1>1. /\ UNCHANGED <<template, pc, completed, signalled, warned, vmAcked, recorded>>
      /\ task[op] = "queued"
  BY TaskEffect
<1>2. Phase' = Phase
  BY <1>1 DEF Phase
<1>3. CASE vm' = vm /\ iso' = iso /\ log' = log
  BY <1>1, <1>2, <1>3, SameRemote, NothingHappens
<1>4. CASE Execute(op) /\ op = "deleteISO"
  <2>1. vm' = vm /\ ~iso' /\ log' = log
    BY <1>4 DEF Execute, VMAfter, TypeOK
  <2>2. Machine' = Machine
    BY <1>1, <2>1 DEF Machine, Finished
  <2>3. signalled \/ Machine # "draft"
    BY <1>1, <1>4 DEF DoneInv, Machine
  <2>4. Stored' = Stored \ {"iso"}
    BY <1>1, <2>1 DEF Stored
  <2>5. Contract!Drop("iso")
    BY <1>1, <1>2, <2>2, <2>3, <2>4 DEF Contract!Drop, Phase, Stored, Machine
  <2> QED
    BY <2>5 DEF ContractStep, Contract!Next, Contract!Files
<1>5. CASE Execute(op) /\ op = "deleteLog"
  <2>1. vm' = vm /\ iso' = iso /\ ~log'
    BY <1>5 DEF Execute, VMAfter, TypeOK
  <2>2. Machine' = Machine
    BY <1>1, <2>1 DEF Machine, Finished
  <2>3. signalled \/ Machine # "draft"
    BY <1>1, <1>5 DEF DoneInv, Machine
  <2>4. Stored' = Stored \ {"log"}
    BY <1>1, <2>1 DEF Stored
  <2>5. Contract!Drop("log")
    BY <1>1, <1>2, <2>2, <2>3, <2>4 DEF Contract!Drop, Phase, Stored, Machine
  <2> QED
    BY <2>5 DEF ContractStep, Contract!Next, Contract!Files
<1>6. CASE Execute(op) /\ op = "powerOn"
  <2>1. vmAcked /\ recorded
    BY <1>1, <1>6 DEF HandleInv, FileInv, ISOInv, VMOps
  <2>2. Mine
    <3>1. vm.owner # "none" /\ vm.owner = handle
      BY <1>6 DEF Execute, Applies, Ours
    <3> QED
      BY <2>1, <3>1 DEF HandleInv, TypeOK, Owners, Mine
  <2>3. Installing
    BY <1>1, <1>6, <2>2 DEF ShapeInv, Before, VMOps
  <2>4. vm'.owner = "ours" /\ vm'.installer
    BY <1>6, <2>2, <2>3, VMEffect DEF Execute, TypeOK, Mine, Installing
  <2>5. Machine = "draft" /\ Machine' = "draft"
    BY <1>1, <2>1, <2>2, <2>3, <2>4 DEF Machine, Mine, Installing, Finished
  <2>6. iso' = iso /\ log'
    BY <1>6, <2>3 DEF Execute, TypeOK, Installing
  <2>7. Stored' = Stored \cup {"log"}
    BY <1>1, <2>1, <2>6 DEF Stored
  <2>8. Contract!Store("log")
    BY <1>1, <1>2, <2>5, <2>7 DEF Contract!Store, Phase, Stored, Machine
  <2> QED
    BY <2>8 DEF ContractStep, Contract!Next, Contract!Files
<1>7. CASE Execute(op) /\ op \notin {"deleteISO", "deleteLog", "powerOn"}
  <2>1. iso' = iso /\ log' = log
    BY <1>7 DEF Execute, TypeOK
  <2>2. Stored' = Stored
    BY <1>1, <2>1 DEF Stored
  <2>3. vmAcked => op # "create"
    BY <1>1 DEF HandleInv
  <2>4. vmAcked /\ ~Mine => ~Mine'
    BY <1>7, <2>3, OwnerEffect DEF Mine
  <2>5. vmAcked /\ Mine /\ ~Mine' => op = "destroy"
    BY <1>7, <2>3, OwnerEffect DEF Mine
  <2>6. op = "destroy" => signalled /\ Phase \in {"cleaning", "cleaned"}
    BY <1>1 DEF PathInv, InCleanup, CleanupSteps, Phase
  <2>7. Finished /\ Mine' => Finished'
    BY FinishedSurvivesTasks, VMConstants DEF Execute, VMAfter, Mine
  <2> QED
    BY <1>1, <1>2, <2>2, <2>4, <2>5, <2>6, <2>7, MachineChanges
<1> QED
  BY <1>3, <1>4, <1>5, <1>6, <1>7, TaskEffect

\* The guest that powers off, other tenants, the signal and the cleanup's timeout.
LEMMA OthersKeepContract ==
  ASSUME IInv, OtherActions
  PROVE  ContractStep
<1> USE DEF IInv, BuildInv
<1>1. UNCHANGED <<template, pc, completed, warned, vmAcked, recorded, iso, log>>
  BY OthersMove
<1>2. Phase' = Phase /\ Stored' = Stored
  BY <1>1 DEF Phase, Stored
<1>3. CASE signalled' = signalled
  <2>1. (Mine' <=> Mine) /\ (Finished => Finished')
    BY MineKept, OthersKeepShapes
  <2> QED
    BY <1>1, <1>2, <1>3, <2>1, MachineChanges
<1>4. CASE signalled' # signalled
  <2>1. signalled' = TRUE /\ pc \notin LogoutSteps \cup Ended /\ vm' = vm
    BY <1>4, OthersMove
  <2>2. Machine' = Machine
    BY <1>1, <2>1, SameRemote
  <2>3. Phase \in {"working", "cleaning"}
    BY <2>1 DEF Phase, Ended, LogoutSteps
  <2> QED
    BY <1>1, <1>2, <2>1, <2>2, <2>3 DEF ContractStep, Contract!Next, Contract!Interrupt,
       Contract!Ended, Phase, Stored, Machine
<1> QED
  BY <1>3, <1>4

\* Every step of a build is a step of the contract, or invisible to it.
LEMMA StepKeepsContract ==
  ASSUME IInv, [Next]_vars
  PROVE  ContractStep
<1>1. CASE VMStepActions
  BY <1>1, VMStepsKeepContract DEF VMStepActions
<1>2. CASE TaskActions
  BY <1>2, TasksKeepContract DEF TaskActions
<1> QED
  BY <1>1, <1>2, NextInGroups, ReadsKeepContract, UploadKeepsContract, CreateKeepsContract,
     DeletesKeepContract, CleanupKeepsContract, OthersKeepContract

\* A vCenter build implements the contract of a remote build, but for what the
\* contract says must happen: a success is final, a failure gives nothing up,
\* and what a cleanup leaves behind was said.
THEOREM KeepsContract == Safety => Contract!Init /\ [][Contract!Next]_(Contract!vars)
<1>1. Init => Contract!Init
  BY VMConstants DEF Init, Contract!Init, CleanupSteps
<1>2. IInv /\ [Next]_vars => [Contract!Next]_(Contract!vars)
  BY StepKeepsContract DEF ContractStep
<1> QED
  BY <1>1, <1>2, BuildInvariant, PTL DEF Safety

-----------------------------------------------------------------------------
(* What the contract promises, of this build.                              *)

\* The steps of the contract keep what a user may rely on.
LEMMA ContractKeepsReliable ==
  ASSUME Contract!Reliable, [Contract!Next]_(Contract!vars)
  PROVE  Contract!Reliable'
<1> USE DEF Contract!Reliable, Contract!SuccessIsImage,
            Contract!QuietCleanupLeavesNothing, Contract!DraftKeepsInstaller,
            Contract!Ended
<1>1. ASSUME NEW file \in Contract!Files, Contract!Store(file)
      PROVE  Contract!Reliable'
  BY <1>1 DEF Contract!Store, Contract!Files
<1>2. ASSUME NEW file \in Contract!Files, Contract!Drop(file)
      PROVE  Contract!Reliable'
  BY <1>2 DEF Contract!Drop, Contract!Files
<1>3. CASE Contract!Create
  BY <1>3 DEF Contract!Create, Contract!Files
<1>4. CASE Contract!Complete
  BY <1>4 DEF Contract!Complete, Contract!Files
<1>5. CASE Contract!Destroy
  BY <1>5 DEF Contract!Destroy, Contract!Files
<1>6. CASE Contract!Warn \/ Contract!Interrupt
  BY <1>6 DEF Contract!Warn, Contract!Interrupt, Contract!Files
<1>7. CASE Contract!Succeed \/ Contract!Fail
  BY <1>7 DEF Contract!Succeed, Contract!Fail, Contract!Files
<1>8. CASE Contract!BeginCleaning \/ Contract!EndCleaning
  BY <1>8 DEF Contract!BeginCleaning, Contract!EndCleaning, Contract!Files
<1>9. CASE UNCHANGED Contract!vars
  BY <1>9 DEF Contract!vars, Contract!Files
<1> QED
  BY <1>1, <1>2, <1>3, <1>4, <1>5, <1>6, <1>7, <1>8, <1>9 DEF Contract!Next

\* What a user may rely on after every vCenter build: its image after a success,
\* nothing after a cleanup without a warning, until an interrupt the installer
\* beside a machine that is not finished, and a machine that does not go away.
THEOREM ContractHolds ==
  Safety => /\ [](Contract!SuccessIsImage /\ Contract!QuietCleanupLeavesNothing
                    /\ Contract!DraftKeepsInstaller)
            /\ Contract!MachineKept
<1>1. Contract!Init => Contract!Reliable
  BY DEF Contract!Init, Contract!Reliable, Contract!SuccessIsImage,
         Contract!QuietCleanupLeavesNothing, Contract!DraftKeepsInstaller,
         Contract!Ended, Contract!Files
<1>2. Contract!Reliable /\ [Contract!Next]_(Contract!vars) => Contract!Reliable'
  BY ContractKeepsReliable
<1>3. Contract!Reliable => Contract!SuccessIsImage /\ Contract!QuietCleanupLeavesNothing
                             /\ Contract!DraftKeepsInstaller
  BY DEF Contract!Reliable
<1>4. [Contract!Next]_(Contract!vars) => [Contract!MachineStays]_(Contract!vars)
  BY DEF Contract!Next, Contract!MachineStays, Contract!Store, Contract!Drop,
         Contract!Create, Contract!Complete, Contract!Destroy, Contract!Warn,
         Contract!Interrupt, Contract!Succeed, Contract!Fail,
         Contract!BeginCleaning, Contract!EndCleaning
<1> QED
  BY <1>1, <1>2, <1>3, <1>4, KeepsContract, PTL DEF Contract!MachineKept

\* What is proved of a vCenter build, of the specification that the runs check.
THEOREM BuildIsCorrect ==
  Spec => /\ []FailedBuildStaysDebuggable
          /\ ForeignVMUntouchedOnceCreated
          /\ TemplateIsFinal
          /\ Contract!Init /\ [][Contract!Next]_(Contract!vars)
<1>1. Spec => Safety
  BY PTL DEF Spec, Safety
<1> QED
  BY <1>1, FailureIsDebuggable, ForeignVMSafe, TemplateOnlyWhenFinal, KeepsContract

=============================================================================
