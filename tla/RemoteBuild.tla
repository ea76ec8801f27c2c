---------------------------- MODULE RemoteBuild ----------------------------
(***************************************************************************)
(* What a build on a remote hypervisor promises, whichever hypervisor it   *)
(* is: the contract that internal/backend/proxmox and                      *)
(* internal/backend/vcenter share.  It knows neither calls nor tasks, only *)
(* what a user sees: the machine the build was told it owns, the temporary *)
(* files it was told it stored, and how the build ended.                   *)
(***************************************************************************)

VARIABLES
  phase,        \* working, cleaning up, or how the build ended
  interrupted,  \* a signal arrived while the build ran
  warned,       \* the build said that it may leave something behind
  machine,      \* the build's machine: none, a draft, the finished image
  files         \* its temporary files: the installer ISO, the console log

vars == <<phase, interrupted, warned, machine, files>>

Files == {"iso", "log"}
Ended == {"success", "failure", "cleaned"}

Init ==
  /\ phase = "working"
  /\ interrupted = FALSE /\ warned = FALSE
  /\ machine = "none" /\ files = {}

\* The installer ISO comes before the machine, the console log with it.
Store(file) ==
  /\ IF file = "iso" THEN phase = "working" /\ machine = "none"
                     ELSE machine = "draft"
  /\ files' = files \cup {file}
  /\ UNCHANGED <<phase, interrupted, warned, machine>>

Create ==
  /\ phase = "working"
  /\ machine = "none" /\ machine' = "draft"
  /\ "iso" \in files
  /\ UNCHANGED <<phase, interrupted, warned, files>>

\* The last change that makes the draft an image may come from a request the
\* build no longer waits for.
Complete ==
  /\ machine = "draft" /\ machine' = "image"
  /\ UNCHANGED <<phase, interrupted, warned, files>>

\* A draft keeps the files that explain it.
Drop(file) ==
  /\ interrupted \/ machine # "draft"
  /\ files' = files \ {file}
  /\ UNCHANGED <<phase, interrupted, warned, machine>>

\* Only an interrupted build gives its machine up, finished or not.
Destroy ==
  /\ interrupted /\ phase \in {"cleaning", "cleaned"}
  /\ machine' = "none"
  /\ UNCHANGED <<phase, interrupted, warned, files>>

Warn ==
  /\ phase \notin Ended
  /\ warned' = TRUE
  /\ UNCHANGED <<phase, interrupted, machine, files>>

Interrupt ==
  /\ phase \notin Ended
  /\ interrupted' = TRUE
  /\ UNCHANGED <<phase, warned, machine, files>>

Succeed ==
  /\ phase = "working" /\ phase' = "success"
  /\ machine = "image" /\ files = {}
  /\ UNCHANGED <<interrupted, warned, machine, files>>

\* An interrupted build only fails before it has anything to clean up.
Fail ==
  /\ phase = "working" /\ phase' = "failure"
  /\ interrupted => machine = "none" /\ files = {}
  /\ UNCHANGED <<interrupted, warned, machine, files>>

BeginCleaning ==
  /\ phase = "working" /\ phase' = "cleaning"
  /\ interrupted
  /\ UNCHANGED <<interrupted, warned, machine, files>>

\* What is left behind is said.
EndCleaning ==
  /\ phase = "cleaning" /\ phase' = "cleaned"
  /\ files' \subseteq files
  /\ warned' \in {warned, TRUE}
  /\ warned' \/ (machine = "none" /\ files' = {})
  /\ UNCHANGED <<interrupted, machine>>

Next ==
  \/ \E file \in Files : Store(file) \/ Drop(file)
  \/ Create \/ Complete \/ Destroy \/ Warn \/ Interrupt
  \/ Succeed \/ Fail \/ BeginCleaning \/ EndCleaning

\* An interrupt ends the build: BeginCleaning and EndCleaning, or Succeed, are
\* always within its power.  Without one it may wait for its guest forever.
InterruptEnds == interrupted ~> phase \in Ended

Spec == Init /\ [][Next]_vars /\ InterruptEnds

-----------------------------------------------------------------------------
(* What a user may rely on after every build that keeps the contract.      *)

\* A success is the finished image, with nothing temporary beside it.
SuccessIsImage == phase = "success" => machine = "image" /\ files = {}

\* A cleanup that said nothing left nothing, also after the build has ended.
QuietCleanupLeavesNothing ==
  phase = "cleaned" /\ ~warned => machine = "none" /\ files = {}

\* Without an interrupt an unfinished machine has the installer it was made
\* with, whether the build works, failed or is to be looked into.
DraftKeepsInstaller ==
  machine = "draft" /\ ~interrupted => "iso" \in files

\* The machine of an uninterrupted build never goes away, and an image never
\* becomes anything else: Destroy is the only way, and it needs an interrupt.
MachineStays ==
  ~interrupted => /\ machine # "none" => machine' # "none"
                  /\ machine = "image" => machine' = "image"

MachineKept == [][MachineStays]_vars

\* They are inductive together with the types, and with this: a machine is only
\* given up after an interrupt, and a failed build that was interrupted has none.
Reliable ==
  /\ phase \in {"working", "cleaning"} \cup Ended
  /\ interrupted \in BOOLEAN /\ warned \in BOOLEAN
  /\ machine \in {"none", "draft", "image"}
  /\ files \subseteq Files
  /\ phase \in {"cleaning", "cleaned"} => interrupted
  /\ phase = "failure" /\ interrupted => machine = "none" /\ files = {}
  /\ SuccessIsImage /\ QuietCleanupLeavesNothing /\ DraftKeepsInstaller
=============================================================================
