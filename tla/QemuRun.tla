-------------------------------- MODULE QemuRun --------------------------------
(***************************************************************************)
(* One `qemu build` and what stops it: Install of                          *)
(* internal/backend/qemu/qemu.go with the QEMU process it starts, the      *)
(* signals of an operator, and the matrix harness (waitCommand of          *)
(* cmd/e2e-matrix/main.go) that ends a case whose context is done.         *)
(*                                                                         *)
(* QEMU runs in a process group of its own, so what kills the builder's    *)
(* group does not reach it: the builder has to pass a signal on, and has   *)
(* BuilderGrace to do so before the harness kills the builder, HarnessGrace*)
(* after its SIGTERM.  signal.Notify asks for SIGINT and SIGTERM alone: a  *)
(* hangup of the terminal, SIGQUIT or SIGKILL ends the builder at any time *)
(* and leaves QEMU running.  Time passes only in the two timers, and only  *)
(* when no process has a step of its own to take at once.                  *)
(***************************************************************************)
EXTENDS Naturals

CONSTANTS
  BuilderGrace,   \* interruptGrace of qemu.go: 5 seconds
  HarnessGrace,   \* qemuStopGrace of e2e-matrix: 10 seconds
  MaxSignals      \* bound: signals an operator sends

ASSUME QemuRunAssumption ==
  /\ BuilderGrace \in Nat /\ HarnessGrace \in Nat /\ MaxSignals \in Nat
  /\ BuilderGrace < HarnessGrace

VARIABLES
  supervised,  \* the build is a stage of a matrix case
  pc,          \* the builder
  notified,    \* signal.Notify is in force
  pending,     \* signals in the channel, which holds two
  timer,       \* what is left of the builder's grace
  result,      \* what runQemuInstallation made of it: "none", "ok", "failed"
  tempDir,     \* the builder's temporary directory exists
  image,       \* whose file is at --image: "none", "other", "ours"
  qemu,        \* the process: "none", "running", "zero" or "error" as its exit
  termed,      \* QEMU's group was sent the builder's first signal
  killed,      \* QEMU's group was sent SIGKILL
  marker,      \* the console showed one of installerFailureMarkers
  sent,        \* signals the operator sent
  harness,     \* "waiting", "grace", "returned"; "absent" without one
  hTimer,      \* what is left of the harness's grace
  ownExit      \* history: QEMU exited before anything was sent to it

process == <<qemu, termed, killed, marker, ownExit>>
overseer == <<sent, harness, hTimer>>
vars == <<supervised, pc, notified, pending, timer, result, tempDir, image,
          qemu, termed, killed, marker, sent, harness, hTimer, ownExit>>

ChannelSize == 2

Prepare == {"iso", "seed", "disk", "extract", "args"}
Steps == Prepare \cup {"check", "notify", "start", "select", "grace", "reap",
                       "judge", "unnotify", "cleanup", "ended", "dead",
                       "uncaught"}

NextStep(step) ==
  CASE step = "iso" -> "seed"
    [] step = "seed" -> "disk"
    [] step = "disk" -> "extract"
    [] step = "extract" -> "args"
    [] step = "args" -> "notify"

Exited == qemu \in {"zero", "error"}
\* By itself, by a signal before or after it is caught or by the harness's
\* SIGKILL, by a signal that is never caught.
Gone == pc \in {"ended", "dead", "uncaught"}

-----------------------------------------------------------------------------
(* The builder.                                                            *)

\* CheckPrerequisites refuses a file that exists; NewInstaller makes tempDir.
CheckPrerequisites ==
  /\ pc = "check"
  /\ \/ image = "none" /\ pc' = "iso" /\ tempDir' = TRUE
     \/ pc' = "ended" /\ UNCHANGED tempDir
  /\ UNCHANGED <<supervised, notified, pending, timer, result, image, process,
                 overseer>>

\* One of prepareInstallerISO, createSeedISO, createDiskImage, which opens the
\* image with O_TRUNC whatever is there, extractBootFiles and QEMUArgs.
PrepareStep ==
  /\ pc \in Prepare
  /\ \/ pc' = NextStep(pc) /\ image' = IF pc = "disk" THEN "ours" ELSE image
     \/ pc' = "cleanup" /\ image' \in IF pc = "disk" THEN {"ours", image} ELSE {image}
  /\ UNCHANGED <<supervised, notified, pending, timer, result, tempDir, process,
                 overseer>>

Notify ==
  /\ pc = "notify"
  /\ pc' = "start" /\ notified' = TRUE
  /\ UNCHANGED <<supervised, pending, timer, result, tempDir, image, process,
                 overseer>>

StartQemu ==
  /\ pc = "start"
  /\ \/ pc' = "select" /\ qemu' = "running"
     \/ pc' = "judge" /\ UNCHANGED qemu
  /\ UNCHANGED <<supervised, notified, pending, timer, result, tempDir, image,
                 termed, killed, marker, ownExit, overseer>>

\* waitInterruptibleCommand: cmd.Wait returned, before or after an interrupt.
SeeExit ==
  /\ pc \in {"select", "grace", "reap"} /\ Exited
  /\ pc' = "judge"
  /\ UNCHANGED <<supervised, notified, pending, timer, result, tempDir, image,
                 process, overseer>>

\* The first signal is passed on to QEMU's group; there may be none left.  A
\* kill that fails for another reason, here and in KillQemu, is left out: QEMU
\* is the builder's own child, with its user.
PassSignalOn ==
  /\ pc = "select" /\ pending > 0
  /\ pending' = pending - 1 /\ timer' = BuilderGrace
  /\ termed' = TRUE
  /\ pc' = "grace"
  /\ UNCHANGED <<supervised, notified, result, tempDir, image, qemu, killed,
                 marker, ownExit, overseer>>

\* Mutant: only a second signal ends the wait for a QEMU that ignores the first.
KillQemuOnSignal ==
  /\ pc = "grace"
  /\ pending > 0 /\ pending' = pending - 1
  /\ killed' = TRUE
  /\ pc' = "reap"
  /\ UNCHANGED <<supervised, notified, timer, result, tempDir, image, qemu,
                 termed, marker, ownExit, overseer>>

\* Mutant: the builder does not wait for the QEMU it killed.
KillQemuAndGo ==
  /\ pc = "grace"
  /\ \/ pending > 0 /\ pending' = pending - 1
     \/ timer = 0 /\ UNCHANGED pending
  /\ killed' = TRUE
  /\ pc' = "judge"
  /\ UNCHANGED <<supervised, notified, timer, result, tempDir, image, qemu,
                 termed, marker, ownExit, overseer>>

\* A second signal, or the end of the grace: QEMU's group is killed.
KillQemu ==
  /\ pc = "grace"
  /\ \/ pending > 0 /\ pending' = pending - 1
     \/ timer = 0 /\ UNCHANGED pending
  /\ killed' = TRUE
  /\ pc' = "reap"
  /\ UNCHANGED <<supervised, notified, timer, result, tempDir, image, qemu,
                 termed, marker, ownExit, overseer>>

\* Mutant: an interrupted command is judged by its exit status alone.
SucceededByStatus == qemu = "zero" /\ ~marker

\* runQemuInstallation: no error of the command, which every interrupt is, and
\* no marker seen by installerFailureDetector; Judge adds the failed flush.
Succeeded == qemu = "zero" /\ ~termed /\ ~marker

Judge ==
  /\ pc = "judge"
  /\ result' \in IF Succeeded THEN {"ok", "failed"} ELSE {"failed"}
  /\ pc' = "unnotify"
  /\ UNCHANGED <<supervised, notified, pending, timer, tempDir, image, process,
                 overseer>>

\* The deferred signal.Stop: from here on a signal is deadly again.
StopNotify ==
  /\ pc = "unnotify"
  /\ pc' = "cleanup" /\ notified' = FALSE
  /\ UNCHANGED <<supervised, pending, timer, result, tempDir, image, process,
                 overseer>>

\* The deferred cleanup; a directory that cannot be removed is only warned of.
Cleanup ==
  /\ pc = "cleanup"
  /\ pc' = "ended" /\ tempDir' \in BOOLEAN
  /\ UNCHANGED <<supervised, notified, pending, timer, result, image, process,
                 overseer>>

Builder == CheckPrerequisites \/ PrepareStep \/ Notify \/ StartQemu \/ SeeExit
           \/ PassSignalOn \/ KillQemu \/ Judge \/ StopNotify \/ Cleanup

-----------------------------------------------------------------------------
(* QEMU and the file system.                                               *)

PrintMarker ==
  /\ qemu = "running" /\ ~marker
  /\ marker' = TRUE
  /\ UNCHANGED <<qemu, termed, killed, ownExit>>

\* The guest powers off, QEMU fails, or it heeds the signal.
QemuExits ==
  /\ qemu = "running"
  /\ qemu' \in {"zero", "error"}
  /\ ownExit' = (~termed /\ ~killed)
  /\ UNCHANGED <<termed, killed, marker>>

\* SIGKILL takes effect.
QemuDies ==
  /\ qemu = "running" /\ killed
  /\ qemu' = "error"
  /\ UNCHANGED <<termed, killed, marker, ownExit>>

Process ==
  /\ PrintMarker \/ QemuExits \/ QemuDies
  /\ UNCHANGED <<supervised, pc, notified, pending, timer, result, tempDir,
                 image, overseer>>

\* Another program writes a file of its own to the path of --image.
OtherFile ==
  /\ image = "none"
  /\ image' = "other"
  /\ UNCHANGED <<supervised, pc, notified, pending, timer, result, tempDir,
                 process, overseer>>

-----------------------------------------------------------------------------
(* Signals, the harness and time.                                          *)

\* Mutant: a channel without a bound, in which every signal waits its turn.
SignalBuilderUnbounded(asked) ==
  /\ pc' = IF Gone \/ (notified /\ asked) THEN pc
           ELSE IF asked THEN "dead" ELSE "uncaught"
  /\ pending' = IF notified /\ asked /\ ~Gone THEN pending + 1 ELSE pending

\* SIGINT and SIGTERM are asked for: while signal.Notify is in force they wait
\* in the channel, and are dropped when that is full.  Any other signal, or one
\* of these two at another time, ends the builder.
SignalBuilder(asked) ==
  /\ pc' = IF Gone \/ (notified /\ asked) THEN pc
           ELSE IF asked THEN "dead" ELSE "uncaught"
  /\ pending' = IF notified /\ asked /\ ~Gone /\ pending < ChannelSize
                  THEN pending + 1 ELSE pending

\* An operator's Ctrl-C or kill, or a terminal that is closed.
Signal ==
  /\ sent < MaxSignals /\ ~Gone
  /\ sent' = sent + 1
  /\ \E asked \in BOOLEAN : SignalBuilder(asked)
  /\ UNCHANGED <<supervised, notified, timer, result, tempDir, image, process,
                 harness, hTimer>>

\* waitCommand: the case's context is done, by timeout or by interrupt.
HarnessStop ==
  /\ harness = "waiting" /\ ~Gone
  /\ harness' = "grace" /\ hTimer' = HarnessGrace
  /\ SignalBuilder(TRUE)
  /\ UNCHANGED <<supervised, notified, timer, result, tempDir, image, process, sent>>

\* waitCommand: cmd.Wait returned.
HarnessSeesExit ==
  /\ harness \in {"waiting", "grace"} /\ Gone
  /\ harness' = "returned"
  /\ UNCHANGED <<supervised, pc, notified, pending, timer, result, tempDir,
                 image, process, sent, hTimer>>

\* Mutant: the harness kills the builder's group with the first signal.
HarnessKillAtOnce ==
  /\ harness = "grace"
  /\ harness' = "returned"
  /\ pc' = IF Gone THEN pc ELSE "dead"
  /\ UNCHANGED <<supervised, notified, pending, timer, result, tempDir, image,
                 process, sent, hTimer>>

\* waitCommand: the grace is over, SIGKILL goes to the builder's group, and
\* nobody waits for it.
HarnessKill ==
  /\ harness = "grace" /\ hTimer = 0
  /\ harness' = "returned"
  /\ pc' = IF Gone THEN pc ELSE "dead"
  /\ UNCHANGED <<supervised, notified, pending, timer, result, tempDir, image,
                 process, sent, hTimer>>

Harness == HarnessStop \/ HarnessSeesExit \/ HarnessKill

\* What the builder or the harness does at once, compared with the graces.
Urgent ==
  \/ pc \in {"notify", "start"}
  \/ pc = "select" /\ pending > 0
  \/ pc = "grace" /\ (pending > 0 \/ timer = 0)
  \/ harness = "grace" /\ hTimer = 0

\* A unit of time, in every timer that runs.
Tick ==
  /\ pc = "grace" \/ harness = "grace"
  /\ ~Urgent
  /\ timer' = IF pc = "grace" THEN timer - 1 ELSE timer
  /\ hTimer' = IF harness = "grace" THEN hTimer - 1 ELSE hTimer
  /\ UNCHANGED <<supervised, pc, notified, pending, result, tempDir, image,
                 process, sent, harness>>

Init ==
  /\ supervised \in BOOLEAN
  /\ pc = "check" /\ notified = FALSE /\ pending = 0 /\ timer = 0
  /\ result = "none" /\ tempDir = FALSE /\ image = "none"
  /\ qemu = "none" /\ termed = FALSE /\ killed = FALSE /\ marker = FALSE
  /\ sent = 0 /\ hTimer = 0 /\ ownExit = FALSE
  /\ harness = IF supervised THEN "waiting" ELSE "absent"

Next == Builder \/ Process \/ OtherFile \/ Signal \/ Harness \/ Tick

\* The builder and the harness run, time passes, and a killed QEMU dies; the
\* guest, the operator and the case's context may leave things as they are.
Spec == /\ Init /\ [][Next]_vars
        /\ WF_vars(Builder) /\ WF_vars(HarnessSeesExit \/ HarnessKill)
        /\ WF_vars(Tick) /\ WF_vars(Process /\ killed)

-----------------------------------------------------------------------------
(* Properties.                                                             *)

\* Every variable keeps the type the code gives it.
TypeOK ==
  /\ supervised \in BOOLEAN /\ pc \in Steps /\ notified \in BOOLEAN
  /\ pending \in 0 .. ChannelSize /\ timer \in 0 .. BuilderGrace
  /\ result \in {"none", "ok", "failed"} /\ tempDir \in BOOLEAN
  /\ image \in {"none", "other", "ours"}
  /\ qemu \in {"none", "running", "zero", "error"}
  /\ termed \in BOOLEAN /\ killed \in BOOLEAN /\ marker \in BOOLEAN
  /\ sent \in 0 .. MaxSignals
  /\ harness \in {"absent", "waiting", "grace", "returned"}
  /\ hTimer \in 0 .. HarnessGrace /\ ownExit \in BOOLEAN

\* A build reports success only if QEMU ended by itself, with status zero and
\* no failure marker on its console: an interrupt that races the end of the
\* installation never turns a stopped installer into an image that is done.
SuccessIsOwnExit ==
  result = "ok" => qemu = "zero" /\ ownExit /\ ~marker

\* A builder that ends by itself, by SIGINT or SIGTERM whenever they arrive, or
\* by the harness's SIGKILL leaves no QEMU running that nobody killed; this is
\* what the order of signal.Notify and Start is for, and what the builder's
\* grace, shorter than the harness's, is for.  A builder that another signal
\* ends (SIGHUP, SIGQUIT, an operator's SIGKILL) is exempt: it may leave QEMU
\* running, whatever state it was in.
NoQemuLeftBehind ==
  pc \in {"ended", "dead"} /\ qemu = "running" => killed

\* A builder that ends by itself does so only once QEMU is gone, so that no
\* QEMU writes to the image or reads the temporary files after cleanup.
EndsAfterQemu == pc = "ended" => qemu # "running"

\* A builder that the operator or the harness signalled ends: at once, or
\* after the grace that QEMU gets, or with QEMU's death by SIGKILL, also if
\* QEMU ignores the signal (the timer of waitInterruptibleCommand).
SignalEndsBuilder == (sent > 0 \/ harness = "grace") ~> Gone

\* The prerequisites ask for a destination path that does not exist: a file
\* that another program put there is not the builder's to write to.
OtherFileKept == [][image = "other" => image' = "other"]_vars
=============================================================================
