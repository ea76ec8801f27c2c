----------------------------- MODULE QemuRunProofs -----------------------------
(***************************************************************************)
(* Theorems about QemuRun, for every pair of graces of which the builder's *)
(* is the shorter one, and any number of signals.                          *)
(***************************************************************************)
EXTENDS QemuRun, TLAPS

-----------------------------------------------------------------------------
(* Type correctness.                                                       *)

\* The state of QEMU, of the image and of the results is typed.
LEMMA ProcessTyped ==
  ASSUME TypeOK, [Next]_vars
  PROVE  /\ qemu' \in {"none", "running", "zero", "error"}
         /\ termed' \in BOOLEAN /\ killed' \in BOOLEAN /\ marker' \in BOOLEAN
         /\ ownExit' \in BOOLEAN /\ supervised' \in BOOLEAN
         /\ result' \in {"none", "ok", "failed"} /\ tempDir' \in BOOLEAN
         /\ image' \in {"none", "other", "ours"}
<1> USE DEF TypeOK
<1>1. CASE Builder
  <2>1. CASE PrepareStep
    <3>1. image' \in {"none", "other", "ours"}
      BY <2>1 DEF PrepareStep
    <3> QED BY <2>1, <3>1 DEF PrepareStep, process
  <2>2. CASE Judge
    <3>1. result' \in {"ok", "failed"}
      BY <2>2 DEF Judge
    <3> QED BY <2>2, <3>1 DEF Judge, process
  <2>3. CASE CheckPrerequisites
    BY <2>3 DEF CheckPrerequisites, process
  <2>4. CASE Notify \/ SeeExit
    BY <2>4 DEF Notify, SeeExit, process
  <2>5. CASE StartQemu
    BY <2>5 DEF StartQemu
  <2>6. CASE PassSignalOn
    BY <2>6 DEF PassSignalOn
  <2>7. CASE KillQemu
    BY <2>7 DEF KillQemu
  <2>8. CASE StopNotify \/ Cleanup
    BY <2>8 DEF StopNotify, Cleanup, process
  <2> QED BY <1>1, <2>1, <2>2, <2>3, <2>4, <2>5, <2>6, <2>7, <2>8 DEF Builder
<1>2. CASE Process
  <2>1. ownExit' \in BOOLEAN
    BY <1>2 DEF Process, PrintMarker, QemuExits, QemuDies
  <2> QED BY <1>2, <2>1 DEF Process, PrintMarker, QemuExits, QemuDies
<1>3. CASE OtherFile \/ Tick \/ UNCHANGED vars
  BY <1>3 DEF OtherFile, Tick, vars, process
<1>4. CASE Signal \/ Harness
  <2>1. UNCHANGED <<supervised, result, tempDir, image, process>>
    BY <1>4 DEF Signal, Harness, HarnessStop, HarnessSeesExit, HarnessKill
  <2> QED BY <2>1 DEF process
<1> QED BY <1>1, <1>2, <1>3, <1>4 DEF Next

\* The builder's place and its signal handling are typed.
LEMMA BuilderTyped ==
  ASSUME TypeOK, [Next]_vars
  PROVE  pc' \in Steps /\ notified' \in BOOLEAN /\ pending' \in 0 .. ChannelSize
<1> USE DEF TypeOK, ChannelSize
<1>1. CASE Builder
  <2>1. CASE PrepareStep
    BY <1>1, <2>1 DEF PrepareStep, Prepare, NextStep, Steps
  <2>2. CASE PassSignalOn \/ KillQemu
    BY <1>1, <2>2 DEF PassSignalOn, KillQemu, Steps, Prepare
  <2>3. CASE CheckPrerequisites \/ Notify \/ StartQemu \/ SeeExit \/ Judge
             \/ StopNotify \/ Cleanup
    BY <1>1, <2>3 DEF CheckPrerequisites, Notify, StartQemu, SeeExit, Judge,
       StopNotify, Cleanup, Steps, Prepare
  <2> QED BY <1>1, <2>1, <2>2, <2>3 DEF Builder
<1>2. CASE Signal \/ HarnessStop
  BY <1>2 DEF Signal, HarnessStop, SignalBuilder, Steps
<1>3. CASE Process \/ OtherFile \/ HarnessSeesExit \/ HarnessKill \/ Tick
           \/ UNCHANGED vars
  BY <1>3 DEF Process, OtherFile, HarnessSeesExit, HarnessKill, Tick, vars, Steps
<1> QED BY <1>1, <1>2, <1>3 DEF Next, Harness

\* The timers and counters are typed: a timer that is over stops the clock.
LEMMA TimersTyped ==
  ASSUME TypeOK, [Next]_vars
  PROVE  /\ timer' \in 0 .. BuilderGrace /\ hTimer' \in 0 .. HarnessGrace
         /\ sent' \in 0 .. MaxSignals
         /\ harness' \in {"absent", "waiting", "grace", "returned"}
<1> USE QemuRunAssumption DEF TypeOK
<1>1. CASE Builder
  BY <1>1 DEF Builder, CheckPrerequisites, PrepareStep, Notify, StartQemu,
     SeeExit, PassSignalOn, KillQemu, Judge, StopNotify, Cleanup, overseer
<1>2. CASE Process \/ OtherFile \/ UNCHANGED vars
  BY <1>2 DEF Process, OtherFile, vars, overseer
<1>3. CASE Signal \/ Harness
  <2>1. CASE Signal
    <3>1. /\ sent < MaxSignals /\ sent' = sent + 1
          /\ UNCHANGED <<timer, harness, hTimer>>
      BY <2>1 DEF Signal
    <3> QED BY <3>1
  <2>2. CASE HarnessStop
    <3>1. /\ harness' = "grace" /\ hTimer' = HarnessGrace
          /\ UNCHANGED <<timer, sent>>
      BY <2>2 DEF HarnessStop
    <3> QED BY <3>1
  <2>3. CASE HarnessSeesExit \/ HarnessKill
    BY <2>3 DEF HarnessSeesExit, HarnessKill
  <2> QED BY <1>3, <2>1, <2>2, <2>3 DEF Harness
<1>4. CASE Tick
  BY <1>4 DEF Tick, Urgent
<1> QED BY <1>1, <1>2, <1>3, <1>4 DEF Next

\* The initial states are typed, with and without a harness.
LEMMA InitTyped == Init => TypeOK
<1> SUFFICES ASSUME Init PROVE TypeOK
  OBVIOUS
<1>1. harness \in {"absent", "waiting", "grace", "returned"}
  BY DEF Init
<1>2. pc \in Steps
  BY DEF Init, Steps
<1>3. /\ pending \in 0 .. ChannelSize /\ timer \in 0 .. BuilderGrace
      /\ hTimer \in 0 .. HarnessGrace /\ sent \in 0 .. MaxSignals
  BY QemuRunAssumption DEF Init, ChannelSize
<1>4. /\ supervised \in BOOLEAN /\ notified \in BOOLEAN /\ tempDir \in BOOLEAN
      /\ termed \in BOOLEAN /\ killed \in BOOLEAN /\ marker \in BOOLEAN
      /\ ownExit \in BOOLEAN
  BY DEF Init
<1>5. /\ result \in {"none", "ok", "failed"} /\ image \in {"none", "other", "ours"}
      /\ qemu \in {"none", "running", "zero", "error"}
  BY DEF Init
<1> QED BY <1>1, <1>2, <1>3, <1>4, <1>5 DEF TypeOK

\* Type correctness of every behaviour of one build and its overseers.
THEOREM TypeCorrect == Spec => []TypeOK
<1>1. Init => TypeOK
  BY InitTyped
<1>2. TypeOK /\ [Next]_vars => TypeOK'
  BY ProcessTyped, BuilderTyped, TimersTyped DEF TypeOK, ChannelSize
<1> QED BY <1>1, <1>2, PTL DEF Spec

-----------------------------------------------------------------------------
(* The inductive invariant.                                                *)

Handling == {"start", "select", "grace", "reap", "judge", "unnotify"}

\* Signals are caught exactly from signal.Notify to signal.Stop.
CaughtWhileHandling == ~Gone => (notified <=> pc \in Handling)

\* QEMU runs only under a builder that watches it, unless that was killed.
Watched == qemu = "running" => pc \in {"select", "grace", "reap", "dead", "uncaught"}

\* The builder's own signals to QEMU, in their order.
SignalsInOrder ==
  /\ killed => termed
  /\ pc = "grace" => termed
  /\ pc = "reap" => killed

\* While both timers run the builder's ends first, and the harness's does not
\* start to run down before the builder has taken the signal.
BuilderEndsFirst ==
  harness = "grace" /\ ~Gone
    => /\ pc \in Handling \cup {"cleanup"}
       /\ pc \in {"start", "select"} => pending > 0 /\ hTimer = HarnessGrace
       /\ pc = "grace" => timer < hTimer

HarnessOutlivesBuilder == harness = "returned" => Gone

\* An exit before anything was sent, as long as nothing was sent.
OwnExitRecorded == Exited /\ ~termed => ownExit

\* There is no result before QEMU's exit has been judged.
JudgedLast ==
  result # "none" => pc \in {"unnotify", "cleanup", "ended", "dead", "uncaught"}

Inv ==
  /\ TypeOK /\ CaughtWhileHandling /\ Watched /\ SignalsInOrder
  /\ BuilderEndsFirst /\ HarnessOutlivesBuilder /\ OwnExitRecorded /\ JudgedLast
  /\ SuccessIsOwnExit /\ NoQemuLeftBehind /\ EndsAfterQemu

\* The invariant holds before the build has done anything.
LEMMA InvInit == Init => Inv
<1> SUFFICES ASSUME Init PROVE Inv
  OBVIOUS
<1>1. harness # "grace" /\ harness # "returned"
  BY DEF Init
<1> QED BY <1>1, InitTyped
   DEF Init, Inv, CaughtWhileHandling, Watched, SignalsInOrder,
       BuilderEndsFirst, HarnessOutlivesBuilder, OwnExitRecorded,
       JudgedLast, SuccessIsOwnExit, NoQemuLeftBehind, EndsAfterQemu, Gone,
       Exited, Handling

\* The builder's steps preserve it.
LEMMA BuilderKeepsInv ==
  ASSUME Inv, Builder, TypeOK'
  PROVE  Inv'
<1> USE QemuRunAssumption
<1> USE DEF Inv, CaughtWhileHandling, Watched, SignalsInOrder,
        BuilderEndsFirst, HarnessOutlivesBuilder, OwnExitRecorded,
        JudgedLast, SuccessIsOwnExit, NoQemuLeftBehind, EndsAfterQemu, Gone, Exited,
        Handling, process, overseer
<1>1. CASE CheckPrerequisites
  BY <1>1 DEF CheckPrerequisites
<1>2. CASE PrepareStep
  BY <1>2 DEF PrepareStep, Prepare, NextStep
<1>3. CASE Notify
  BY <1>3 DEF Notify
<1>4. CASE StartQemu
  BY <1>4 DEF StartQemu
<1>5. CASE SeeExit
  BY <1>5 DEF SeeExit
<1>6. CASE PassSignalOn
  BY <1>6 DEF PassSignalOn, TypeOK
<1>7. CASE KillQemu
  BY <1>7 DEF KillQemu
<1>8. CASE Judge
  BY <1>8 DEF Judge, Succeeded
<1>9. CASE StopNotify
  BY <1>9 DEF StopNotify
<1>10. CASE Cleanup
  BY <1>10 DEF Cleanup
<1> QED BY <1>1, <1>2, <1>3, <1>4, <1>5, <1>6, <1>7, <1>8, <1>9, <1>10 DEF Builder

\* So do those of QEMU, of other programs, of signals, harness and time.
LEMMA OthersKeepInv ==
  ASSUME Inv, Process \/ OtherFile \/ Signal \/ Harness \/ Tick, TypeOK'
  PROVE  Inv'
<1> USE QemuRunAssumption
<1> USE DEF Inv, CaughtWhileHandling, Watched, SignalsInOrder,
        BuilderEndsFirst, HarnessOutlivesBuilder, OwnExitRecorded,
        JudgedLast, SuccessIsOwnExit, NoQemuLeftBehind, EndsAfterQemu, Gone, Exited,
        Handling, process, overseer
<1>1. CASE Process
  <2>1. CASE PrintMarker
    BY <1>1, <2>1 DEF Process, PrintMarker
  <2>2. CASE QemuExits
    <3>1. ~termed => ownExit'
      BY <2>2 DEF QemuExits
    <3> QED BY <1>1, <2>2, <3>1 DEF Process, QemuExits
  <2>3. CASE QemuDies
    BY <1>1, <2>3 DEF Process, QemuDies
  <2> QED BY <1>1, <2>1, <2>2, <2>3 DEF Process
<1>2. CASE OtherFile
  BY <1>2 DEF OtherFile
<1>3. CASE Signal
  BY <1>3 DEF Signal, SignalBuilder, TypeOK, ChannelSize
<1>4. CASE HarnessStop
  BY <1>4 DEF HarnessStop, SignalBuilder, TypeOK, ChannelSize
<1>5. CASE HarnessSeesExit
  BY <1>5 DEF HarnessSeesExit
<1>6. CASE HarnessKill
  BY <1>6 DEF HarnessKill, TypeOK
<1>7. CASE Tick
  BY <1>7 DEF Tick, Urgent, TypeOK
<1> QED BY <1>1, <1>2, <1>3, <1>4, <1>5, <1>6, <1>7 DEF Harness

\* What holds between the handling of signals, the two graces and QEMU's state
\* in every reachable state.
THEOREM RunInvariant == Spec => []Inv
<1>1. Init => Inv
  BY InvInit
<1>2. Inv /\ TypeOK' /\ [Next]_vars => Inv'
  <2>1. ASSUME Inv, TypeOK', UNCHANGED vars PROVE Inv'
    BY <2>1 DEF Inv, vars, CaughtWhileHandling, Watched, SignalsInOrder,
       BuilderEndsFirst, HarnessOutlivesBuilder, OwnExitRecorded,
       JudgedLast, SuccessIsOwnExit, NoQemuLeftBehind, EndsAfterQemu, Gone, Exited, Handling
  <2> QED BY <2>1, BuilderKeepsInv, OthersKeepInv DEF Next
<1> QED BY <1>1, <1>2, TypeCorrect, PTL DEF Spec

\* Success is QEMU's own exit, with status zero and no marker seen.
THEOREM SuccessIsOwnExitHolds == Spec => []SuccessIsOwnExit
BY RunInvariant, PTL DEF Inv

\* No end of the builder but by a signal it never catches leaves a QEMU running
\* that was not killed, not even the harness's SIGKILL: for every BuilderGrace
\* below HarnessGrace.
THEOREM NoQemuLeftBehindHolds == Spec => []NoQemuLeftBehind
BY RunInvariant, PTL DEF Inv

\* The builder's own end comes after QEMU's.
THEOREM EndsAfterQemuHolds == Spec => []EndsAfterQemu
BY RunInvariant, PTL DEF Inv
=============================================================================
