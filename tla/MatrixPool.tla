----------------------------- MODULE MatrixPool -----------------------------
(***************************************************************************)
(* runCases of cmd/e2e-matrix/main.go: the goroutine that sends the cases, *)
(* the workers that each run one case after the other, the goroutine that  *)
(* collects their results, and the exit code run makes of them.            *)
(*                                                                         *)
(* Both channels are unbuffered, so a send and its receive are one step.   *)
(* The cases share the run directory and the loopback ports.               *)
(***************************************************************************)
EXTENDS Naturals, FiniteSets

CONSTANTS
  NumCases,     \* len(cases)
  Concurrency,  \* the configured number of workers
  Keep,         \* the artifact retention policy
  CaseDir,      \* the directory of each case, named after its ID
  PortLimit     \* no port from here on is tried: 65000 in the code

ASSUME SizesAssumption == /\ NumCases \in Nat \ {0}
                          /\ Concurrency \in Nat \ {0}
                          /\ PortLimit \in Nat
ASSUME KeepAssumption == Keep \in {"all", "failures", "none"}
ASSUME CaseDirAssumption == DOMAIN CaseDir = 1..NumCases

Cases == 1..NumCases

\* workerCount
Workers == 1..(IF Concurrency > NumCases THEN NumCases ELSE Concurrency)

Dirs == {CaseDir[c] : c \in Cases}

VARIABLES
  cancelled,  \* SIGINT or SIGTERM arrived: the run's context is done
  next,       \* the case the sender offers next
  sender,     \* "sending", "waiting" after close(jobs), "done" after close(results)
  at,         \* where each worker is in its loop and in runCase
  job,        \* the case each worker received last, 0 before the first
  port,       \* the port its case was given, 0 without one
  booted,     \* the workers whose QEMU runs and listens on their port
  result,     \* what became of each case
  kept,       \* the cases whose result says that their artifacts are kept
  dirs,       \* the case directories that exist
  keys,       \* those that hold an SSH key
  collected,  \* the cases whose result was received
  exitCode    \* run's return value, 255 while it runs

case == <<result, kept, dirs, keys>>
vars == <<cancelled, next, sender, at, job, port, booted, result, kept, dirs,
          keys, collected, exitCode>>

Stages == {"mkdir", "keypair", "files", "install", "port", "boot", "verify",
           "finish"}
Places == Stages \cup {"receiving", "reporting", "exited"}

\* The workers that have a case in hand.
Active == {w \in Workers : at[w] \in Stages \cup {"reporting"}}

-----------------------------------------------------------------------------
(* The sender and the channels.                                            *)

\* Mutant: the loop over the cases runs once too often.
SendOneMore(w) ==
  /\ sender = "sending" /\ next <= NumCases + 1
  /\ at[w] = "receiving"
  /\ at' = [at EXCEPT ![w] = "mkdir"]
  /\ job' = [job EXCEPT ![w] = next]
  /\ next' = next + 1
  /\ UNCHANGED <<cancelled, sender, port, booted, case, collected, exitCode>>

Send(w) ==
  /\ sender = "sending" /\ next <= NumCases
  /\ at[w] = "receiving"
  /\ at' = [at EXCEPT ![w] = "mkdir"]
  /\ job' = [job EXCEPT ![w] = next]
  /\ next' = next + 1
  /\ UNCHANGED <<cancelled, sender, port, booted, case, collected, exitCode>>

\* close(jobs): after the last case, or when select sees the context done.
CloseJobs ==
  /\ sender = "sending" /\ (next > NumCases \/ cancelled)
  /\ sender' = "waiting"
  /\ UNCHANGED <<cancelled, next, at, job, port, booted, case, collected, exitCode>>

WorkersDone == sender = "waiting" /\ \A w \in Workers : at[w] = "exited"

\* close(results), after wg.Wait
CloseResults ==
  /\ WorkersDone
  /\ sender' = "done"
  /\ UNCHANGED <<cancelled, next, at, job, port, booted, case, collected, exitCode>>

\* Mutant: wg.Wait comes before close(jobs).
ExitAfterResults(w) ==
  /\ at[w] = "receiving" /\ sender = "done"
  /\ at' = [at EXCEPT ![w] = "exited"]
  /\ UNCHANGED <<cancelled, next, sender, job, port, booted, case, collected, exitCode>>

\* A worker's range over the closed channel ends.
Exit(w) ==
  /\ at[w] = "receiving" /\ sender # "sending"
  /\ at' = [at EXCEPT ![w] = "exited"]
  /\ UNCHANGED <<cancelled, next, sender, job, port, booted, case, collected, exitCode>>

Collect(w) ==
  /\ at[w] = "reporting" /\ sender # "done"
  /\ at' = [at EXCEPT ![w] = "receiving"]
  /\ collected' = collected \cup {job[w]}
  /\ UNCHANGED <<cancelled, next, sender, job, port, booted, case, exitCode>>

Failed == {c \in collected : result[c] = "fail"}

\* Mutant: only the summary decides.
SummaryCode == IF Failed # {} THEN 1 ELSE 0

ExitCode == IF cancelled THEN 130 ELSE IF Failed # {} THEN 1 ELSE 0

\* The results channel is closed: printSummary, then the context is read.
Finish ==
  /\ sender = "done" /\ exitCode = 255
  /\ exitCode' = ExitCode
  /\ UNCHANGED <<cancelled, next, sender, at, job, port, booted, case, collected>>

Cancel ==
  /\ ~cancelled /\ exitCode = 255
  /\ cancelled' = TRUE
  /\ UNCHANGED <<next, sender, at, job, port, booted, case, collected, exitCode>>

-----------------------------------------------------------------------------
(* runCase, by worker w on the case c it received.  Every stage may fail:  *)
(* on its own, by its timeout, or because the context is done.             *)

Dir(w) == CaseDir[job[w]]

Pool == <<cancelled, next, sender, job, collected, exitCode>>

Goto(w, place) == at' = [at EXCEPT ![w] = place]
Verdict(w, verdict) == result' = [result EXCEPT ![job[w]] = verdict]

FailCase(w) == /\ Goto(w, "finish")
               /\ Verdict(w, "fail")
               /\ UNCHANGED <<kept, dirs, keys, port, booted>>

\* An error here is returned as it is: finishCase does not run.
MakeCaseDir(w) ==
  /\ at[w] = "mkdir"
  /\ \/ /\ Goto(w, "keypair")
        /\ dirs' = dirs \cup {Dir(w)}
        /\ UNCHANGED result
     \/ Goto(w, "reporting") /\ Verdict(w, "fail") /\ UNCHANGED dirs
  /\ UNCHANGED <<Pool, port, booted, kept, keys>>

\* ssh-keygen does not overwrite a key.
GenerateKeypair(w) ==
  /\ at[w] = "keypair"
  /\ \/ /\ Dir(w) \in dirs \ keys
        /\ Goto(w, "files") /\ keys' = keys \cup {Dir(w)}
        /\ UNCHANGED <<result, kept, dirs, port, booted>>
     \/ FailCase(w)
  /\ UNCHANGED Pool

\* The user-data and the hardware config, the log and the image.
UseDir(w, from, to) ==
  /\ at[w] = from
  /\ \/ /\ Dir(w) \in dirs
        /\ Goto(w, to) /\ UNCHANGED <<case, port, booted>>
     \/ FailCase(w)
  /\ UNCHANGED Pool

WriteFiles(w) == UseDir(w, "files", "install")
RunInstaller(w) == UseDir(w, "install", "port")

\* Mutant: every case starts from the same port.
PortsFrom22000(c) == {p \in {22000 + 1000 * k : k \in 0..42} : p < PortLimit}

\* 22000 + c, and so on in steps of 1000
PortsOf(c) == {p \in {22000 + c + 1000 * k : k \in 0..42} : p < PortLimit}

\* tcpPortForCase: nobody listens there now; other programs take any port.
ChoosePort(w) ==
  /\ at[w] = "port"
  /\ \/ \E p \in PortsOf(job[w]) :
          /\ \A v \in booted : port[v] # p
          /\ port' = [port EXCEPT ![w] = p]
          /\ Goto(w, "boot")
          /\ UNCHANGED <<case, booted>>
     \/ FailCase(w)
  /\ UNCHANGED Pool

\* verifyBoot: the boot log and the image are in the case's directory.
Boot(w) ==
  /\ at[w] = "boot"
  /\ \/ /\ Dir(w) \in dirs
        /\ Goto(w, "verify")
        /\ booted' = IF \E v \in booted : port[v] = port[w]
                       THEN booted ELSE booted \cup {w}
        /\ UNCHANGED <<case, port>>
     \/ FailCase(w)
  /\ UNCHANGED Pool

\* waitForSSH and the checks; the deferred stopCommand ends QEMU either way.
Verify(w) ==
  /\ at[w] = "verify"
  /\ Goto(w, "finish")
  /\ \/ w \in booted /\ Verdict(w, "pass")
     \/ Verdict(w, "fail")
  /\ booted' = booted \ {w}
  /\ port' = [port EXCEPT ![w] = 0]
  /\ UNCHANGED <<Pool, kept, dirs, keys>>

Keeps(w) == ~(Keep = "none" \/ (Keep = "failures" /\ result[job[w]] = "pass"))

\* Mutant: the run directory is removed instead of the case's.
RunRoot(w) == Dirs

DirsToRemove(w) == {Dir(w)}

\* RemoveAll may fail, which is only logged.
FinishCase(w) ==
  /\ at[w] = "finish"
  /\ Goto(w, "reporting")
  /\ IF Keeps(w) THEN kept' = kept \cup {job[w]} /\ UNCHANGED <<dirs, keys>>
     ELSE /\ UNCHANGED kept
          /\ \/ dirs' = dirs \ DirsToRemove(w) /\ keys' = keys \ DirsToRemove(w)
             \/ UNCHANGED <<dirs, keys>>
  /\ port' = [port EXCEPT ![w] = 0]
  /\ UNCHANGED <<Pool, booted, result>>

RunCase(w) ==
  \/ MakeCaseDir(w) \/ GenerateKeypair(w) \/ WriteFiles(w) \/ RunInstaller(w)
  \/ ChoosePort(w) \/ Boot(w) \/ Verify(w) \/ FinishCase(w)

-----------------------------------------------------------------------------

Init ==
  /\ cancelled = FALSE /\ next = 1 /\ sender = "sending"
  /\ at = [w \in Workers |-> "receiving"]
  /\ job = [w \in Workers |-> 0]
  /\ port = [w \in Workers |-> 0] /\ booted = {}
  /\ result = [c \in Cases |-> "none"]
  /\ kept = {} /\ dirs = {} /\ keys = {}
  /\ collected = {} /\ exitCode = 255

Worker(w) == Exit(w) \/ RunCase(w)

Next ==
  \/ CloseJobs \/ CloseResults \/ Finish \/ Cancel
  \/ \E w \in Workers : Send(w) \/ Collect(w) \/ Worker(w)

\* The goroutines are scheduled, and every stage of a case has a timeout or
\* ends by itself.  Nobody has to interrupt the run.
Spec ==
  /\ Init /\ [][Next]_vars
  /\ WF_vars(CloseJobs) /\ WF_vars(CloseResults) /\ WF_vars(Finish)
  /\ WF_vars(\E w \in Workers : Send(w))
  /\ \A w \in Workers : WF_vars(Collect(w)) /\ WF_vars(Worker(w))

-----------------------------------------------------------------------------

\* Every variable keeps the type the code gives it.
TypeOK ==
  /\ cancelled \in BOOLEAN
  /\ next \in 1..(NumCases + 1)
  /\ sender \in {"sending", "waiting", "done"}
  /\ at \in [Workers -> Places]
  /\ job \in [Workers -> 0..NumCases]
  /\ port \in [Workers -> Nat] /\ booted \in SUBSET Workers
  /\ result \in [Cases -> {"none", "pass", "fail"}]
  /\ kept \in SUBSET Cases
  /\ dirs \in SUBSET Dirs /\ keys \in SUBSET Dirs
  /\ collected \in SUBSET Cases
  /\ exitCode \in {0, 1, 130, 255}

\* Exit code 0 is only given to a run in which every case of the matrix was
\* run, reported and passed: no case is lost between the channels, and an
\* interrupted run that skipped cases does not look like a success.
ExitZeroMeansAllPassed ==
  exitCode = 0 => collected = Cases /\ \A c \in Cases : result[c] = "pass"

\* The port check and QEMU's bind are two steps: no other case may have taken
\* the port in between, so that no case logs in to the VM of another.
PortsNotShared ==
  \A v, w \in Workers :
    v # w /\ port[v] # 0 /\ port[w] # 0 => port[v] # port[w]

\* README: a failed case's directory is kept, with its logs, for inspection.
\* A case reported as kept has its directory, whatever the other cases do.
KeptArtifactsExist == \A c \in kept : CaseDir[c] \in dirs
=============================================================================
