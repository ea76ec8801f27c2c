--------------------------- MODULE MatrixRunProofs ---------------------------
(***************************************************************************)
(* Proofs about MatrixPool for every number of cases, every concurrency    *)
(* and every retention policy, and about MatrixRun for every number of     *)
(* harnesses on one cache, of versions, chunks and kills.                  *)
(*                                                                         *)
(* The core of the pool is JobInv: the cases that workers have in hand are *)
(* pairwise different, were sent, and are not yet collected; and every     *)
(* case that was sent is in hand or collected.  The ports, the directories *)
(* and the exit code follow from it.                                       *)
(*                                                                         *)
(* The core of the cache is CopyInv: as long as no two downloads of a name *)
(* overlapped, at most one harness has a file open that is not whole yet,  *)
(* and no name of an ISO leads to it.                                      *)
(***************************************************************************)
EXTENDS MatrixRun, FiniteSetTheorems, TLAPS

JobInv ==
  /\ \A w \in Active : job[w] \in Cases /\ job[w] < next /\ job[w] \notin collected
  /\ \A v, w \in Active : job[v] = job[w] => v = w
  /\ \A c \in collected : c < next

SentInv ==
  \A c \in Cases : c < next => c \in collected \/ \E w \in Active : job[w] = c

VerdictInv ==
  /\ \A w \in Workers : at[w] \in {"finish", "reporting"} => result[job[w]] # "none"
  /\ \A c \in collected : result[c] # "none"

SenderInv ==
  /\ sender # "sending" => cancelled \/ next = NumCases + 1
  /\ sender = "done" => \A w \in Workers : at[w] = "exited"
  /\ exitCode # 255 => sender = "done"
  /\ exitCode = 0 => ~cancelled /\ \A c \in collected : result[c] # "fail"

PortInv ==
  \A w \in Workers : port[w] # 0 => /\ at[w] \in {"boot", "verify", "finish"}
                                    /\ port[w] \in PortsOf(job[w])

DirInv ==
  /\ \A w \in Workers : at[w] \in Stages \ {"mkdir"} => CaseDir[job[w]] \in dirs
  /\ \A c \in kept : /\ CaseDir[c] \in dirs
                     /\ c \in collected \/ \E w \in Workers : at[w] = "reporting" /\ job[w] = c

-----------------------------------------------------------------------------
(* Typing.                                                                 *)

\* Workers and cases are counted, and there is a case.
LEMMA WorkersAreNumbers == Workers \subseteq Nat /\ NumCases \in Nat \ {0}
BY SizesAssumption DEF Workers

\* The ports tried for a case are numbers.
LEMMA PortsAreNumbers == \A c \in Cases : PortsOf(c) \subseteq Nat \ {0}
BY SizesAssumption DEF PortsOf, Cases

\* Where runCase takes its worker, and what it changes at most.
CaseFrame(w) ==
  /\ UNCHANGED Pool
  /\ at[w] \in Stages
  /\ \E s \in Stages \cup {"reporting"} : at' = [at EXCEPT ![w] = s]
  /\ result' = result \/ \E v \in {"pass", "fail"} : Verdict(w, v)
  /\ port' = port \/ \E p \in {0} \cup PortsOf(job[w]) : port' = [port EXCEPT ![w] = p]
  /\ booted' \in {booted, booted \cup {w}, booted \ {w}}
  /\ kept' \in {kept, kept \cup {job[w]}}
  /\ dirs' \in {dirs, dirs \cup {Dir(w)}, dirs \ {Dir(w)}}
  /\ keys' \in {keys, keys \cup {Dir(w)}, keys \ {Dir(w)}}

\* The steps of a case are steps of one worker, on its own case's state.
LEMMA RunCaseFrame == ASSUME NEW w \in Workers, RunCase(w) PROVE CaseFrame(w)
<1> USE DEF CaseFrame, case, Goto
<1>0. ASSUME FailCase(w), at[w] \in Stages, UNCHANGED Pool PROVE CaseFrame(w)
  BY <1>0 DEF FailCase, Stages
<1>1. CASE MakeCaseDir(w)
  <2>1. at[w] \in Stages /\ UNCHANGED Pool
    BY <1>1 DEF MakeCaseDir, Stages
  <2>2. \E s \in Stages \cup {"reporting"} : at' = [at EXCEPT ![w] = s]
    BY <1>1 DEF MakeCaseDir, Stages
  <2>3. QED BY <1>1, <2>1, <2>2 DEF MakeCaseDir
<1>2. CASE GenerateKeypair(w)
  <2>1. at[w] \in Stages /\ UNCHANGED Pool
    BY <1>2 DEF GenerateKeypair, Stages
  <2>2. CASE Goto(w, "files")
    BY <1>2, <1>0, <2>1, <2>2 DEF GenerateKeypair, Stages
  <2>3. QED BY <1>2, <1>0, <2>1, <2>2 DEF GenerateKeypair
<1>3. ASSUME NEW from \in Stages, NEW to \in Stages, UseDir(w, from, to)
      PROVE  CaseFrame(w)
  BY <1>0, <1>3 DEF UseDir
<1>4. CASE WriteFiles(w) \/ RunInstaller(w)
  BY <1>3, <1>4 DEF WriteFiles, RunInstaller, Stages
<1>5. CASE ChoosePort(w)
  BY <1>0, <1>5 DEF ChoosePort, Stages
<1>6. CASE Boot(w)
  BY <1>0, <1>6 DEF Boot, Stages
<1>7. CASE Verify(w)
  BY <1>7 DEF Verify, Stages
<1>8. CASE FinishCase(w)
  BY <1>8 DEF FinishCase, DirsToRemove, Stages
<1>9. QED
  BY <1>1, <1>2, <1>4, <1>5, <1>6, <1>7, <1>8 DEF RunCase

\* Such a step keeps the types.
LEMMA RunCaseTypes ==
  ASSUME TypeOK, NEW w \in Workers, CaseFrame(w), job[w] \in Cases
  PROVE  TypeOK'
<1>1. Dir(w) \in Dirs
  BY DEF Dir, Dirs
<1>2. PortsOf(job[w]) \subseteq Nat
  BY PortsAreNumbers
<1>3. at' \in [Workers -> Places] /\ result' \in [Cases -> {"none", "pass", "fail"}]
  BY DEF CaseFrame, TypeOK, Verdict, Places
<1>4. port' \in [Workers -> Nat]
  BY <1>2 DEF CaseFrame, TypeOK
<1>5. booted' \in SUBSET Workers /\ kept' \in SUBSET Cases
  BY DEF CaseFrame, TypeOK
<1>6. dirs' \in SUBSET Dirs /\ keys' \in SUBSET Dirs
  BY <1>1 DEF CaseFrame, TypeOK
<1>7. QED
  BY <1>3, <1>4, <1>5, <1>6 DEF CaseFrame, Pool, TypeOK

\* The pool starts with its types.
LEMMA TypeInit == Init => TypeOK
<1> SUFFICES ASSUME Init PROVE TypeOK
  OBVIOUS
<1> USE WorkersAreNumbers DEF Init
<1>1. at \in [Workers -> Places] /\ sender \in {"sending", "waiting", "done"}
  BY DEF Places
<1>2. job \in [Workers -> 0..NumCases] /\ port \in [Workers -> Nat]
  OBVIOUS
<1>3. result \in [Cases -> {"none", "pass", "fail"}] /\ next \in 1..(NumCases + 1)
  OBVIOUS
<1>4. QED BY <1>1, <1>2, <1>3 DEF TypeOK

\* Every step keeps them.
LEMMA TypeStep == TypeOK /\ JobInv /\ [Next]_vars => TypeOK'
<1> SUFFICES ASSUME TypeOK, JobInv, [Next]_vars PROVE TypeOK'
  OBVIOUS
<1> USE WorkersAreNumbers DEF case
<1>1. CASE CloseJobs
  BY <1>1 DEF CloseJobs, TypeOK
<1>2. CASE CloseResults
  BY <1>2 DEF CloseResults, TypeOK
<1>3. CASE Finish
  BY <1>3 DEF Finish, ExitCode, TypeOK
<1>4. CASE Cancel
  BY <1>4 DEF Cancel, TypeOK
<1>5. ASSUME NEW w \in Workers, Send(w) PROVE TypeOK'
  BY <1>5 DEF Send, TypeOK, Places, Stages
<1>6. ASSUME NEW w \in Workers, Collect(w) PROVE TypeOK'
  <2>1. w \in Active
    BY <1>6 DEF Collect, Active
  <2>2. QED BY <1>6, <2>1 DEF Collect, TypeOK, Places, JobInv
<1>7. ASSUME NEW w \in Workers, Exit(w) PROVE TypeOK'
  BY <1>7 DEF Exit, TypeOK, Places
<1>8. ASSUME NEW w \in Workers, RunCase(w) PROVE TypeOK'
  <2>1. CaseFrame(w)
    BY <1>8, RunCaseFrame
  <2>2. job[w] \in Cases
    BY <2>1 DEF JobInv, Active, CaseFrame
  <2>3. QED BY <2>1, <2>2, RunCaseTypes
<1>9. CASE UNCHANGED vars
  BY <1>9 DEF vars, TypeOK
<1>10. QED
  BY <1>1, <1>2, <1>3, <1>4, <1>5, <1>6, <1>7, <1>8, <1>9 DEF Next, Worker
-----------------------------------------------------------------------------
(* The cases in hand.                                                      *)

\* The pool starts with every case unassigned.
LEMMA JobInit == Init => JobInv /\ SentInv /\ VerdictInv /\ SenderInv
BY WorkersAreNumbers DEF Init, JobInv, SentInv, VerdictInv, SenderInv, Active,
     Stages, Cases

\* A worker in runCase stays active: nothing changes about who has which case.
LEMMA RunCaseKeepsJobs ==
  ASSUME TypeOK, NEW w \in Workers, CaseFrame(w)
  PROVE  Active' = Active /\ UNCHANGED Pool
BY DEF CaseFrame, Active, TypeOK, Pool, Stages

\* A case is handed to one worker: the channel gives each index once.
LEMMA JobStep == TypeOK /\ JobInv /\ [Next]_vars => JobInv'
<1> SUFFICES ASSUME TypeOK, JobInv, [Next]_vars PROVE JobInv'
  OBVIOUS
<1>1. CASE CloseJobs \/ CloseResults \/ Finish \/ Cancel \/ UNCHANGED vars
  BY <1>1 DEF CloseJobs, CloseResults, Finish, Cancel, vars, case, JobInv, Active
<1>2. ASSUME NEW w \in Workers, Send(w) PROVE JobInv'
  <2>1. Active' = Active \cup {w} /\ w \notin Active
    BY <1>2 DEF Send, Active, TypeOK, Stages
  <2>2. job' = [job EXCEPT ![w] = next] /\ next \in Cases /\ next' = next + 1
    BY <1>2, WorkersAreNumbers DEF Send, TypeOK, Cases
  <2>3. collected' = collected /\ next \notin collected
    BY <1>2, <2>2 DEF Send, JobInv, TypeOK
  <2>4. QED BY <2>1, <2>2, <2>3 DEF JobInv, TypeOK, Active
<1>3. ASSUME NEW w \in Workers, Collect(w) PROVE JobInv'
  <2>1. Active' = Active \ {w} /\ w \in Active
    BY <1>3 DEF Collect, Active, TypeOK, Stages
  <2>2. UNCHANGED <<job, next>> /\ collected' = collected \cup {job[w]}
    BY <1>3 DEF Collect
  <2>3. QED BY <2>1, <2>2 DEF JobInv
<1>4. ASSUME NEW w \in Workers, Exit(w) PROVE JobInv'
  <2>1. Active' = Active /\ UNCHANGED <<job, next, collected>>
    BY <1>4 DEF Exit, Active, TypeOK, Stages
  <2>2. QED BY <2>1 DEF JobInv
<1>5. ASSUME NEW w \in Workers, RunCase(w) PROVE JobInv'
  <2>1. Active' = Active /\ UNCHANGED Pool
    BY <1>5, RunCaseFrame, RunCaseKeepsJobs
  <2>2. QED BY <2>1 DEF JobInv, Pool
<1>6. QED
  BY <1>1, <1>2, <1>3, <1>4, <1>5 DEF Next, Worker
\* Every case that was sent is in some worker's hand or collected.
LEMMA SentStep == TypeOK /\ SentInv /\ [Next]_vars => SentInv'
<1> SUFFICES ASSUME TypeOK, SentInv, [Next]_vars PROVE SentInv'
  OBVIOUS
<1>1. CASE CloseJobs \/ CloseResults \/ Finish \/ Cancel \/ UNCHANGED vars
  BY <1>1 DEF CloseJobs, CloseResults, Finish, Cancel, vars, case, SentInv, Active
<1>2. ASSUME NEW w \in Workers, Send(w) PROVE SentInv'
  <2>1. Active' = Active \cup {w} /\ w \notin Active
    BY <1>2 DEF Send, Active, TypeOK, Stages
  <2>2. job' = [job EXCEPT ![w] = next] /\ next \in Nat /\ next' = next + 1
    BY <1>2 DEF Send, TypeOK
  <2>3. \A v \in Active : job'[v] = job[v]
    BY <2>1, <2>2 DEF TypeOK, Active
  <2>4. job'[w] = next /\ w \in Active' /\ UNCHANGED collected
    BY <1>2, <2>1, <2>2 DEF Send, TypeOK
  <2>5. \A c \in Cases : c < next' => c < next \/ c = next
    BY <2>2 DEF Cases
  <2>6. QED BY <2>1, <2>3, <2>4, <2>5 DEF SentInv
<1>3. ASSUME NEW w \in Workers, Collect(w) PROVE SentInv'
  <2>1. Active' = Active \ {w}
    BY <1>3 DEF Collect, Active, TypeOK, Stages
  <2>2. UNCHANGED <<job, next>> /\ collected' = collected \cup {job[w]}
    BY <1>3 DEF Collect
  <2>3. QED BY <2>1, <2>2 DEF SentInv
<1>4. ASSUME NEW w \in Workers, Exit(w) PROVE SentInv'
  <2>1. Active' = Active /\ UNCHANGED <<job, next, collected>>
    BY <1>4 DEF Exit, Active, TypeOK, Stages
  <2>2. QED BY <2>1 DEF SentInv
<1>5. ASSUME NEW w \in Workers, RunCase(w) PROVE SentInv'
  <2>1. Active' = Active /\ UNCHANGED Pool
    BY <1>5, RunCaseFrame, RunCaseKeepsJobs
  <2>2. QED BY <2>1 DEF SentInv, Pool
<1>6. QED
  BY <1>1, <1>2, <1>3, <1>4, <1>5 DEF Next, Worker

\* A case that is reported or collected has a verdict, for good.
LEMMA VerdictStep == TypeOK /\ JobInv /\ VerdictInv /\ [Next]_vars => VerdictInv'
<1> SUFFICES ASSUME TypeOK, JobInv, VerdictInv, [Next]_vars PROVE VerdictInv'
  OBVIOUS
<1>1. CASE CloseJobs \/ CloseResults \/ Finish \/ Cancel \/ UNCHANGED vars
  BY <1>1 DEF CloseJobs, CloseResults, Finish, Cancel, vars, case, VerdictInv
<1>2. ASSUME NEW w \in Workers, Send(w) \/ Collect(w) \/ Exit(w) PROVE VerdictInv'
  <2>1. UNCHANGED result
    BY <1>2 DEF Send, Collect, Exit, case
  <2>2. \A v \in Workers : at'[v] \in {"finish", "reporting"} =>
                             at'[v] = at[v] /\ job'[v] = job[v]
    BY <1>2 DEF Send, Collect, Exit, TypeOK
  <2>3. \A c \in collected' : c \in collected \/ (at[w] = "reporting" /\ c = job[w])
    BY <1>2 DEF Send, Collect, Exit
  <2>4. QED BY <2>1, <2>2, <2>3 DEF VerdictInv
<1>3. ASSUME NEW w \in Workers, RunCase(w) PROVE VerdictInv'
  <2>1. CaseFrame(w) /\ UNCHANGED Pool /\ Active' = Active
    BY <1>3, RunCaseFrame, RunCaseKeepsJobs
  <2>2. w \in Active /\ job[w] \in Cases /\ job[w] \notin collected
    BY <2>1 DEF CaseFrame, Active, JobInv
  <2>3. \A c \in Cases : result'[c] = result[c] \/ (c = job[w] /\ result'[c] # "none")
    BY <2>1, <2>2 DEF CaseFrame, Verdict, TypeOK
  <2>4. at'[w] \in {"finish", "reporting"} => result'[job[w]] # "none"
    <3>1. ASSUME Goto(w, "finish") \/ Goto(w, "reporting")
          PROVE  result'[job[w]] # "none"
      <4>1. CASE FailCase(w)
        BY <2>2, <4>1 DEF FailCase, Verdict, TypeOK
      <4>2. CASE FinishCase(w)
        BY <2>2, <4>2 DEF FinishCase, VerdictInv
      <4>3. CASE MakeCaseDir(w)
        BY <2>2, <3>1, <4>3 DEF MakeCaseDir, Goto, Verdict, TypeOK
      <4>4. CASE Verify(w)
        BY <2>2, <4>4 DEF Verify, Verdict, TypeOK
      <4>5. CASE GenerateKeypair(w)
        BY <3>1, <4>1, <4>5 DEF GenerateKeypair, Goto, TypeOK
      <4>6. CASE WriteFiles(w) \/ RunInstaller(w)
        BY <3>1, <4>1, <4>6 DEF WriteFiles, RunInstaller, UseDir, Goto, TypeOK
      <4>7. CASE ChoosePort(w) \/ Boot(w)
        BY <3>1, <4>1, <4>7 DEF ChoosePort, Boot, Goto, TypeOK
      <4>8. QED
        BY <1>3, <4>2, <4>3, <4>4, <4>5, <4>6, <4>7 DEF RunCase
    <3>2. PICK s \in Stages \cup {"reporting"} : at' = [at EXCEPT ![w] = s]
      BY <2>1 DEF CaseFrame
    <3>3. at'[w] = s
      BY <3>2 DEF TypeOK
    <3>4. QED BY <3>1, <3>2, <3>3 DEF Goto
  <2>5. \A v \in Workers : v # w => at'[v] = at[v]
    BY <2>1 DEF CaseFrame, TypeOK
  <2>6. \A v \in Workers \ {w} : at[v] \in {"finish", "reporting"} =>
           job[v] \in Cases /\ result'[job[v]] # "none"
    BY <2>3 DEF VerdictInv, JobInv, Active, Stages
  <2>7. UNCHANGED <<job, collected>> /\ collected \subseteq Cases
    BY <2>1 DEF Pool, TypeOK
  <2>8. \A c \in collected : result'[c] # "none"
    BY <2>3, <2>7 DEF VerdictInv
  <2>9. QED BY <2>4, <2>5, <2>6, <2>7, <2>8 DEF VerdictInv
<1>4. QED
  BY <1>1, <1>2, <1>3 DEF Next, Worker

\* The sender stops early only after an interrupt; results is closed last.
LEMMA SenderStep == TypeOK /\ JobInv /\ SenderInv /\ [Next]_vars => SenderInv'
<1> SUFFICES ASSUME TypeOK, JobInv, SenderInv, [Next]_vars PROVE SenderInv'
  OBVIOUS
<1>1. CASE CloseJobs
  BY <1>1, WorkersAreNumbers DEF CloseJobs, SenderInv, TypeOK, case
<1>2. CASE CloseResults
  BY <1>2 DEF CloseResults, WorkersDone, SenderInv, case
<1>3. CASE Finish
  BY <1>3 DEF Finish, ExitCode, Failed, SenderInv, case
<1>4. CASE Cancel
  BY <1>4 DEF Cancel, SenderInv, case
<1>5. ASSUME NEW w \in Workers, Send(w) PROVE SenderInv'
  BY <1>5 DEF Send, SenderInv, case
<1>6. ASSUME NEW w \in Workers, Collect(w) PROVE SenderInv'
  BY <1>6 DEF Collect, SenderInv, TypeOK, case
<1>7. ASSUME NEW w \in Workers, Exit(w) PROVE SenderInv'
  BY <1>7 DEF Exit, SenderInv, TypeOK, case
<1>8. ASSUME NEW w \in Workers, RunCase(w) PROVE SenderInv'
  <2>1. CaseFrame(w)
    BY <1>8, RunCaseFrame
  <2>2. sender # "done" /\ exitCode = 255
    BY <2>1 DEF CaseFrame, SenderInv, Stages
  <2>3. QED BY <2>1, <2>2 DEF CaseFrame, Pool, SenderInv
<1>9. CASE UNCHANGED vars
  BY <1>9 DEF vars, SenderInv, case
<1>10. QED
  BY <1>1, <1>2, <1>3, <1>4, <1>5, <1>6, <1>7, <1>8, <1>9 DEF Next, Worker
-----------------------------------------------------------------------------
(* The ports and the directories of the cases in hand.                     *)

\* The pool starts with no port reserved and no directory made.
LEMMA PortInit == Init => PortInv /\ DirInv
BY DEF Init, PortInv, DirInv, Stages

\* The port that a case holds was free when it reserved it.
LEMMA PortStep == TypeOK /\ PortInv /\ [Next]_vars => PortInv'
<1> SUFFICES ASSUME TypeOK, PortInv, [Next]_vars PROVE PortInv'
  OBVIOUS
<1>1. CASE CloseJobs \/ CloseResults \/ Finish \/ Cancel \/ UNCHANGED vars
  BY <1>1 DEF CloseJobs, CloseResults, Finish, Cancel, vars, case, PortInv
<1>2. ASSUME NEW w \in Workers, Send(w) \/ Collect(w) \/ Exit(w) PROVE PortInv'
  <2>1. /\ UNCHANGED port /\ port[w] = 0
        /\ \A v \in Workers \ {w} : at'[v] = at[v] /\ job'[v] = job[v]
    BY <1>2 DEF Send, Collect, Exit, PortInv, TypeOK
  <2>2. QED BY <2>1 DEF PortInv
<1>3. ASSUME NEW w \in Workers, RunCase(w) PROVE PortInv'
  <2>1. CaseFrame(w) /\ UNCHANGED job
    BY <1>3, RunCaseFrame DEF CaseFrame, Pool
  <2>2. \A v \in Workers \ {w} : at'[v] = at[v] /\ port'[v] = port[v]
    BY <2>1 DEF CaseFrame, TypeOK
  <2>3. port'[w] # 0 => /\ at'[w] \in {"boot", "verify", "finish"}
                        /\ port'[w] \in PortsOf(job[w])
    <3>1. CASE MakeCaseDir(w) \/ GenerateKeypair(w)
      BY <3>1 DEF MakeCaseDir, GenerateKeypair, FailCase, PortInv
    <3>2. CASE WriteFiles(w) \/ RunInstaller(w)
      BY <3>2 DEF WriteFiles, RunInstaller, UseDir, FailCase, PortInv
    <3>3. CASE ChoosePort(w)
      <4>1. CASE FailCase(w)
        BY <3>3, <4>1 DEF ChoosePort, FailCase, PortInv
      <4>2. CASE \E p \in PortsOf(job[w]) :
                   port' = [port EXCEPT ![w] = p] /\ Goto(w, "boot")
        BY <4>2 DEF Goto, TypeOK
      <4>3. QED BY <3>3, <4>1, <4>2 DEF ChoosePort
    <3>4. CASE Boot(w)
      BY <3>4 DEF Boot, FailCase, Goto, PortInv, TypeOK
    <3>5. CASE Verify(w) \/ FinishCase(w)
      BY <3>5 DEF Verify, FinishCase, TypeOK
    <3>6. QED BY <1>3, <3>1, <3>2, <3>3, <3>4, <3>5 DEF RunCase
  <2>4. QED BY <2>1, <2>2, <2>3 DEF PortInv
<1>4. QED
  BY <1>1, <1>2, <1>3 DEF Next, Worker

\* With one directory per case, only its own worker removes it.
LEMMA DirStep ==
  ASSUME \A c, d \in Cases : CaseDir[c] = CaseDir[d] => c = d
  PROVE  TypeOK /\ JobInv /\ DirInv /\ [Next]_vars => DirInv'
<1> SUFFICES ASSUME TypeOK, JobInv, DirInv, [Next]_vars PROVE DirInv'
  OBVIOUS
<1>1. CASE CloseJobs \/ CloseResults \/ Finish \/ Cancel \/ UNCHANGED vars
  BY <1>1 DEF CloseJobs, CloseResults, Finish, Cancel, vars, case, DirInv
<1>2. ASSUME NEW w \in Workers, Send(w) \/ Collect(w) \/ Exit(w) PROVE DirInv'
  <2>1. UNCHANGED <<dirs, kept>>
    BY <1>2 DEF Send, Collect, Exit, case
  <2>2. \A v \in Workers : at'[v] \in (Stages \ {"mkdir"}) \cup {"reporting"} =>
                             at'[v] = at[v] /\ job'[v] = job[v]
    BY <1>2 DEF Send, Collect, Exit, TypeOK, Stages
  <2>3. \A v \in Workers : at[v] = "reporting" =>
          \/ at'[v] = "reporting" /\ job'[v] = job[v]
          \/ job[v] \in collected'
    BY <1>2 DEF Send, Collect, Exit, TypeOK
  <2>4. collected \subseteq collected'
    BY <1>2 DEF Send, Collect, Exit
  <2>5. QED BY <2>1, <2>2, <2>3, <2>4 DEF DirInv
<1>3. ASSUME NEW w \in Workers, RunCase(w) PROVE DirInv'
  <2>1. CaseFrame(w) /\ UNCHANGED <<job, collected>>
    BY <1>3, RunCaseFrame DEF CaseFrame, Pool
  <2>2. w \in Active /\ job[w] \in Cases
    BY <2>1 DEF CaseFrame, Active, JobInv
  <2>3. \A v \in Workers \ {w} : at'[v] = at[v]
    BY <2>1 DEF CaseFrame, TypeOK
  <2>4. dirs \ {CaseDir[job[w]]} \subseteq dirs'
    BY <2>1 DEF CaseFrame, Dir
  <2>5. \A v \in Active \ {w} : CaseDir[job[v]] # CaseDir[job[w]]
    BY <2>2 DEF JobInv
  <2>6. \A v \in Workers \ {w} : at'[v] \in Stages \ {"mkdir"} =>
                                   CaseDir[job[v]] \in dirs'
    BY <2>3, <2>4, <2>5 DEF DirInv, Active
  <2>7. at'[w] \in Stages \ {"mkdir"} => CaseDir[job[w]] \in dirs'
    <3>1. CASE MakeCaseDir(w)
      BY <3>1 DEF MakeCaseDir, Dir, Goto, TypeOK, Stages
    <3>2. CASE FinishCase(w)
      BY <3>2 DEF FinishCase, Goto, TypeOK, Stages
    <3>3. CASE UNCHANGED dirs /\ at[w] \in Stages \ {"mkdir"}
      BY <3>3 DEF DirInv
    <3>4. ASSUME GenerateKeypair(w) \/ WriteFiles(w) \/ RunInstaller(w)
                   \/ ChoosePort(w) \/ Boot(w) \/ Verify(w)
          PROVE  UNCHANGED dirs /\ at[w] \in Stages \ {"mkdir"}
      BY <3>4 DEF GenerateKeypair, WriteFiles, RunInstaller, UseDir, ChoosePort,
           Boot, Verify, FailCase, case, Stages
    <3>5. QED BY <1>3, <3>1, <3>2, <3>3, <3>4 DEF RunCase
  <2>8. \A c \in kept : /\ CaseDir[c] \in dirs'
                        /\ c \in collected \/ \E v \in Workers : at'[v] = "reporting" /\ job[v] = c
    <3>1. SUFFICES ASSUME NEW c \in kept
                   PROVE  /\ CaseDir[c] \in dirs'
                          /\ c \in collected \/ \E v \in Workers : at'[v] = "reporting" /\ job[v] = c
      OBVIOUS
    <3>2. c \in Cases /\ c # job[w]
      BY <2>1, <2>2 DEF DirInv, JobInv, CaseFrame, Active, TypeOK, Stages
    <3>3. CaseDir[c] # CaseDir[job[w]]
      BY <2>2, <3>2
    <3>4. CaseDir[c] \in dirs'
      BY <2>4, <3>3 DEF DirInv
    <3>5. c \in collected \/ \E v \in Workers \ {w} : at[v] = "reporting" /\ job[v] = c
      BY <3>2 DEF DirInv
    <3>6. QED BY <2>3, <3>4, <3>5
  <2>9. CASE UNCHANGED kept
    BY <2>1, <2>6, <2>7, <2>8, <2>9 DEF DirInv
  <2>10. CASE FinishCase(w) /\ Keeps(w)
    <3>1. kept' = kept \cup {job[w]} /\ UNCHANGED dirs /\ at'[w] = "reporting"
      BY <2>10 DEF FinishCase, Goto, TypeOK
    <3>2. CaseDir[job[w]] \in dirs'
      BY <2>10, <3>1 DEF FinishCase, DirInv, Stages
    <3>3. QED BY <2>1, <2>6, <2>7, <2>8, <3>1, <3>2 DEF DirInv
  <2>11. UNCHANGED kept \/ (FinishCase(w) /\ Keeps(w))
    BY <1>3 DEF RunCase, MakeCaseDir, GenerateKeypair, WriteFiles, RunInstaller,
         UseDir, ChoosePort, Boot, Verify, FinishCase, FailCase, case
  <2>12. QED BY <2>9, <2>10, <2>11
<1>4. QED
  BY <1>1, <1>2, <1>3 DEF Next, Worker
-----------------------------------------------------------------------------
(* The theorems.                                                           *)

PoolInv == TypeOK /\ JobInv /\ SentInv /\ VerdictInv /\ SenderInv /\ PortInv

\* No step of the pool breaks a part of the invariant.
LEMMA PoolStep == PoolInv /\ [Next]_vars => PoolInv'
  BY TypeStep, JobStep, SentStep, VerdictStep, SenderStep, PortStep DEF PoolInv

\* The inductive invariant: no case is in two workers' hands, none is lost
\* between the channels, none is reported without a verdict.
THEOREM PoolInvariant == Spec => []PoolInv
<1>1. Init => PoolInv
  BY TypeInit, JobInit, PortInit DEF PoolInv
<1>2. QED
  BY <1>1, PoolStep, PTL DEF Spec

\* Every variable of the pool keeps its type, for every number of cases and
\* workers.
THEOREM TypeCorrect == Spec => []TypeOK
<1>1. PoolInv => TypeOK
  BY DEF PoolInv
<1>2. QED
  BY <1>1, PoolInvariant, PTL

\* What the invariant says of a run whose exit code is 0.
LEMMA ZeroMeansAll == PoolInv => ExitZeroMeansAllPassed
<1>1. SUFFICES ASSUME PoolInv, exitCode = 0
               PROVE  collected = Cases /\ \A c \in Cases : result[c] = "pass"
  BY DEF ExitZeroMeansAllPassed
<1>2. sender = "done" /\ next = NumCases + 1 /\ \A c \in collected : result[c] # "fail"
  BY <1>1 DEF PoolInv, SenderInv
<1>3. Active = {}
  BY <1>1, <1>2 DEF PoolInv, SenderInv, Active, Stages
<1>4. \A c \in Cases : c \in collected
  <2>1. \A c \in Cases : c < next
    BY <1>2, WorkersAreNumbers DEF Cases
  <2>2. QED BY <1>1, <1>3, <2>1 DEF PoolInv, SentInv
<1>5. collected = Cases
  <2>1. collected \subseteq Cases
    BY <1>1 DEF PoolInv, TypeOK
  <2>2. QED BY <1>4, <2>1
<1>6. \A c \in Cases : result[c] = "pass"
  BY <1>1, <1>2, <1>5 DEF PoolInv, VerdictInv, TypeOK
<1>7. QED BY <1>5, <1>6

\* Exit code 0 means that every case of the matrix was run, collected, and
\* passed.
THEOREM ExitZeroHolds == Spec => []ExitZeroMeansAllPassed
  BY ZeroMeansAll, PoolInvariant, PTL

\* The ports tried for two cases of one matrix are different as long as the
\* case numbers differ by less than the step of 1000.
LEMMA PortsDiffer ==
  ASSUME NumCases <= 1000, NEW c \in Cases, NEW d \in Cases, c # d
  PROVE  PortsOf(c) \cap PortsOf(d) = {}
<1>1. \A k, l \in 0..42 : 22000 + c + 1000 * k # 22000 + d + 1000 * l
  BY WorkersAreNumbers DEF Cases
<1>2. QED
  BY <1>1 DEF PortsOf

\* Ports of cases in hand are those that their own numbers lead to.
LEMMA OwnPorts ==
  ASSUME NumCases <= 1000
  PROVE  PoolInv => PortsNotShared
<1>1. SUFFICES ASSUME PoolInv, NEW v \in Workers, NEW w \in Workers, v # w,
                      port[v] # 0, port[w] # 0
               PROVE  port[v] # port[w]
  BY DEF PortsNotShared
<1>2. v \in Active /\ w \in Active
  BY <1>1 DEF PoolInv, PortInv, Active, Stages
<1>3. job[v] # job[w] /\ job[v] \in Cases /\ job[w] \in Cases
  BY <1>1, <1>2 DEF PoolInv, JobInv
<1>4. port[v] \in PortsOf(job[v]) /\ port[w] \in PortsOf(job[w])
  BY <1>1 DEF PoolInv, PortInv
<1>5. QED BY <1>3, <1>4, PortsDiffer

\* In a matrix of up to 1000 cases no two cases in hand hold the same port, so
\* the time between the port check and QEMU's bind is harmless among them.
THEOREM PortsNotSharedHolds ==
  ASSUME NumCases <= 1000
  PROVE  Spec => []PortsNotShared
  BY OwnPorts, PoolInvariant, PTL

\* If every case has a directory of its own, a case that was reported as kept
\* has its directory for ever, whatever the other workers clean up.
THEOREM KeptArtifactsHold ==
  ASSUME \A c, d \in Cases : CaseDir[c] = CaseDir[d] => c = d
  PROVE  Spec => []KeptArtifactsExist
<1>1. Init => DirInv
  BY PortInit
<1>2. PoolInv /\ DirInv /\ [Next]_vars => DirInv'
  BY DirStep DEF PoolInv
<1>3. DirInv => KeptArtifactsExist
  BY DEF DirInv, KeptArtifactsExist
<1>4. QED
  BY <1>1, <1>2, <1>3, PoolInvariant, PTL DEF Spec

-----------------------------------------------------------------------------
(* The ISO cache, by any number of harnesses.                              *)

CacheTypes ==
  /\ config \in [Harnesses -> Configs]
  /\ place \in [Harnesses -> Cache!Places]
  /\ ver \in [Harnesses -> Nat] /\ \A h \in Harnesses : ver[h] \in DOMAIN config[h]
  /\ fd \in [Harnesses -> {0} \cup Cache!Files]
  /\ received \in [Harnesses -> 0..Chunks]
  /\ iso \in [Cache!Names -> {0} \cup Cache!Files]
  /\ part \in [Cache!Names -> {0} \cup Cache!Files]
  /\ content \in [Cache!Files -> [1..Chunks -> 0..NumSources]]
  /\ replaced \subseteq Cache!Names
  /\ overlapped \in BOOLEAN
  /\ \A h \in Harnesses : /\ place[h] = "copy" <=> fd[h] # 0
                          /\ place[h] # "copy" => received[h] = 0

\* Where h downloads the version from that it is at.
Source(h) == Cache!Version(h).source

\* A .part is a file of its own: no ISO and no other .part is the same one.
NamesInv ==
  \A m, n \in Cache!Names :
    part[n] # 0 => iso[m] # part[n] /\ (m # n => part[m] # part[n])

\* The file of a source of which some chunks have arrived.
Arrived(s, count) == [k \in 1..Chunks |-> IF k <= count THEN s ELSE 0]

\* One harness at a time downloads a file.
AloneInv ==
  \A g, h \in Harnesses :
    /\ place[g] \in Cache!Downloading /\ place[h] \in Cache!Downloading
    /\ Cache!NameOf(g) = Cache!NameOf(h)
    => g = h

\* What a harness has received so far, or all of it, is in the .part of the
\* name that it will rename.
CopyInv ==
  \A h \in Harnesses :
    place[h] = "copy" => /\ fd[h] = part[Cache!NameOf(h)]
                         /\ content[fd[h]] = Arrived(Source(h), received[h])
PublishInv ==
  \A h \in Harnesses :
    place[h] = "publish" => /\ part[Cache!NameOf(h)] # 0
                            /\ content[part[Cache!NameOf(h)]] = Cache!Whole(Source(h))

\* A name has an ISO that some harness has under it, and another one than
\* before only if there are two such.
WholeInv ==
  /\ \A n \in Cache!Names : iso[n] # 0 =>
       \E s \in Cache!SourcesOf(n) : content[iso[n]] = Cache!Whole(s)
  /\ \A n \in replaced : Cache!Disputed(n)

DownloadInv == AloneInv /\ CopyInv /\ PublishInv /\ WholeInv

\* prepareISOs of h is done with version u.
Passed(h, u) == u < ver[h] \/ place[h] = "ready"

\* Only the first version of a file name is ever downloaded, because no ISO
\* goes away again.
VisitInv ==
  \A h \in Harnesses :
    /\ place[h] \in {"request", "open"} \cup Cache!Downloading => Cache!First(h, ver[h])
    /\ place[h] = "verify" => iso[Cache!NameOf(h)] # 0
    /\ \A u \in DOMAIN config[h] : Passed(h, u) => iso[config[h][u].name] # 0

\* A version with a SHA256 that was found to match still matches, unless
\* another ISO has its name by now.
CheckInv ==
  \A h \in Harnesses : \A u \in DOMAIN config[h] : \A s :
    /\ Passed(h, u) /\ config[h][u].name \notin replaced
    /\ config[h][u].sha = s /\ s # 0
    => content[iso[config[h][u].name]] = Cache!Whole(s)

CacheInv ==
  /\ CacheTypes /\ NamesInv /\ VisitInv
  /\ ~overlapped => DownloadInv /\ CheckInv

\* Names, sources and files are numbers.
LEMMA CacheConstants ==
  /\ NumNames \in Nat \ {0} /\ NumSources \in Nat \ {0} /\ Chunks \in Nat \ {0}
  /\ Cache!Names = 1..NumNames /\ Cache!Sources = 1..NumSources
  /\ Cardinality(Harnesses) \in Nat
  /\ Cache!Files = 1..(2 * NumNames + Cardinality(Harnesses)) /\ 0 \notin Cache!Files
<1>1. Cardinality(Harnesses) \in Nat
  BY RunAssumption, FS_CardinalityType
<1>2. NumNames \in Nat \ {0} /\ NumSources \in Nat \ {0} /\ Chunks \in Nat \ {0}
  BY RunAssumption
<1>3. Cache!Names = 1..NumNames /\ Cache!Sources = 1..NumSources
  BY DEF Cache!Names, Cache!Sources
<1>4. Cache!Files = 1..(2 * NumNames + Cardinality(Harnesses))
  BY Zenon DEF Cache!Files, Cardinality, Cache!Cardinality
<1> HIDE DEF Cache!Files
<1> QED
  BY <1>1, <1>2, <1>3, <1>4

\* A list of versions has a first one, and every version a file name, a source
\* and perhaps a SHA256.
LEMMA ConfigIs ==
  ASSUME NEW c \in Configs
  PROVE  /\ DOMAIN c = 1..Len(c) /\ Len(c) \in Nat \ {0}
         /\ \A v \in DOMAIN c : /\ c[v].name \in Cache!Names
                                /\ c[v].source \in Cache!Sources
                                /\ c[v].sha \in 0..NumSources
<1> DEFINE V == [name : 1..NumNames, source : 1..NumSources, sha : 0..NumSources]
<1>1. c \in Seq(V) /\ c # <<>>
  BY RunAssumption, Zenon
<1>2. \A v \in V : /\ v.name \in Cache!Names /\ v.source \in Cache!Sources
                   /\ v.sha \in 0..NumSources
  BY CacheConstants
<1> HIDE DEF V
<1>3. DOMAIN c = 1..Len(c) /\ Len(c) \in Nat \ {0} /\ \A v \in DOMAIN c : c[v] \in V
  BY <1>1
<1> QED
  BY <1>2, <1>3

\* The version that a harness is at.
LEMMA VersionIs ==
  ASSUME CacheTypes, NEW h \in Harnesses
  PROVE  /\ DOMAIN config[h] = 1..Len(config[h]) /\ Len(config[h]) \in Nat \ {0}
         /\ ver[h] \in 1..Len(config[h])
         /\ Cache!NameOf(h) = config[h][ver[h]].name /\ Cache!NameOf(h) \in Cache!Names
         /\ Source(h) = config[h][ver[h]].source /\ Source(h) \in 1..NumSources
         /\ \A u \in DOMAIN config[h] : config[h][u].name \in Cache!Names
<1>1. config[h] \in Configs /\ ver[h] \in DOMAIN config[h]
  BY DEF CacheTypes
<1>2. Cache!NameOf(h) = config[h][ver[h]].name /\ Source(h) = config[h][ver[h]].source
  BY DEF Cache!NameOf, Source, Cache!Version
<1> QED
  BY <1>1, <1>2, ConfigIs, CacheConstants

\* The versions of a list, and where their ISOs come from, stay with it.
LEMMA ConfigStays ==
  ASSUME config' = config
  PROVE  /\ \A h, v : Cache!First(h, v)' <=> Cache!First(h, v)
         /\ \A n : (Cache!SourcesOf(n))' = Cache!SourcesOf(n)
         /\ \A n : Cache!Disputed(n)' <=> Cache!Disputed(n)
<1>1. \A h, v : Cache!First(h, v)' <=> Cache!First(h, v)
  BY DEF Cache!First
<1>2. \A n : (Cache!SourcesOf(n))' = Cache!SourcesOf(n)
  BY DEF Cache!SourcesOf, Cache!First, Cache!Sources
<1>3. \A n : Cache!Disputed(n)' <=> Cache!Disputed(n)
  BY <1>2 DEF Cache!Disputed
<1> QED
  BY <1>1, <1>2, <1>3

\* What a harness downloads is one of the ISOs of that name.
LEMMA SourceIsListed ==
  ASSUME CacheTypes, NEW h \in Harnesses, Cache!First(h, ver[h])
  PROVE  Source(h) \in Cache!SourcesOf(Cache!NameOf(h))
<1>1. /\ ver[h] \in DOMAIN config[h] /\ Source(h) \in Cache!Sources
      /\ Cache!NameOf(h) = config[h][ver[h]].name /\ Source(h) = config[h][ver[h]].source
  BY VersionIs, CacheConstants
<1> QED
  BY <1>1 DEF Cache!SourcesOf

\* The whole file of a source is always the same.
LEMMA WholeIsConstant == \A s : (Cache!Whole(s))' = Cache!Whole(s)
  BY DEF Cache!Whole

\* Whole files of two sources differ.
LEMMA WholeDiffers ==
  ASSUME NEW s, NEW t, Cache!Whole(s) = Cache!Whole(t)
  PROVE  s = t
<1>1. Cache!Whole(s)[1] = s /\ Cache!Whole(t)[1] = t
  BY CacheConstants DEF Cache!Whole
<1> QED
  BY <1>1

\* The values of a function on 1..n or on the harnesses are not more than its
\* arguments.
LEMMA ImageIsSmall ==
  ASSUME NEW D, IsFiniteSet(D), NEW R, NEW f \in [D -> R], NEW S, S = {f[x] : x \in D}
  PROVE  IsFiniteSet(S) /\ Cardinality(S) <= Cardinality(D) /\ Cardinality(S) \in Nat
<1>1. f \in Surjection(D, S)
  BY DEF Surjection
<1>2. IsFiniteSet(S) /\ Cardinality(S) <= Cardinality(D)
  BY <1>1, FS_Surjection
<1> QED
  BY <1>2, FS_CardinalityType

\* The union of two finite sets has at most as many members as both have.
LEMMA UnionIsSmall ==
  ASSUME NEW S, NEW T, IsFiniteSet(S), IsFiniteSet(T)
  PROVE  /\ IsFiniteSet(S \cup T)
         /\ Cardinality(S) \in Nat /\ Cardinality(T) \in Nat
         /\ Cardinality(S \cup T) \in Nat
         /\ Cardinality(S \cup T) <= Cardinality(S) + Cardinality(T)
<1>1. IsFiniteSet(S \cup T) /\ IsFiniteSet(S \cap T)
  BY FS_Union, FS_Intersection
<1>2. Cardinality(S) \in Nat /\ Cardinality(T) \in Nat /\ Cardinality(S \cup T) \in Nat
      /\ Cardinality(S \cap T) \in Nat
  BY <1>1, FS_CardinalityType
<1>3. Cardinality(S \cup T) = Cardinality(S) + Cardinality(T) - Cardinality(S \cap T)
  BY FS_Union
<1> QED
  BY <1>1, <1>2, <1>3

\* There is a file left for every .part that is opened: each name and each
\* descriptor holds one file at most, and one of them holds none.
LEMMA NewFileIsNew ==
  ASSUME CacheTypes, NEW h \in Harnesses, fd[h] = 0
  PROVE  Cache!NewFile \in Cache!Files /\ Cache!NewFile \notin Cache!InUse
<1> DEFINE I == {iso[v] : v \in Cache!Names}
           P == {part[v] : v \in Cache!Names}
           F == {fd[g] : g \in Harnesses}
<1>1. IsFiniteSet(Cache!Names) /\ Cardinality(Cache!Names) = NumNames
  BY CacheConstants, FS_Interval
<1>2. /\ IsFiniteSet(I) /\ Cardinality(I) <= NumNames /\ Cardinality(I) \in Nat
      /\ IsFiniteSet(P) /\ Cardinality(P) <= NumNames /\ Cardinality(P) \in Nat
  <2> DEFINE R == {0} \cup Cache!Files
  <2>1. iso \in [Cache!Names -> R] /\ part \in [Cache!Names -> R]
    BY DEF CacheTypes
  <2> HIDE DEF R
  <2>2. IsFiniteSet(I) /\ Cardinality(I) <= Cardinality(Cache!Names) /\ Cardinality(I) \in Nat
    BY <1>1, <2>1, ImageIsSmall
  <2>3. IsFiniteSet(P) /\ Cardinality(P) <= Cardinality(Cache!Names) /\ Cardinality(P) \in Nat
    BY <1>1, <2>1, ImageIsSmall
  <2> QED
    BY <1>1, <2>2, <2>3
<1>3. /\ IsFiniteSet(F) /\ Cardinality(F) <= Cardinality(Harnesses)
      /\ Cardinality(F) \in Nat
  <2> DEFINE R == {0} \cup Cache!Files
  <2>1. fd \in [Harnesses -> R]
    BY DEF CacheTypes
  <2>2. F = {fd[g] : g \in Harnesses} /\ IsFiniteSet(Harnesses)
    BY RunAssumption
  <2> HIDE DEF R, F
  <2> QED
    BY <2>1, <2>2, ImageIsSmall
<1>4. /\ IsFiniteSet((I \cup P) \cup F) /\ Cardinality((I \cup P) \cup F) \in Nat
      /\ Cardinality((I \cup P) \cup F) <= 2 * NumNames + Cardinality(Harnesses)
  <2> HIDE DEF I, P, F
  <2>1. IsFiniteSet(I \cup P) /\ Cardinality(I \cup P) \in Nat
        /\ Cardinality(I \cup P) <= Cardinality(I) + Cardinality(P)
    BY <1>2, UnionIsSmall
  <2>2. IsFiniteSet((I \cup P) \cup F) /\ Cardinality((I \cup P) \cup F) \in Nat
        /\ Cardinality((I \cup P) \cup F) <= Cardinality(I \cup P) + Cardinality(F)
    BY <2>1, <1>3, UnionIsSmall
  <2> QED
    BY <2>1, <2>2, <1>2, <1>3, CacheConstants
<1>5. (I \cup P) \cup F = Cache!InUse /\ 0 \in Cache!InUse
  BY DEF Cache!InUse
<1>6. /\ IsFiniteSet(0..(2 * NumNames + Cardinality(Harnesses)))
      /\ Cardinality(0..(2 * NumNames + Cardinality(Harnesses)))
           = 2 * NumNames + Cardinality(Harnesses) + 1
  <2> DEFINE m == 2 * NumNames + Cardinality(Harnesses)
  <2>1. m \in Nat
    BY CacheConstants
  <2> HIDE DEF m
  <2>2. IsFiniteSet(0..m) /\ Cardinality(0..m) = m + 1
    BY <2>1, FS_Interval
  <2> QED
    BY <2>2 DEF m
<1>7. \E f \in Cache!Files : f \notin Cache!InUse
  <2>1. SUFFICES ASSUME Cache!Files \subseteq Cache!InUse
                 PROVE  FALSE
    OBVIOUS
  <2>2. 0..(2 * NumNames + Cardinality(Harnesses)) \subseteq Cache!InUse
    BY <2>1, <1>5, CacheConstants
  <2>3. Cardinality(0..(2 * NumNames + Cardinality(Harnesses))) <= Cardinality(Cache!InUse)
    BY <2>2, <1>4, <1>5, FS_Subset
  <2>4. Cardinality(Cache!InUse) \in Nat
        /\ Cardinality(Cache!InUse) <= 2 * NumNames + Cardinality(Harnesses)
    BY <1>4, <1>5
  <2> HIDE DEF I, P, F
  <2> QED
    BY <2>3, <2>4, <1>6, CacheConstants
<1> QED
  BY <1>7 DEF Cache!NewFile

Contents == [Cache!Files -> [1..Chunks -> 0..NumSources]]

\* A file with a name or a descriptor keeps its content.
LEMMA Retained ==
  ASSUME NEW contents \in Contents, Cache!Retain(contents)
  PROVE  /\ content' \in Contents
         /\ \A f \in Cache!Files \cap (Cache!InUse)' : content'[f] = contents[f]
<1>1. Cache!Empty \in [1..Chunks -> 0..NumSources]
  BY CacheConstants DEF Cache!Empty
<1> QED
  BY <1>1 DEF Cache!Retain, Contents

\* A step after which every ISO is what it was, under its name, unless a rename
\* has put a different one there.
IsosKept ==
  /\ replaced \subseteq replaced'
  /\ \A n \in Cache!Names : iso[n] # 0 =>
       iso'[n] # 0 /\ (n \notin replaced' => content'[iso'[n]] = content[iso[n]])

\* Such a step that replaces none and adds none keeps them whole.
LEMMA WholeStays ==
  ASSUME WholeInv, IsosKept, config' = config, replaced' = replaced,
         \A n \in Cache!Names : iso'[n] # 0 =>
           iso[n] # 0 /\ content'[iso'[n]] = content[iso[n]]
  PROVE  WholeInv'
<1>1. ASSUME NEW n \in Cache!Names, iso'[n] # 0
      PROVE  \E s \in (Cache!SourcesOf(n))' : content'[iso'[n]] = Cache!Whole(s)
  <2>1. iso[n] # 0 /\ content'[iso'[n]] = content[iso[n]]
    BY <1>1
  <2> QED
    BY <2>1, ConfigStays DEF WholeInv
<1>2. \A n \in replaced' : Cache!Disputed(n)'
  BY ConfigStays DEF WholeInv
<1> QED
  BY <1>1, <1>2 DEF WholeInv, Cache!Names, Cache!Whole

\* The steps that leave the disk alone.
Quiet(h) == Cache!Fails(h) \/ Cache!Stat(h) \/ Cache!Request(h) \/ Cache!Verify(h)

\* What a step of prepareISOs that leaves the disk alone changes.
LEMMA QuietFrame ==
  ASSUME CacheTypes, NEW h \in Harnesses, Quiet(h)
  PROVE  /\ UNCHANGED <<config, fd, received, iso, part, content, replaced, overlapped>>
         /\ place[h] # "copy" /\ \E p \in Cache!Places \ Cache!Downloading :
              place' = [place EXCEPT ![h] = p]
         /\ \/ ver' = ver /\ place'[h] # "ready"
            \/ /\ place[h] = "verify" /\ Cache!Matches(h)
               /\ \/ ver' = ver /\ place'[h] = "ready" /\ ~(ver[h] < Len(config[h]))
                  \/ /\ ver[h] < Len(config[h]) /\ place'[h] = "stat"
                     /\ ver' = [ver EXCEPT ![h] = @ + 1]
<1> USE DEF CacheTypes, Cache!Goto, Cache!Places, Cache!Downloading, Cache!Idle,
            Cache!disk
<1>1. CASE Cache!Fails(h)
  BY <1>1 DEF Cache!Fails
<1>2. CASE Cache!Stat(h)
  BY <1>2 DEF Cache!Stat
<1>3. CASE Cache!Request(h)
  BY <1>3 DEF Cache!Request
<1>4. CASE Cache!Verify(h)
  BY <1>4 DEF Cache!Verify
<1> QED
  BY <1>1, <1>2, <1>3, <1>4 DEF Quiet

\* A step that leaves the disk alone keeps the cache.
LEMMA QuietStep ==
  ASSUME CacheInv, NEW h \in Harnesses, Quiet(h)
  PROVE  CacheInv'
<1> USE CacheConstants DEF CacheInv
<1>0. /\ DOMAIN config[h] = 1..Len(config[h]) /\ Len(config[h]) \in Nat \ {0}
      /\ ver[h] \in 1..Len(config[h]) /\ ver[h] \in DOMAIN config[h]
  BY VersionIs
<1>1. CacheTypes'
  <2>0. ver \in [Harnesses -> Nat] /\ \A g \in Harnesses : ver[g] \in DOMAIN config[g]
    BY DEF CacheTypes
  <2>1. ver' \in [Harnesses -> Nat] /\ \A g \in Harnesses : ver'[g] \in DOMAIN config[g]
    <3>1. CASE ver' = [ver EXCEPT ![h] = @ + 1] /\ ver[h] < Len(config[h])
      <4>1. ver' \in [Harnesses -> Nat] /\ ver'[h] = ver[h] + 1
            /\ \A g \in Harnesses \ {h} : ver'[g] = ver[g]
        BY <2>0, <3>1
      <4>2. ver[h] + 1 \in DOMAIN config[h]
        BY <1>0, <3>1
      <4> QED
        BY <2>0, <4>1, <4>2
    <3> QED
      BY <2>0, <3>1, QuietFrame
  <2>2. place' \in [Harnesses -> Cache!Places]
    BY QuietFrame DEF CacheTypes
  <2>3. \A g \in Harnesses : place'[g] = "copy" <=> place[g] = "copy"
    BY QuietFrame DEF CacheTypes, Cache!Downloading
  <2> QED
    BY <2>1, <2>2, <2>3, QuietFrame DEF CacheTypes
<1>2. NamesInv'
  BY QuietFrame DEF NamesInv
<1>3. config' = config
  BY QuietFrame
<1>4. /\ \A g \in Harnesses \ {h} : place'[g] = place[g] /\ ver'[g] = ver[g]
      /\ place'[h] \notin Cache!Downloading
  <2>1. place \in [Harnesses -> Cache!Places] /\ ver \in [Harnesses -> Nat]
    BY DEF CacheTypes
  <2> HIDE DEF CacheInv
  <2> QED
    BY <2>1, QuietFrame DEF CacheInv
<1>5. \A g \in Harnesses \ {h} :
        (Cache!NameOf(g))' = Cache!NameOf(g) /\ (Source(g))' = Source(g)
  BY <1>3, <1>4 DEF Cache!NameOf, Cache!Version, Source
<1>9. \A u \in DOMAIN config[h] : Passed(h, u)' =>
        Passed(h, u) \/ (place[h] = "verify" /\ Cache!Matches(h) /\ u = ver[h])
  <2>1. ver \in [Harnesses -> Nat]
    BY DEF CacheTypes
  <2>2. CASE ver' = ver /\ place'[h] # "ready"
    BY <2>2 DEF Passed
  <2>3. CASE /\ place[h] = "verify" /\ Cache!Matches(h)
             /\ ver' = ver /\ place'[h] = "ready" /\ ~(ver[h] < Len(config[h]))
    BY <1>0, <2>3 DEF Passed
  <2>4. CASE /\ place[h] = "verify" /\ Cache!Matches(h)
             /\ ver[h] < Len(config[h]) /\ place'[h] = "stat"
             /\ ver' = [ver EXCEPT ![h] = @ + 1]
    <3>1. ver'[h] = ver[h] + 1
      BY <2>1, <2>4
    <3> QED
      BY <1>0, <2>4, <3>1 DEF Passed
  <2> QED
    BY <2>2, <2>3, <2>4, QuietFrame
<1>6. VisitInv'
  <2> SUFFICES ASSUME NEW g \in Harnesses
               PROVE  /\ place'[g] \in {"request", "open"} \cup Cache!Downloading =>
                           Cache!First(g, ver'[g])
                      /\ place'[g] = "verify" => iso'[(Cache!NameOf(g))'] # 0
                      /\ \A u \in DOMAIN config[g] :
                           Passed(g, u)' => iso'[config[g][u].name] # 0
    BY <1>3, ConfigStays DEF VisitInv, Cache!First
  <2>1. CASE g # h
    <3>1. place'[g] = place[g] /\ ver'[g] = ver[g] /\ (Cache!NameOf(g))' = Cache!NameOf(g)
      BY <1>4, <1>5, <2>1
    <3>2. \A u : Passed(g, u)' <=> Passed(g, u)
      BY <3>1 DEF Passed
    <3> QED
      BY <3>1, <3>2, QuietFrame DEF VisitInv
  <2>2. CASE g = h
    <3>1. CASE Cache!Fails(h)
      <4>1. place'[h] = "failed" /\ ver' = ver
        BY <3>1 DEF Cache!Fails, Cache!Goto, CacheTypes
      <4>2. \A u : Passed(h, u)' => Passed(h, u)
        BY <4>1 DEF Passed
      <4> QED
        BY <2>2, <4>1, <4>2, QuietFrame DEF VisitInv, Cache!Downloading
    <3>2. CASE Cache!Stat(h)
      <4>1. /\ ver' = ver /\ place[h] = "stat"
            /\ place'[h] = IF iso[Cache!NameOf(h)] # 0 THEN "verify" ELSE "request"
        BY <3>2 DEF Cache!Stat, Cache!Goto, CacheTypes
      <4>2. \A u : Passed(h, u)' => Passed(h, u)
        BY <4>1 DEF Passed
      <4>3. ASSUME iso[Cache!NameOf(h)] = 0
            PROVE  Cache!First(h, ver[h])
        <5> SUFFICES ASSUME NEW u \in 1..(ver[h] - 1)
                     PROVE  config[h][u].name # config[h][ver[h]].name
          BY DEF Cache!First
        <5>1. u \in DOMAIN config[h] /\ Passed(h, u)
          BY <1>0 DEF Passed
        <5>2. iso[config[h][u].name] # 0
          BY <5>1 DEF VisitInv
        <5> QED
          BY <4>3, <5>2 DEF Cache!NameOf, Cache!Version
      <4>4. (Cache!NameOf(h))' = Cache!NameOf(h)
        BY <1>3, <4>1 DEF Cache!NameOf, Cache!Version
      <4> QED
        BY <2>2, <4>1, <4>2, <4>3, <4>4, QuietFrame DEF VisitInv, Cache!Downloading
    <3>3. CASE Cache!Request(h)
      <4>1. ver' = ver /\ place[h] = "request" /\ place'[h] = "open"
        BY <3>3 DEF Cache!Request, Cache!Goto, CacheTypes
      <4>2. \A u : Passed(h, u)' => Passed(h, u)
        BY <4>1 DEF Passed
      <4> QED
        BY <2>2, <4>1, <4>2, QuietFrame DEF VisitInv, Cache!Downloading
    <3>4. CASE Cache!Verify(h)
      <4>1. place'[h] \in {"stat", "ready", "failed"} /\ place[h] = "verify"
        BY <3>4 DEF Cache!Verify, Cache!Goto, CacheTypes
      <4>2. \A u \in DOMAIN config[h] : Passed(h, u)' => Passed(h, u) \/ u = ver[h]
        BY <1>9
      <4>3. iso[config[h][ver[h]].name] # 0
        BY <4>1 DEF VisitInv, Cache!NameOf, Cache!Version
      <4> QED
        BY <2>2, <4>1, <4>2, <4>3, QuietFrame DEF VisitInv, Cache!Downloading
    <3> QED
      BY <3>1, <3>2, <3>3, <3>4 DEF Quiet
  <2> QED
    BY <2>1, <2>2
<1>7. ASSUME ~overlapped
      PROVE  DownloadInv'
  <2>1. \A g \in Harnesses : place'[g] \in Cache!Downloading =>
          /\ g # h /\ place'[g] = place[g] /\ ver'[g] = ver[g]
          /\ (Cache!NameOf(g))' = Cache!NameOf(g) /\ (Source(g))' = Source(g)
    BY <1>4, <1>5
  <2>2. DownloadInv
    BY <1>7
  <2> USE QuietFrame DEF DownloadInv, Cache!Downloading
  <2>3. AloneInv'
    BY <2>1, <2>2 DEF AloneInv
  <2>4. CopyInv'
    BY <2>1, <2>2 DEF CopyInv, Arrived
  <2>5. PublishInv'
    <3> SUFFICES ASSUME NEW g \in Harnesses, place'[g] = "publish"
                 PROVE  /\ part'[(Cache!NameOf(g))'] # 0
                        /\ content'[part'[(Cache!NameOf(g))']] = Cache!Whole((Source(g))')
      BY DEF PublishInv, Cache!Whole
    <3> QED
      BY <2>1, <2>2 DEF PublishInv
  <2>6. WholeInv'
    BY <2>2, <1>3, WholeStays DEF IsosKept
  <2> QED
    BY <2>3, <2>4, <2>5, <2>6
<1>8. ASSUME ~overlapped
      PROVE  CheckInv'
  <2> SUFFICES ASSUME NEW g \in Harnesses, NEW u \in DOMAIN config[g], NEW s, Passed(g, u)',
                      config[g][u].sha = s, s # 0, config[g][u].name \notin replaced
               PROVE  content[iso[config[g][u].name]] = Cache!Whole(s)
    <3>1. UNCHANGED <<config, replaced, content, iso>>
      BY QuietFrame
    <3> QED
      BY <3>1, WholeIsConstant DEF CheckInv
  <2>0. CheckInv
    BY <1>8
  <2>1. CASE Passed(g, u)
    BY <2>0, <2>1 DEF CheckInv
  <2>2. CASE ~Passed(g, u)
    <3>1. g = h
      BY <2>2, <1>4 DEF Passed
    <3>2. Cache!Matches(h) /\ u = ver[h]
      BY <2>2, <3>1, <1>9
    <3> QED
      BY <3>1, <3>2 DEF Cache!Matches, Cache!NameOf, Cache!Version
  <2> QED
    BY <2>1, <2>2
<1> QED
  BY <1>1, <1>2, <1>6, <1>7, <1>8, QuietFrame

\* A step of h is its own: the configuration and the other harnesses stay.
Others(h) ==
  /\ config' = config
  /\ \A g \in Harnesses \ {h} : /\ place'[g] = place[g] /\ ver'[g] = ver[g]
                                /\ fd'[g] = fd[g] /\ received'[g] = received[g]

\* The others' files and their sources stay.
LEMMA OthersNames ==
  ASSUME NEW h \in Harnesses, Others(h)
  PROVE  /\ \A g \in Harnesses \ {h} :
              (Cache!NameOf(g))' = Cache!NameOf(g) /\ (Source(g))' = Source(g)
         /\ ver'[h] = ver[h] =>
              (Cache!NameOf(h))' = Cache!NameOf(h) /\ (Source(h))' = Source(h)
  BY DEF Others, Cache!NameOf, Cache!Version, Source

\* A step that takes no ISO away and does not get on to another version.
LEMMA VisitStep ==
  ASSUME CacheTypes, VisitInv, NEW h \in Harnesses, Others(h),
         \A n \in Cache!Names : iso[n] # 0 => iso'[n] # 0,
         ver'[h] \in 1..ver[h], place'[h] \notin {"ready", "request", "open"},
         place'[h] \in Cache!Downloading =>
           ver'[h] = ver[h] /\ place[h] \in {"open"} \cup Cache!Downloading,
         place'[h] = "verify" => ver'[h] = ver[h] /\ iso'[Cache!NameOf(h)] # 0
  PROVE  VisitInv' /\ (CheckInv /\ IsosKept => CheckInv')
<1>0. /\ ver \in [Harnesses -> Nat] /\ config' = config
      /\ \A g \in Harnesses : \A u \in DOMAIN config[g] : config[g][u].name \in Cache!Names
      /\ \A g \in Harnesses : Cache!NameOf(g) \in Cache!Names
  BY VersionIs DEF CacheTypes, Others
<1>1. \A g \in Harnesses : \A u \in DOMAIN config[g] : Passed(g, u)' => Passed(g, u)
  <2>0. \A g \in Harnesses : DOMAIN config[g] \subseteq Nat
    BY VersionIs
  <2>1. SUFFICES ASSUME NEW u \in DOMAIN config[h], Passed(h, u)'
                 PROVE  Passed(h, u)
    BY DEF Others, Passed
  <2>2. u \in Nat /\ ver[h] \in Nat
    BY <1>0, <2>0
  <2> QED
    BY <2>1, <2>2 DEF Passed
<1>2. VisitInv'
  <2> SUFFICES ASSUME NEW g \in Harnesses
               PROVE  /\ place'[g] \in {"request", "open"} \cup Cache!Downloading =>
                           Cache!First(g, ver'[g])
                      /\ place'[g] = "verify" => iso'[(Cache!NameOf(g))'] # 0
                      /\ \A u \in DOMAIN config[g] :
                           Passed(g, u)' => iso'[config[g][u].name] # 0
    BY <1>0 DEF VisitInv, Cache!First
  <2>1. \A u \in DOMAIN config[g] : Passed(g, u)' => iso'[config[g][u].name] # 0
    BY <1>0, <1>1 DEF VisitInv
  <2>2. CASE g # h
    BY <1>0, <2>1, <2>2, OthersNames DEF VisitInv, Others
  <2>3. CASE g = h
    BY <1>0, <2>1, <2>3, OthersNames DEF VisitInv
  <2> QED
    BY <2>2, <2>3
<1>3. CheckInv /\ IsosKept => CheckInv'
  <2> SUFFICES ASSUME CheckInv, IsosKept, NEW g \in Harnesses, NEW u \in DOMAIN config[g],
                      NEW s, Passed(g, u)', config[g][u].sha = s, s # 0,
                      config[g][u].name \notin replaced'
               PROVE  content'[iso'[config[g][u].name]] = Cache!Whole(s)
    BY <1>0, WholeIsConstant DEF CheckInv
  <2>1. Passed(g, u) /\ config[g][u].name \in Cache!Names /\ config[g][u].name \notin replaced
    BY <1>0, <1>1 DEF IsosKept
  <2>2. iso[config[g][u].name] # 0
    BY <2>1 DEF VisitInv
  <2> QED
    BY <2>1, <2>2 DEF CheckInv, IsosKept
<1> QED
  BY <1>2, <1>3

\* The files behind names and others' descriptors keep their content when a
\* step only takes references away or moves them.
LEMMA FilesKept ==
  ASSUME CacheTypes, NEW h \in Harnesses, Others(h), Cache!Retain(content)
  PROVE  /\ content' \in Contents
         /\ \A n \in Cache!Names : iso'[n] \in Cache!Files => content'[iso'[n]] = content[iso'[n]]
         /\ \A n \in Cache!Names : part'[n] \in Cache!Files => content'[part'[n]] = content[part'[n]]
<1>1. content \in Contents
  BY DEF CacheTypes, Contents
<1>2. \A n \in Cache!Names : iso'[n] \in (Cache!InUse)' /\ part'[n] \in (Cache!InUse)'
  BY DEF Cache!InUse, Cache!Names
<1> QED
  BY <1>1, <1>2, Retained

\* Close, a broken download, a failed rename and a kill: the descriptor goes,
\* maybe with the .part, and no ISO changes.
LEMMA LeaveStep ==
  ASSUME CacheInv, NEW h \in Harnesses, Others(h), Cache!Retain(content),
         CacheTypes', UNCHANGED <<iso, replaced, overlapped>>,
         part' = part \/ (place[h] = "copy" /\ part' = [part EXCEPT ![Cache!NameOf(h)] = 0]),
         ver'[h] \in 1..ver[h],
         \/ place'[h] \in {"stat", "failed"}
         \/ /\ place[h] = "copy" /\ place'[h] = "publish" /\ received[h] = Chunks
            /\ ver'[h] = ver[h] /\ part' = part
  PROVE  CacheInv'
<1> USE CacheConstants DEF CacheInv
<1>0. /\ part \in [Cache!Names -> {0} \cup Cache!Files]
      /\ iso \in [Cache!Names -> {0} \cup Cache!Files]
      /\ ver \in [Harnesses -> Nat]
      /\ \A g \in Harnesses : Cache!NameOf(g) \in Cache!Names
  BY VersionIs DEF CacheTypes
<1>1. NamesInv'
  BY <1>0 DEF NamesInv, Cache!Names
<1>4. \A m \in Cache!Names : iso[m] # 0 => content'[iso[m]] = content[iso[m]]
  BY <1>0, FilesKept
<1>5. IsosKept
  BY <1>4 DEF IsosKept
<1>2. VisitInv' /\ (CheckInv => CheckInv')
  BY <1>5, VisitStep DEF Cache!Downloading
<1>3. ASSUME ~overlapped
      PROVE  DownloadInv'
  <2>0. DownloadInv
    BY <1>3
  <2> USE <2>0, OthersNames DEF DownloadInv, Cache!Downloading
  <2>1. AloneInv'
    <3>1. \A g \in Harnesses : place'[g] \in Cache!Downloading =>
            place[g] \in Cache!Downloading /\ (Cache!NameOf(g))' = Cache!NameOf(g)
      BY DEF Others
    <3> QED
      BY <3>1 DEF AloneInv
  <2>2. ASSUME NEW g \in Harnesses, g # h, place[g] \in Cache!Downloading
        PROVE  part'[Cache!NameOf(g)] = part[Cache!NameOf(g)]
    BY <1>0, <2>2 DEF AloneInv
  <2>3. CopyInv'
    <3> SUFFICES ASSUME NEW g \in Harnesses, place'[g] = "copy"
                 PROVE  /\ fd'[g] = part'[(Cache!NameOf(g))']
                        /\ content'[fd'[g]] = Arrived((Source(g))', received'[g])
      BY DEF CopyInv, Arrived
    <3>1. g # h /\ place[g] = "copy" /\ (Cache!NameOf(g))' = Cache!NameOf(g)
          /\ fd'[g] = fd[g] /\ (Source(g))' = Source(g) /\ received'[g] = received[g]
      BY DEF Others
    <3>2. fd[g] = part[Cache!NameOf(g)] /\ content[fd[g]] = Arrived(Source(g), received[g])
          /\ part'[Cache!NameOf(g)] = fd[g]
      BY <3>1, <2>2 DEF CopyInv
    <3>3. fd[g] \in Cache!Files
      BY <3>1 DEF CacheTypes
    <3>4. content'[fd[g]] = content[fd[g]]
      <4>1. Cache!NameOf(g) \in Cache!Names
        BY <1>0
      <4>2. part'[Cache!NameOf(g)] \in Cache!Files =>
              content'[part'[Cache!NameOf(g)]] = content[part'[Cache!NameOf(g)]]
        BY <4>1, FilesKept
      <4> QED
        BY <3>2, <3>3, <4>2
    <3> QED
      BY <3>1, <3>2, <3>4
  <2>4. PublishInv'
    <3> SUFFICES ASSUME NEW g \in Harnesses, place'[g] = "publish"
                 PROVE  /\ part'[(Cache!NameOf(g))'] # 0
                        /\ content'[part'[(Cache!NameOf(g))']] = Cache!Whole((Source(g))')
      BY DEF PublishInv, Cache!Whole
    <3>1. CASE g # h
      <4>1. place[g] = "publish" /\ (Cache!NameOf(g))' = Cache!NameOf(g)
            /\ (Source(g))' = Source(g)
        BY <3>1 DEF Others
      <4>2. part[Cache!NameOf(g)] # 0 /\ part'[Cache!NameOf(g)] = part[Cache!NameOf(g)]
            /\ content[part[Cache!NameOf(g)]] = Cache!Whole(Source(g))
        BY <3>1, <4>1, <2>2 DEF PublishInv
      <4>3. part[Cache!NameOf(g)] \in Cache!Files
        BY <1>0, <4>2
      <4> QED
        <5>1. content'[part'[Cache!NameOf(g)]] = content[part'[Cache!NameOf(g)]]
          BY <1>0, <4>2, <4>3, FilesKept
        <5> QED
          BY <4>1, <4>2, <5>1
    <3>2. CASE g = h
      <4>1. /\ place[h] = "copy" /\ received[h] = Chunks /\ part' = part
            /\ (Cache!NameOf(h))' = Cache!NameOf(h) /\ (Source(h))' = Source(h)
        BY <3>2
      <4>2. Arrived(Source(h), Chunks) = Cache!Whole(Source(h))
        BY DEF Arrived, Cache!Whole
      <4>3. fd[h] = part[Cache!NameOf(h)] /\ content[fd[h]] = Cache!Whole(Source(h))
        BY <4>1, <4>2 DEF CopyInv
      <4>4. fd[h] \in Cache!Files
        BY <4>1 DEF CacheTypes
      <4> QED
        BY <1>0, <3>2, <4>1, <4>3, <4>4, FilesKept
    <3> QED
      BY <3>1, <3>2
  <2>5. WholeInv'
    BY <1>4, <1>5, WholeStays DEF Others
  <2> QED
    BY <2>1, <2>3, <2>4, <2>5
<1> QED
  BY <1>1, <1>2, <1>3

\* Close, the failures of a download and a kill keep the cache.
LEMMA LeavingSteps ==
  ASSUME CacheInv, NEW h \in Harnesses,
         Cache!Close(h) \/ Cache!CopyFails(h) \/ Cache!Kill(h)
           \/ (Cache!Publish(h) /\ part[Cache!NameOf(h)] = 0)
  PROVE  CacheInv'
<1>a. 1 \in DOMAIN config[h]
  <2>1. DOMAIN config[h] = 1..Len(config[h]) /\ Len(config[h]) \in Nat \ {0}
    BY VersionIs DEF CacheInv
  <2> QED
    BY <2>1
<1> USE CacheConstants DEF CacheInv, CacheTypes
<1>0. CacheTypes /\ Cache!NameOf(h) \in Cache!Names
  BY VersionIs
<1>1. /\ Cache!Retain(content) /\ UNCHANGED <<config, iso, replaced, overlapped>>
      /\ fd' = [fd EXCEPT ![h] = 0] /\ received' = [received EXCEPT ![h] = 0]
      /\ part' = part \/ (place[h] = "copy" /\ part' = [part EXCEPT ![Cache!NameOf(h)] = 0])
      /\ \E p \in {"stat", "failed", "publish"} : place' = [place EXCEPT ![h] = p]
      /\ ver' = ver \/ ver' = [ver EXCEPT ![h] = 1]
      /\ \/ place'[h] \in {"stat", "failed"}
         \/ /\ place[h] = "copy" /\ place'[h] = "publish" /\ received[h] = Chunks
            /\ ver' = ver /\ part' = part
  <2>1. CASE Cache!Close(h)
    BY <2>1 DEF Cache!Close, Cache!CopyIsWhole, Cache!Goto
  <2>2. CASE Cache!CopyFails(h)
    BY <2>2 DEF Cache!CopyFails, Cache!Goto
  <2>3. CASE Cache!Kill(h)
    BY <2>3 DEF Cache!Kill, Cache!Goto
  <2>4. CASE Cache!Publish(h) /\ part[Cache!NameOf(h)] = 0
    <3>1. place[h] = "publish" /\ place' = [place EXCEPT ![h] = "failed"]
          /\ UNCHANGED <<config, ver, fd, received, iso, part, replaced, overlapped>>
          /\ Cache!Retain(content)
      BY <2>4 DEF Cache!Publish, Cache!Goto
    <3>2. fd[h] = 0 /\ received[h] = 0
      BY <3>1
    <3>3. fd' = [fd EXCEPT ![h] = 0] /\ received' = [received EXCEPT ![h] = 0]
      BY <3>1, <3>2
    <3> QED
      BY <3>1, <3>3
  <2> QED
    BY <2>1, <2>2, <2>3, <2>4
<1>2. Others(h)
  BY <1>0, <1>1 DEF Others
<1>3. CacheTypes'
  <2>1. content' \in Contents
    BY <1>1, <1>2, FilesKept
  <2>2. /\ ver' \in [Harnesses -> Nat] /\ \A g \in Harnesses : ver'[g] \in DOMAIN config[g]
        /\ part' \in [Cache!Names -> {0} \cup Cache!Files]
        /\ received' \in [Harnesses -> 0..Chunks]
        /\ fd' \in [Harnesses -> {0} \cup Cache!Files]
    <3>1. ver' \in [Harnesses -> Nat] /\ \A g \in Harnesses : ver'[g] \in DOMAIN config[g]
      <4>1. ver \in [Harnesses -> Nat] /\ \A g \in Harnesses : ver[g] \in DOMAIN config[g]
        OBVIOUS
      <4>3. CASE ver' = [ver EXCEPT ![h] = 1]
        BY <1>a, <4>1, <4>3
      <4> QED
        BY <1>1, <4>1, <4>3
    <3>2. part' \in [Cache!Names -> {0} \cup Cache!Files]
      BY <1>0, <1>1
    <3>3. received' \in [Harnesses -> 0..Chunks] /\ fd' \in [Harnesses -> {0} \cup Cache!Files]
      BY <1>0, <1>1
    <3> QED
      BY <3>1, <3>2, <3>3
  <2>3. place' \in [Harnesses -> Cache!Places] /\ place'[h] # "copy"
        /\ fd'[h] = 0 /\ received'[h] = 0
    BY <1>0, <1>1 DEF Cache!Places, Cache!Downloading, Cache!Idle
  <2>4. \A g \in Harnesses : /\ place'[g] = "copy" <=> fd'[g] # 0
                             /\ place'[g] # "copy" => received'[g] = 0
    BY <1>0, <1>2, <2>3 DEF Others
  <2>5. /\ config' = config /\ config' \in [Harnesses -> Configs] /\ replaced' \subseteq Cache!Names
        /\ iso' \in [Cache!Names -> {0} \cup Cache!Files]
        /\ overlapped' \in BOOLEAN
    BY <1>0, <1>1
  <2> QED
    BY <2>1, <2>2, <2>3, <2>4, <2>5 DEF Contents, Cache!Names, Cache!Files
<1>4. ver'[h] \in 1..ver[h]
  <2>1. ver \in [Harnesses -> Nat] /\ ver[h] \in 1..Len(config[h]) /\ Len(config[h]) \in Nat
    BY <1>0, VersionIs
  <2>2. CASE ver' = [ver EXCEPT ![h] = 1]
    BY <2>1, <2>2
  <2> QED
    BY <1>1, <2>1, <2>2
<1> QED
  BY <1>1, <1>2, <1>3, <1>4, LeaveStep

\* os.Rename of the .part puts the whole file of its version under its name.
LEMMA PublishStep ==
  ASSUME CacheInv, NEW h \in Harnesses, Cache!Publish(h), part[Cache!NameOf(h)] # 0
  PROVE  CacheInv'
<1> DEFINE n == Cache!NameOf(h)
<1> USE CacheConstants DEF CacheInv
<1>0. /\ part \in [Cache!Names -> {0} \cup Cache!Files]
      /\ iso \in [Cache!Names -> {0} \cup Cache!Files]
      /\ ver \in [Harnesses -> Nat]
      /\ place \in [Harnesses -> Cache!Places]
      /\ \A g \in Harnesses : Cache!NameOf(g) \in Cache!Names
  BY VersionIs DEF CacheTypes
<1>1. /\ place[h] = "publish" /\ place' = [place EXCEPT ![h] = "verify"]
      /\ iso' = [iso EXCEPT ![n] = part[n]] /\ part' = [part EXCEPT ![n] = 0]
      /\ UNCHANGED <<config, ver, fd, received, overlapped>>
      /\ Cache!Retain(content)
      /\ replaced' = IF iso[n] # 0 /\ content[iso[n]] # content[part[n]]
                       THEN replaced \cup {n} ELSE replaced
  BY DEF Cache!Publish, Cache!Goto
<1>2. Others(h) /\ place'[h] = "verify"
  BY <1>0, <1>1 DEF Others
<1>3. Cache!First(h, ver[h]) /\ n \in Cache!Names
  BY <1>0, <1>1 DEF VisitInv, Cache!Downloading
<1>4. CacheTypes'
  <2>1. content' \in Contents
    BY <1>1, <1>2, FilesKept
  <2>2. /\ iso' \in [Cache!Names -> {0} \cup Cache!Files]
        /\ part' \in [Cache!Names -> {0} \cup Cache!Files]
        /\ place' \in [Harnesses -> Cache!Places]
    BY <1>0, <1>1, <1>3 DEF Cache!Places
  <2>3. \A g \in Harnesses : place'[g] = "copy" <=> place[g] = "copy"
    BY <1>0, <1>1
  <2>4. replaced' \subseteq Cache!Names
    BY <1>1, <1>3 DEF CacheTypes
  <2> QED
    BY <1>1, <2>1, <2>2, <2>3, <2>4 DEF Contents, Cache!Names, Cache!Files, CacheTypes
<1>5. NamesInv'
  <2> SUFFICES ASSUME NEW k \in Cache!Names, NEW m \in Cache!Names, part'[k] # 0
               PROVE  iso'[m] # part'[k] /\ (m # k => part'[m] # part'[k])
    BY DEF NamesInv, Cache!Names
  <2>1. k # n /\ part'[k] = part[k]
    BY <1>0, <1>1, <1>3
  <2>2. iso'[m] = (IF m = n THEN part[n] ELSE iso[m])
        /\ part'[m] = (IF m = n THEN 0 ELSE part[m])
    BY <1>0, <1>1, <1>3
  <2> HIDE DEF n
  <2> QED
    BY <1>3, <2>1, <2>2 DEF NamesInv
<1>8. \A m \in Cache!Names : iso'[m] # 0 => content'[iso'[m]] = content[iso'[m]]
  <2>1. \A m \in Cache!Names : iso'[m] # 0 => iso'[m] \in Cache!Files
    BY <1>4 DEF CacheTypes, Cache!Names, Cache!Files
  <2> QED
    BY <1>2, <1>1, <2>1, FilesKept
<1>9. IsosKept
  <2>1. ASSUME NEW m \in Cache!Names, iso[m] # 0, m \notin replaced'
        PROVE  content'[iso'[m]] = content[iso[m]]
    <3>1. CASE m = n
      <4>1. iso'[n] = part[n] /\ part[n] # 0
        BY <1>0, <1>1, <1>3
      <4>2. content[iso[n]] = content[part[n]]
        BY <1>1, <2>1, <3>1
      <4> QED
        BY <1>3, <1>8, <3>1, <4>1, <4>2
    <3>2. CASE m # n
      <4>1. iso'[m] = iso[m]
        BY <1>0, <1>1, <3>2
      <4> QED
        BY <1>8, <2>1, <4>1
    <3> QED
      BY <3>1, <3>2
  <2>2. \A m \in Cache!Names : iso[m] # 0 => iso'[m] # 0
    BY <1>0, <1>1, <1>3
  <2>3. replaced \subseteq replaced'
    BY <1>1
  <2> QED
    BY <2>1, <2>2, <2>3 DEF IsosKept
<1>6. VisitInv' /\ (CheckInv => CheckInv')
  <2>1. \A m \in Cache!Names : iso[m] # 0 => iso'[m] # 0
    BY <1>0, <1>1, <1>3
  <2>2. iso'[n] # 0 /\ ver'[h] = ver[h]
    BY <1>0, <1>1, <1>3
  <2>3. ver'[h] \in 1..ver[h]
    <3>1. ver[h] \in 1..Len(config[h]) /\ Len(config[h]) \in Nat
      BY VersionIs
    <3> QED
      BY <2>2, <3>1
  <2> QED
    BY <1>2, <1>9, <2>1, <2>2, <2>3, VisitStep DEF Cache!Downloading
<1>7. ASSUME ~overlapped
      PROVE  DownloadInv'
  <2>0. DownloadInv
    BY <1>7
  <2>1. \A g \in Harnesses : place'[g] \in Cache!Downloading =>
          /\ g # h /\ place[g] = place'[g] /\ (Cache!NameOf(g))' = Cache!NameOf(g)
          /\ (Source(g))' = Source(g) /\ fd'[g] = fd[g] /\ received'[g] = received[g]
    BY <1>2, OthersNames DEF Others, Cache!Downloading
  <2>2. \A g \in Harnesses : place'[g] \in Cache!Downloading =>
          Cache!NameOf(g) # n /\ part'[Cache!NameOf(g)] = part[Cache!NameOf(g)]
    BY <1>0, <1>1, <2>0, <2>1 DEF DownloadInv, AloneInv, Cache!Downloading
  <2>3. AloneInv'
    BY <2>0, <2>1 DEF DownloadInv, AloneInv
  <2> HIDE DEF n
  <2>4. CopyInv'
    <3> SUFFICES ASSUME NEW g \in Harnesses, place'[g] = "copy"
                 PROVE  /\ fd'[g] = part'[(Cache!NameOf(g))']
                        /\ content'[fd'[g]] = Arrived((Source(g))', received'[g])
      BY DEF CopyInv, Arrived
    <3>1. place'[g] \in Cache!Downloading
      BY DEF Cache!Downloading
    <3>2. fd[g] = part[Cache!NameOf(g)] /\ content[fd[g]] = Arrived(Source(g), received[g])
          /\ part'[Cache!NameOf(g)] = fd[g]
      BY <2>0, <2>1, <2>2, <3>1 DEF DownloadInv, CopyInv
    <3>3. fd[g] \in Cache!Files
      BY <2>1, <3>1 DEF CacheTypes
    <3>4. content'[fd[g]] = content[fd[g]]
      BY <1>0, <1>1, <1>2, <3>2, <3>3, FilesKept
    <3> QED
      BY <2>1, <3>1, <3>2, <3>4
  <2>5. PublishInv'
    <3> SUFFICES ASSUME NEW g \in Harnesses, place'[g] = "publish"
                 PROVE  /\ part'[(Cache!NameOf(g))'] # 0
                        /\ content'[part'[(Cache!NameOf(g))']] = Cache!Whole((Source(g))')
      BY DEF PublishInv, Cache!Whole
    <3>1. place'[g] \in Cache!Downloading
      BY DEF Cache!Downloading
    <3>2. /\ part[Cache!NameOf(g)] # 0 /\ part'[Cache!NameOf(g)] = part[Cache!NameOf(g)]
          /\ content[part[Cache!NameOf(g)]] = Cache!Whole(Source(g))
      BY <2>0, <2>1, <2>2, <3>1 DEF DownloadInv, PublishInv
    <3>3. content'[part'[Cache!NameOf(g)]] = content[part[Cache!NameOf(g)]]
      BY <1>0, <1>1, <1>2, <3>2, FilesKept
    <3> QED
      BY <2>1, <3>1, <3>2, <3>3
  <2>6. content[part[n]] = Cache!Whole(Source(h)) /\ Source(h) \in Cache!SourcesOf(n)
    BY <1>1, <1>3, <2>0, SourceIsListed DEF DownloadInv, PublishInv, n
  <2>7. ASSUME NEW m \in Cache!Names, iso'[m] # 0
        PROVE  \E t \in (Cache!SourcesOf(m))' : content'[iso'[m]] = Cache!Whole(t)
    <3>1. (Cache!SourcesOf(m))' = Cache!SourcesOf(m)
      BY <1>1, ConfigStays
    <3>2. CASE m = n
      <4>1. iso'[m] = part[n]
        BY <1>0, <1>1, <1>3, <3>2
      <4> QED
        BY <1>8, <2>6, <2>7, <3>1, <3>2, <4>1
    <3>3. CASE m # n
      <4>1. iso'[m] = iso[m]
        BY <1>0, <1>1, <3>3
      <4> QED
        BY <1>8, <2>0, <2>7, <3>1, <4>1 DEF DownloadInv, WholeInv
    <3> QED
      BY <3>2, <3>3
  <2>8. ASSUME NEW m \in replaced'
        PROVE  Cache!Disputed(m)'
    <3>1. CASE m \in replaced
      BY <1>1, <2>0, <3>1, ConfigStays DEF DownloadInv, WholeInv
    <3>2. CASE m \notin replaced
      <4>1. m = n /\ iso[n] # 0 /\ content[iso[n]] # content[part[n]]
        BY <1>1, <2>8, <3>2
      <4>2. PICK t \in Cache!SourcesOf(n) : content[iso[n]] = Cache!Whole(t)
        BY <1>3, <2>0, <4>1 DEF DownloadInv, WholeInv
      <4>3. t # Source(h)
        BY <2>6, <4>1, <4>2
      <4>4. Cache!Disputed(n)
        BY <2>6, <4>2, <4>3 DEF Cache!Disputed
      <4> QED
        BY <1>1, <4>1, <4>4, ConfigStays
    <3> QED
      BY <3>1, <3>2
  <2>9. WholeInv'
    BY <2>7, <2>8 DEF WholeInv, Cache!Names, Cache!Whole
  <2> QED
    BY <2>3, <2>4, <2>5, <2>9 DEF DownloadInv
<1> QED
  BY <1>1, <1>4, <1>5, <1>6, <1>7

\* The .part is opened, a new file or the one that a killed harness left.
LEMMA OpenStep ==
  ASSUME CacheInv, NEW h \in Harnesses, Cache!OpenPart(h)
  PROVE  CacheInv'
<1> DEFINE n == Cache!NameOf(h)
           file == IF part[n] # 0 THEN part[n] ELSE Cache!NewFile
           truncated == [content EXCEPT ![file] = Cache!Empty]
<1> USE CacheConstants DEF CacheInv
<1>0. /\ part \in [Cache!Names -> {0} \cup Cache!Files]
      /\ iso \in [Cache!Names -> {0} \cup Cache!Files]
      /\ ver \in [Harnesses -> Nat]
      /\ fd \in [Harnesses -> {0} \cup Cache!Files]
      /\ place \in [Harnesses -> Cache!Places]
      /\ content \in Contents /\ overlapped \in BOOLEAN
      /\ \A g \in Harnesses : Cache!NameOf(g) \in Cache!Names
  BY VersionIs DEF CacheTypes, Contents
<1>1. /\ place[h] = "open" /\ place' = [place EXCEPT ![h] = "copy"]
      /\ fd' = [fd EXCEPT ![h] = file] /\ part' = [part EXCEPT ![n] = file]
      /\ UNCHANGED <<config, ver, received, iso, replaced>>
      /\ Cache!Retain(truncated)
      /\ overlapped' = (overlapped \/ \E g \in Harnesses :
           place[g] \in Cache!Downloading /\ Cache!NameOf(g) = n)
  BY DEF Cache!OpenPart, Cache!Goto
<1>2. Others(h) /\ place'[h] = "copy" /\ fd'[h] = file
  BY <1>0, <1>1 DEF Others
<1>3. Cache!First(h, ver[h]) /\ n \in Cache!Names /\ fd[h] = 0 /\ received[h] = 0
  BY <1>0, <1>1 DEF VisitInv, CacheTypes
<1>4. file \in Cache!Files /\ (part[n] = 0 => file \notin Cache!InUse)
  BY <1>0, <1>3, NewFileIsNew
<1>5. truncated \in Contents
  BY <1>0, <1>4 DEF Contents, Cache!Empty
<1>6. /\ \A m \in Cache!Names : iso[m] # file
      /\ \A m \in Cache!Names \ {n} : part[m] # file
  <2>1. CASE part[n] # 0
    BY <1>3, <2>1 DEF NamesInv
  <2>2. CASE part[n] = 0
    <3>1. \A m \in Cache!Names : iso[m] \in Cache!InUse /\ part[m] \in Cache!InUse
      BY DEF Cache!InUse
    <3> HIDE DEF file
    <3> QED
      BY <1>4, <2>2, <3>1
  <2> QED
    BY <2>1, <2>2
<1>7. /\ part'[n] = file /\ \A m \in Cache!Names \ {n} : part'[m] = part[m]
      /\ part' \in [Cache!Names -> {0} \cup Cache!Files]
  BY <1>0, <1>1, <1>3, <1>4
<1>8. /\ content' \in Contents /\ content'[file] = Cache!Empty
      /\ \A m \in Cache!Names : iso[m] # 0 => content'[iso[m]] = content[iso[m]]
      /\ \A m \in Cache!Names \ {n} : part[m] # 0 => content'[part[m]] = content[part[m]]
  <2>1. \A m \in Cache!Names : iso[m] \in (Cache!InUse)' /\ part'[m] \in (Cache!InUse)'
    BY <1>1 DEF Cache!InUse, Cache!Names
  <2>2. /\ content' \in Contents
        /\ \A f \in Cache!Files \cap (Cache!InUse)' : content'[f] = truncated[f]
    BY <1>1, <1>5, Retained
  <2>3. truncated[file] = Cache!Empty /\ \A f \in Cache!Files \ {file} : truncated[f] = content[f]
    BY <1>0, <1>4 DEF Contents
  <2> HIDE DEF truncated, file
  <2> QED
    BY <1>0, <1>3, <1>4, <1>6, <1>7, <2>1, <2>2, <2>3
<1> HIDE DEF file, truncated
<1>9. CacheTypes'
  <2>1. fd' \in [Harnesses -> {0} \cup Cache!Files]
    BY <1>0, <1>1, <1>4
  <2>2. place' \in [Harnesses -> Cache!Places]
    BY <1>0, <1>1 DEF Cache!Places, Cache!Downloading
  <2>3. \A g \in Harnesses : /\ place'[g] = "copy" <=> fd'[g] # 0
                             /\ place'[g] # "copy" => received'[g] = 0
    BY <1>1, <1>2, <1>4 DEF Others, CacheTypes
  <2>4. overlapped' \in BOOLEAN
    BY <1>1
  <2> QED
    BY <1>1, <1>7, <1>8, <2>1, <2>2, <2>3, <2>4
       DEF Contents, Cache!Names, Cache!Files, CacheTypes
<1>10. NamesInv'
  <2> SUFFICES ASSUME NEW k \in Cache!Names, NEW m \in Cache!Names, part'[k] # 0
               PROVE  iso'[m] # part'[k] /\ (m # k => part'[m] # part'[k])
    BY DEF NamesInv, Cache!Names
  <2> HIDE DEF n
  <2> QED
    BY <1>1, <1>6, <1>7 DEF NamesInv
<1>13. IsosKept
  BY <1>1, <1>8 DEF IsosKept
<1>11. VisitInv' /\ (CheckInv => CheckInv')
  <2>1. ver[h] \in 1..Len(config[h]) /\ Len(config[h]) \in Nat
    BY VersionIs
  <2>2. ver'[h] = ver[h] /\ ver'[h] \in 1..ver[h]
    BY <1>1, <2>1
  <2>3. \A m \in Cache!Names : iso[m] # 0 => iso'[m] # 0
    BY <1>1
  <2> QED
    BY <1>1, <1>2, <1>13, <2>2, <2>3, VisitStep DEF Cache!Downloading
<1>12. ASSUME ~overlapped'
       PROVE  DownloadInv'
  <2>0. DownloadInv /\ \A g \in Harnesses :
          place[g] \in Cache!Downloading => Cache!NameOf(g) # n
    BY <1>1, <1>12
  <2>1. /\ \A g \in Harnesses \ {h} :
             /\ place[g] = place'[g] /\ (Cache!NameOf(g))' = Cache!NameOf(g)
             /\ (Source(g))' = Source(g) /\ fd'[g] = fd[g] /\ received'[g] = received[g]
        /\ (Cache!NameOf(h))' = n /\ (Source(h))' = Source(h)
    BY <1>1, <1>2, OthersNames DEF Others
  <2> HIDE DEF n
  <2>2. AloneInv'
    BY <1>2, <2>0, <2>1 DEF DownloadInv, AloneInv
  <2>3. CopyInv'
    <3> SUFFICES ASSUME NEW g \in Harnesses, place'[g] = "copy"
                 PROVE  /\ fd'[g] = part'[(Cache!NameOf(g))']
                        /\ content'[fd'[g]] = Arrived((Source(g))', received'[g])
      BY DEF CopyInv, Arrived
    <3>1. CASE g = h
      <4>1. Arrived(Source(h), 0) = Cache!Empty
        BY DEF Arrived, Cache!Empty
      <4> QED
        BY <1>1, <1>2, <1>3, <1>7, <1>8, <2>1, <3>1, <4>1
    <3>2. CASE g # h
      <4>1. place[g] = "copy" /\ Cache!NameOf(g) # n
        BY <2>0, <2>1, <3>2 DEF Cache!Downloading
      <4>2. fd[g] = part[Cache!NameOf(g)] /\ content[fd[g]] = Arrived(Source(g), received[g])
        BY <2>0, <4>1 DEF DownloadInv, CopyInv
      <4>3. fd[g] # 0
        BY <4>1 DEF CacheTypes
      <4> QED
        BY <1>0, <1>7, <1>8, <2>1, <3>2, <4>1, <4>2, <4>3
    <3> QED
      BY <3>1, <3>2
  <2>4. PublishInv'
    <3> SUFFICES ASSUME NEW g \in Harnesses, place'[g] = "publish"
                 PROVE  /\ part'[(Cache!NameOf(g))'] # 0
                        /\ content'[part'[(Cache!NameOf(g))']] = Cache!Whole((Source(g))')
      BY DEF PublishInv, Cache!Whole
    <3>1. g # h /\ place[g] = "publish" /\ Cache!NameOf(g) # n
      BY <1>2, <2>0, <2>1 DEF Cache!Downloading
    <3>2. part[Cache!NameOf(g)] # 0 /\ content[part[Cache!NameOf(g)]] = Cache!Whole(Source(g))
      BY <2>0, <3>1 DEF DownloadInv, PublishInv
    <3> QED
      BY <1>0, <1>7, <1>8, <2>1, <3>1, <3>2
  <2>5. WholeInv'
    BY <1>1, <1>8, <1>13, <2>0, WholeStays DEF DownloadInv
  <2> QED
    BY <2>2, <2>3, <2>4, <2>5 DEF DownloadInv
<1> QED
  BY <1>1, <1>9, <1>10, <1>11, <1>12

\* One more chunk.
LEMMA NextChunk ==
  ASSUME NEW v, NEW r \in 0..Chunks, NEW k \in 1..Chunks, k = r + 1
  PROVE  [Arrived(v, r) EXCEPT ![k] = v] = Arrived(v, k)
<1> DEFINE a == [Arrived(v, r) EXCEPT ![k] = v]
           b == Arrived(v, k)
<1>1. a = [i \in 1..Chunks |-> IF i = k THEN v ELSE IF i <= r THEN v ELSE 0]
  BY DEF Arrived
<1>2. \A i \in 1..Chunks : (IF i = k THEN v ELSE IF i <= r THEN v ELSE 0)
                             = IF i <= k THEN v ELSE 0
  BY CacheConstants
<1> QED
  BY <1>1, <1>2 DEF Arrived

\* The next chunk goes through the descriptor into the file behind the .part.
LEMMA ReceiveStep ==
  ASSUME CacheInv, NEW h \in Harnesses, Cache!Receive(h)
  PROVE  CacheInv'
<1> DEFINE k == received[h] + 1
<1> USE CacheConstants DEF CacheInv
<1>0. /\ ver \in [Harnesses -> Nat]
      /\ received \in [Harnesses -> 0..Chunks]
      /\ content \in Contents /\ fd[h] \in {0} \cup Cache!Files
      /\ \A g \in Harnesses : Cache!NameOf(g) \in Cache!Names /\ Source(g) \in 0..NumSources
  <2>1. \A g \in Harnesses : Cache!NameOf(g) \in Cache!Names /\ Source(g) \in 1..NumSources
    BY VersionIs
  <2>2. 1..NumSources \subseteq 0..NumSources
    OBVIOUS
  <2> QED
    BY <2>1, <2>2 DEF CacheTypes, Contents
<1>1. /\ place[h] = "copy" /\ k \in 1..Chunks
      /\ received' = [received EXCEPT ![h] = k]
      /\ content' = [content EXCEPT ![fd[h]] = [content[fd[h]] EXCEPT ![k] = Source(h)]]
      /\ UNCHANGED <<config, place, ver, fd, iso, part, replaced, overlapped>>
  BY <1>0 DEF Cache!Receive, Source
<1>2. fd[h] \in Cache!Files
  BY <1>0, <1>1 DEF CacheTypes
<1>3. received' \in [Harnesses -> 0..Chunks] /\ received'[h] = k
      /\ \A g \in Harnesses \ {h} : received'[g] = received[g]
  BY <1>0, <1>1
<1>4. /\ content' \in Contents /\ content'[fd[h]] = [content[fd[h]] EXCEPT ![k] = Source(h)]
      /\ \A f \in Cache!Files \ {fd[h]} : content'[f] = content[f]
  <2> HIDE DEF k
  <2>1. [content[fd[h]] EXCEPT ![k] = Source(h)] \in [1..Chunks -> 0..NumSources]
    BY <1>0, <1>1, <1>2 DEF Contents
  <2> QED
    BY <1>0, <1>1, <1>2, <2>1 DEF Contents
<1> HIDE DEF k
<1>5. Others(h)
  BY <1>1, <1>3 DEF Others
<1>6. CacheTypes'
  BY <1>1, <1>3, <1>4 DEF CacheTypes, Contents, Cache!Names, Cache!Files
<1>7. NamesInv'
  BY <1>1 DEF NamesInv, Cache!Names
<1>8. VisitInv' /\ (CheckInv /\ IsosKept => CheckInv')
  <2>0. ver[h] \in 1..Len(config[h]) /\ Len(config[h]) \in Nat
    BY VersionIs
  <2>1. ver'[h] \in 1..ver[h] /\ place'[h] = "copy" /\ place[h] = "copy" /\ ver'[h] = ver[h]
    BY <1>1, <2>0
  <2>2. \A n \in Cache!Names : iso[n] # 0 => iso'[n] # 0
    BY <1>1
  <2> QED
    BY <1>5, <2>1, <2>2, VisitStep DEF Cache!Downloading
<1>9. ASSUME ~overlapped
      PROVE  DownloadInv' /\ IsosKept
  <2>0. DownloadInv
    BY <1>9
  <2>1. \A g \in Harnesses : (Cache!NameOf(g))' = Cache!NameOf(g) /\ (Source(g))' = Source(g)
    BY <1>1 DEF Cache!NameOf, Cache!Version, Source
  <2>2. AloneInv'
    BY <1>1, <2>0, <2>1 DEF DownloadInv, AloneInv
  <2>3. fd[h] = part[Cache!NameOf(h)] /\ content[fd[h]] = Arrived(Source(h), received[h])
    BY <1>1, <2>0 DEF DownloadInv, CopyInv
  <2>4. \A g \in Harnesses \ {h} : place[g] \in Cache!Downloading =>
          part[Cache!NameOf(g)] # fd[h]
    <3> SUFFICES ASSUME NEW g \in Harnesses \ {h}, place[g] \in Cache!Downloading
                 PROVE  part[Cache!NameOf(g)] # fd[h]
      OBVIOUS
    <3> DEFINE m == Cache!NameOf(g)
               n == Cache!NameOf(h)
    <3>1. m # n
      BY <1>1, <2>0 DEF DownloadInv, AloneInv, Cache!Downloading
    <3>2. m \in Cache!Names /\ n \in Cache!Names
      BY <1>0
    <3>3. part[n] = fd[h] /\ part[n] # 0
      BY <1>2, <2>3 DEF Cache!Files
    <3> HIDE DEF m, n
    <3>4. part[m] # part[n]
      BY <3>1, <3>2, <3>3 DEF NamesInv
    <3> QED
      BY <3>3, <3>4 DEF m
  <2>5. CopyInv'
    <3> SUFFICES ASSUME NEW g \in Harnesses, place[g] = "copy"
                 PROVE  /\ fd[g] = part[Cache!NameOf(g)]
                        /\ content'[fd[g]] = Arrived(Source(g), received'[g])
      <4>1. place' = place /\ fd' = fd /\ part' = part /\ ver' = ver
        BY <1>1
      <4>2. \A g \in Harnesses :
              (fd[g] = part[Cache!NameOf(g)])' <=> fd[g] = part[Cache!NameOf(g)]
        BY <2>1, <4>1
      <4>3. \A g \in Harnesses : (Arrived(Source(g), received[g]))' = Arrived(Source(g), received'[g])
        BY <2>1 DEF Arrived
      <4> QED
        BY <4>1, <4>2, <4>3, Zenon DEF CopyInv
    <3>1. fd[g] = part[Cache!NameOf(g)] /\ content[fd[g]] = Arrived(Source(g), received[g])
          /\ fd[g] \in Cache!Files
      BY <2>0 DEF DownloadInv, CopyInv, CacheTypes
    <3>2. CASE g = h
      <4>1. [Arrived(Source(h), received[h]) EXCEPT ![k] = Source(h)] = Arrived(Source(h), k)
        <5> DEFINE r == received[h]
        <5>1. r \in 0..Chunks /\ k = r + 1 /\ k \in 1..Chunks
          BY <1>0, <1>1 DEF k
        <5> HIDE DEF r
        <5>2. [Arrived(Source(h), r) EXCEPT ![k] = Source(h)] = Arrived(Source(h), k)
          BY <5>1, NextChunk
        <5> QED
          BY <5>2 DEF r
      <4> QED
        BY <1>3, <1>4, <2>3, <3>1, <3>2, <4>1
    <3>3. CASE g # h
      BY <1>3, <1>4, <2>4, <3>1, <3>3 DEF Cache!Downloading
    <3> QED
      BY <3>2, <3>3
  <2>6. PublishInv'
    <3> SUFFICES ASSUME NEW g \in Harnesses, place[g] = "publish"
                 PROVE  /\ part[Cache!NameOf(g)] # 0
                        /\ content'[part[Cache!NameOf(g)]] = Cache!Whole(Source(g))
      BY <1>1, <2>1 DEF PublishInv, Cache!Whole
    <3>1. part[Cache!NameOf(g)] # 0 /\ content[part[Cache!NameOf(g)]] = Cache!Whole(Source(g))
          /\ g # h
      BY <1>1, <2>0 DEF DownloadInv, PublishInv
    <3>2. part[Cache!NameOf(g)] \in Cache!Files \ {fd[h]}
      BY <1>0, <2>4, <3>1 DEF CacheTypes, Cache!Downloading
    <3> QED
      BY <1>4, <3>1, <3>2
  <2>7. \A m \in Cache!Names : iso[m] # 0 => content'[iso[m]] = content[iso[m]]
    <3> SUFFICES ASSUME NEW m \in Cache!Names, iso[m] # 0
                 PROVE  content'[iso[m]] = content[iso[m]]
      OBVIOUS
    <3>1. iso[m] \in Cache!Files \ {fd[h]}
      BY <1>0, <1>2, <2>3 DEF CacheTypes, NamesInv
    <3> QED
      BY <1>4, <3>1
  <2>8. IsosKept
    BY <1>1, <2>7 DEF IsosKept
  <2>9. WholeInv'
    BY <1>1, <2>0, <2>7, <2>8, WholeStays DEF DownloadInv
  <2> QED
    BY <2>2, <2>5, <2>6, <2>8, <2>9 DEF DownloadInv
<1> QED
  BY <1>1, <1>6, <1>7, <1>8, <1>9

\* Every step of a harness, and a kill at any point of it, keeps the cache.
LEMMA CacheStep ==
  ASSUME CacheInv, NEW h \in Harnesses, Cache!Step(h) \/ Cache!Kill(h)
  PROVE  CacheInv'
  BY QuietStep, LeavingSteps, PublishStep, OpenStep, ReceiveStep
     DEF Cache!Step, Cache!Proceed, Quiet

\* A step of the pool or of a signal is none of the cache.
LEMMA CacheKept ==
  ASSUME CacheInv, UNCHANGED cacheVars
  PROVE  CacheInv'
<1> USE DEF cacheVars, CacheInv, Cache!Names
<1>1. CacheTypes'
  BY DEF CacheTypes, Cache!Files
<1>2. NamesInv'
  BY DEF NamesInv
<1>3. VisitInv' /\ (CheckInv => CheckInv')
  <2>1. VisitInv'
    BY ConfigStays DEF VisitInv, Passed, Cache!NameOf, Cache!Version, Cache!First
  <2>2. CheckInv => CheckInv'
    <3>1. UNCHANGED <<config, replaced, content, iso>> /\ \A h, u : Passed(h, u)' <=> Passed(h, u)
      BY DEF Passed
    <3> HIDE DEF CacheInv
    <3> QED
      BY <3>1, WholeIsConstant DEF CheckInv
  <2> QED
    BY <2>1, <2>2
<1>4. DownloadInv => DownloadInv'
  <2>1. AloneInv /\ CopyInv /\ PublishInv => AloneInv' /\ CopyInv' /\ PublishInv'
    BY DEF AloneInv, CopyInv, PublishInv, Arrived, Source, Cache!NameOf, Cache!Version,
           Cache!Whole
  <2>2. IsosKept
    BY DEF IsosKept
  <2>3. WholeInv => WholeInv'
    BY <2>2, WholeStays
  <2> QED
    BY <2>1, <2>3 DEF DownloadInv
<1> QED
  BY <1>1, <1>2, <1>3, <1>4

\* An empty cache, and harnesses that have yet to look at it.
LEMMA CacheInit == Cache!Init => CacheInv
<1> SUFFICES ASSUME Cache!Init
             PROVE  CacheInv
  OBVIOUS
<1> USE CacheConstants DEF Cache!Init
<1>1. CacheTypes
  <2>1. Cache!Empty \in [1..Chunks -> 0..NumSources]
    BY DEF Cache!Empty
  <2>2. content \in [Cache!Files -> [1..Chunks -> 0..NumSources]]
    BY <2>1
  <2>3. /\ config \in [Harnesses -> Configs] /\ overlapped \in BOOLEAN /\ replaced = {}
        /\ place \in [Harnesses -> Cache!Places]
    BY DEF Cache!Places
  <2>4. /\ ver \in [Harnesses -> Nat]
        /\ fd \in [Harnesses -> {0} \cup Cache!Files]
        /\ received \in [Harnesses -> 0..Chunks]
    OBVIOUS
  <2>5. /\ iso \in [Cache!Names -> {0} \cup Cache!Files]
        /\ part \in [Cache!Names -> {0} \cup Cache!Files]
    OBVIOUS
  <2>6. \A h \in Harnesses : place[h] = "stat" /\ fd[h] = 0 /\ received[h] = 0
    OBVIOUS
  <2>7. \A h \in Harnesses : ver[h] = 1
    OBVIOUS
  <2> HIDE DEF Cache!Init
  <2>8. \A h \in Harnesses : ver[h] \in DOMAIN config[h]
    BY <2>3, <2>7, ConfigIs
  <2> QED
    BY <2>2, <2>3, <2>4, <2>5, <2>6, <2>8 DEF CacheTypes
<1>2. NamesInv
  BY DEF NamesInv
<1>3. VisitInv /\ CheckInv
  <2>1. \A h \in Harnesses : ver[h] = 1 /\ place[h] = "stat"
    OBVIOUS
  <2>2. \A h \in Harnesses : \A u \in DOMAIN config[h] : ~Passed(h, u)
    BY <2>1, ConfigIs DEF Passed
  <2> HIDE DEF Cache!Init
  <2> QED
    BY <2>1, <2>2 DEF VisitInv, CheckInv, Cache!Downloading
<1>4. DownloadInv
  BY DEF DownloadInv, AloneInv, CopyInv, PublishInv, WholeInv, Cache!Downloading
<1> QED
  BY <1>1, <1>2, <1>3, <1>4 DEF CacheInv

-----------------------------------------------------------------------------
(* The run: the cache, then the pool.                                      *)

\* Once the pool runs the cache is not followed any more.
RunCacheInv ==
  /\ ~started => CacheInv
  /\ started => iso = [n \in Cache!Names |-> 0] /\ replaced = {}

\* Before the pool runs, nothing but an interrupt or an error can have happened
\* to it.
PoolIdle ==
  /\ cancelled \in BOOLEAN /\ exitCode \in {1, 255}
  /\ next = 1 /\ sender = "sending"
  /\ at = [w \in Workers |-> "receiving"]
  /\ job = [w \in Workers |-> 0]
  /\ port = [w \in Workers |-> 0] /\ booted = {}
  /\ result = [c \in Cases |-> "none"]
  /\ kept = {} /\ dirs = {} /\ keys = {}
  /\ collected = {}

RunPoolInv == IF started THEN PoolInv ELSE PoolIdle

RunInv == started \in BOOLEAN /\ RunCacheInv /\ RunPoolInv

\* A pool that has not begun is one that may begin.
LEMMA IdlePoolStarts ==
  /\ PoolIdle => TypeOK /\ DirInv
  /\ PoolIdle /\ exitCode = 255 => PoolInv
<1>1. PoolIdle => TypeOK /\ DirInv
  BY WorkersAreNumbers DEF PoolIdle, TypeOK, DirInv, Places, Stages
<1>2. PoolIdle /\ exitCode = 255 => JobInv /\ SentInv /\ VerdictInv /\ SenderInv /\ PortInv
  BY WorkersAreNumbers
     DEF PoolIdle, JobInv, SentInv, VerdictInv, SenderInv, PortInv, Active, Stages, Cases
<1> QED
  BY <1>1, <1>2 DEF PoolInv

\* The run keeps the cache up to the moment at which the pool starts, and the
\* pool from then on.
LEMMA RunStep == RunInv /\ [RunNext]_runVars => RunInv'
<1> SUFFICES ASSUME RunInv, [RunNext]_runVars
             PROVE  RunInv'
  OBVIOUS
<1> USE DEF RunInv, RunCacheInv, RunPoolInv
<1>1. ASSUME NEW h \in Harnesses, PrepareISOs(h)
      PROVE  RunInv'
  <2>1. ~started /\ UNCHANGED <<vars, started>> /\ (Cache!Step(h) \/ Cache!Kill(h))
    BY <1>1 DEF PrepareISOs, Preparing
  <2>2. CacheInv'
    BY <2>1, CacheStep
  <2>3. PoolIdle'
    BY <2>1 DEF PoolIdle, vars, case
  <2> QED
    BY <2>1, <2>2, <2>3
<1>2. CASE PrepareFails \/ Interrupt
  <2>1. ~started /\ UNCHANGED <<started, cacheVars>>
    BY <1>2 DEF PrepareFails, Interrupt, Preparing
  <2>2. PoolIdle'
    BY <1>2, <2>1 DEF PrepareFails, Interrupt, Cancel, Preparing, PoolIdle, case
  <2>3. CacheInv'
    BY <2>1, CacheKept
  <2> QED
    BY <2>1, <2>2, <2>3
<1>3. CASE CreateRunRoot
  <2>1. /\ ~started /\ exitCode = 255 /\ started' = TRUE /\ UNCHANGED vars
        /\ iso' = [n \in Cache!Names |-> 0] /\ replaced' = {}
    BY <1>3 DEF CreateRunRoot, Preparing, Cache!Forget
  <2>2. PoolInv'
    <3>1. PoolInv
      BY <2>1, IdlePoolStarts
    <3> QED
      BY <2>1, <3>1, PoolStep
  <2> QED
    BY <2>1, <2>2 DEF Cache!Names
<1>4. CASE RunCases
  <2>1. started /\ Next /\ UNCHANGED <<started, cacheVars>>
    BY <1>4 DEF RunCases
  <2>2. PoolInv'
    BY <2>1, PoolStep
  <2> QED
    BY <2>1, <2>2 DEF cacheVars, Cache!Names
<1>5. CASE UNCHANGED runVars
  <2>1. UNCHANGED <<vars, started, cacheVars>>
    BY <1>5 DEF runVars
  <2>2. CacheInv => CacheInv'
    BY <2>1, CacheKept
  <2>3. PoolIdle => PoolIdle'
    BY <2>1 DEF PoolIdle, vars, case
  <2>4. PoolInv => PoolInv'
    BY <2>1, PoolStep
  <2> QED
    BY <2>1, <2>2, <2>3, <2>4 DEF cacheVars, Cache!Names
<1> QED
  BY <1>1, <1>2, <1>3, <1>4, <1>5 DEF RunNext

\* The inductive invariant of a whole run: a sound cache while the ISOs are
\* prepared, and no lost case afterwards.
THEOREM RunInvariant == RunSpec => []RunInv
<1>1. RunInit => RunInv
  <2> SUFFICES ASSUME RunInit
               PROVE  RunInv
    OBVIOUS
  <2>1. CacheInv /\ started = FALSE
    BY CacheInit DEF RunInit
  <2>2. PoolIdle
    BY DEF RunInit, Init, PoolIdle
  <2> QED
    BY <2>1, <2>2 DEF RunInv, RunCacheInv, RunPoolInv
<1> QED
  BY <1>1, RunStep, PTL DEF RunSpec

\* Unless two downloads of one file overlapped, the cache holds whole files
\* only, each under a name that some harness has for it, for any number of
\* harnesses, configurations, chunks and kills; and no ISO gives way to another
\* one but where two harnesses list different ISOs under one file name.
THEOREM WholeFilesInCache == RunSpec => []CacheHoldsWholeFiles
<1>1. RunInv => CacheHoldsWholeFiles
  <2> SUFFICES ASSUME RunInv, ~overlapped
               PROVE  /\ \A n \in Cache!Names : iso[n] # 0 =>
                           \E s \in Cache!SourcesOf(n) : content[iso[n]] = Cache!Whole(s)
                      /\ \A n \in replaced : Cache!Disputed(n)
    BY DEF CacheHoldsWholeFiles
  <2>1. CASE started
    BY <2>1 DEF RunInv, RunCacheInv
  <2>2. CASE ~started
    BY <2>2 DEF RunInv, RunCacheInv, CacheInv, DownloadInv, WholeInv
  <2> QED
    BY <2>1, <2>2
<1> QED
  BY <1>1, RunInvariant, PTL

\* The cases of every run start on ISOs that match their SHA256, whoever had
\* downloaded them, unless two downloads overlapped or a rename put a different
\* ISO in the place of one, which takes another harness that has a different
\* one under that name; and where no harness has one, each version without an
\* earlier one of its file name starts on the ISO of its URL.
THEOREM RightISOs == RunSpec => CasesStartOnTheirISOs
<1>1. ASSUME RunInv, [RunNext]_runVars, started', ~started, ~overlapped,
             NEW v \in DOMAIN config[Us]
      PROVE  /\ config[Us][v].sha # 0 /\ config[Us][v].name \notin replaced =>
                  content[iso[config[Us][v].name]] = Cache!Whole(config[Us][v].sha)
             /\ Cache!First(Us, v) /\ ~Cache!Disputed(config[Us][v].name) =>
                  content[iso[config[Us][v].name]] = Cache!Whole(config[Us][v].source)
  <2>1. CreateRunRoot
    BY <1>1 DEF RunNext, PrepareISOs, PrepareFails, RunCases, Interrupt, runVars
  <2>2. Us \in Harnesses /\ place[Us] = "ready"
    BY <2>1, RunAssumption DEF CreateRunRoot, Prepared
  <2>3. CacheInv
    BY <1>1 DEF RunInv, RunCacheInv
  <2>4. Passed(Us, v)
    BY <2>2 DEF Passed
  <2>5. iso[config[Us][v].name] # 0
    BY <2>2, <2>3, <2>4 DEF CacheInv, VisitInv
  <2>6. config[Us][v].name \in Cache!Names /\ config[Us][v].source \in Cache!Sources
    <3>1. config[Us] \in Configs
      BY <2>2, <2>3 DEF CacheInv, CacheTypes
    <3> QED
      BY <3>1, ConfigIs
  <2>7. ASSUME Cache!First(Us, v), ~Cache!Disputed(config[Us][v].name)
        PROVE  content[iso[config[Us][v].name]] = Cache!Whole(config[Us][v].source)
    <3>1. PICK s \in Cache!SourcesOf(config[Us][v].name) :
            content[iso[config[Us][v].name]] = Cache!Whole(s)
      BY <1>1, <2>3, <2>5, <2>6 DEF CacheInv, DownloadInv, WholeInv
    <3>2. config[Us][v].source \in Cache!SourcesOf(config[Us][v].name)
      BY <2>2, <2>6, <2>7 DEF Cache!SourcesOf
    <3>3. s = config[Us][v].source
      BY <2>7, <3>2 DEF Cache!Disputed
    <3> QED
      BY <3>1, <3>3
  <2> QED
    BY <1>1, <2>2, <2>3, <2>4, <2>7 DEF CacheInv, CheckInv
<1>2. RunInv /\ [RunNext]_runVars =>
        [started' /\ ~started /\ ~overlapped =>
           \A v \in DOMAIN config[Us] :
             LET version == config[Us][v]
                 file == content[iso[version.name]]
             IN  /\ version.sha # 0 /\ version.name \notin replaced =>
                      file = Cache!Whole(version.sha)
                 /\ Cache!First(Us, v) /\ ~Cache!Disputed(version.name) =>
                      file = Cache!Whole(version.source)]_runVars
  BY <1>1
<1> QED
  BY <1>2, RunInvariant, PTL DEF RunSpec, CasesStartOnTheirISOs

\* A run as a whole keeps what its pool promises, also when it ends before the
\* pool begins: types and the exit code.
THEOREM RunIsCorrect ==
  RunSpec => []TypeOK /\ []ExitZeroMeansAllPassed
<1>1. RunInv => TypeOK /\ ExitZeroMeansAllPassed
  <2> SUFFICES ASSUME RunInv
               PROVE  TypeOK /\ ExitZeroMeansAllPassed
    OBVIOUS
  <2>1. CASE started
    BY <2>1, ZeroMeansAll DEF RunInv, RunPoolInv, PoolInv
  <2>2. CASE ~started
    BY <2>2, IdlePoolStarts
       DEF RunInv, RunPoolInv, PoolIdle, ExitZeroMeansAllPassed
  <2> QED
    BY <2>1, <2>2
<1> QED
  BY <1>1, RunInvariant, PTL

\* In a run of up to 1000 cases no two cases in hand hold the same port.
THEOREM RunPortsNotShared ==
  ASSUME NumCases <= 1000
  PROVE  RunSpec => []PortsNotShared
<1>1. RunInv => PortsNotShared
  <2>1. PoolIdle => PortsNotShared
    BY DEF PoolIdle, PortsNotShared
  <2> QED
    BY <2>1, OwnPorts DEF RunInv, RunPoolInv
<1> QED
  BY <1>1, RunInvariant, PTL

\* In a run whose cases have directories of their own, a case that was reported
\* as kept has its directory.
THEOREM RunKeepsArtifacts ==
  ASSUME \A c, d \in Cases : CaseDir[c] = CaseDir[d] => c = d
  PROVE  RunSpec => []KeptArtifactsExist
<1>1. RunInit => DirInv
  BY PortInit DEF RunInit
<1>2. RunInv /\ DirInv /\ [RunNext]_runVars => DirInv'
  <2> SUFFICES ASSUME RunInv, DirInv, [RunNext]_runVars
               PROVE  DirInv'
    OBVIOUS
  <2>1. CASE started /\ [Next]_vars
    BY <2>1, DirStep DEF RunInv, RunPoolInv, PoolInv
  <2>2. CASE UNCHANGED <<at, job, kept, dirs, collected>>
    BY <2>2 DEF DirInv
  <2>3. (started /\ [Next]_vars) \/ UNCHANGED <<at, job, kept, dirs, collected>>
    BY DEF RunNext, PrepareISOs, PrepareFails, CreateRunRoot, RunCases, Interrupt, Cancel,
           vars, case, runVars
  <2> QED
    BY <2>1, <2>2, <2>3
<1>3. DirInv => KeptArtifactsExist
  BY DEF DirInv, KeptArtifactsExist
<1> QED
  BY <1>1, <1>2, <1>3, RunInvariant, PTL DEF RunSpec
=============================================================================
