------------------------------ MODULE MatrixRun ------------------------------
(***************************************************************************)
(* run of cmd/e2e-matrix/main.go: the ISO cache is prepared, a run         *)
(* directory is made, and the pool runs the cases of the matrix.           *)
(*                                                                         *)
(* `Us` is the harness whose run this is; the other harnesses only share   *)
(* the ISO cache with it.  The pool never looks at the cache again, so the *)
(* cache is followed up to the moment the pool starts.                     *)
(***************************************************************************)
EXTENDS MatrixPool, Sequences

CONSTANTS
  Harnesses,    \* the harness processes that share iso_dir
  Us,           \* the one whose run is followed
  NumNames,     \* file names that ISOs may have
  NumSources,   \* ISOs that URLs may lead to
  Configs,      \* values of ubuntu_versions
  Chunks,       \* bound: the pieces in which a file arrives
  MaxKills      \* bound: how often a harness is killed

ASSUME RunAssumption == /\ Us \in Harnesses
                        /\ IsFiniteSet(Harnesses)
                        /\ NumNames \in Nat \ {0}
                        /\ NumSources \in Nat \ {0}
                        /\ Configs \subseteq
                             Seq([name : 1..NumNames, source : 1..NumSources,
                                  sha : 0..NumSources]) \ {<<>>}
                        /\ Chunks \in Nat \ {0}
                        /\ MaxKills \in Nat

VARIABLES
  started,      \* the pool runs
  config, place, ver, fd, received, iso, part, content, replaced, overlapped,
  kills         \* the variables of IsoCache

Cache == INSTANCE IsoCache

cacheVars == <<config, place, ver, fd, received, iso, part, content, replaced,
               overlapped, kills>>
runVars == <<vars, started, cacheVars>>

-----------------------------------------------------------------------------

Preparing == ~started /\ exitCode = 255

\* A harness that is killed is run again.
PrepareISOs(h) ==
  /\ Preparing
  /\ Cache!Step(h) \/ (Cache!Kill(h) /\ ~(h = Us /\ cancelled))
  /\ UNCHANGED <<vars, started>>

Prepared == place[Us] = "ready"

\* prepareISOs or createRunRoot returns an error; without one the pool starts.
PrepareFails ==
  /\ Preparing
  /\ place[Us] \in Cache!Idle
  /\ exitCode' = 1
  /\ UNCHANGED <<cancelled, next, sender, at, job, port, booted, case,
                 collected, started, cacheVars>>

\* The first directory <time>, <time>-02, ... that os.Mkdir creates.
CreateRunRoot ==
  /\ Preparing /\ Prepared
  /\ started' = TRUE
  /\ UNCHANGED vars
  /\ Cache!Forget

RunCases == started /\ Next /\ UNCHANGED <<started, cacheVars>>

Interrupt == Preparing /\ Cancel /\ UNCHANGED <<started, cacheVars>>

-----------------------------------------------------------------------------

RunInit == Init /\ Cache!Init /\ started = FALSE

RunNext ==
  \/ \E h \in Harnesses : PrepareISOs(h)
  \/ PrepareFails \/ CreateRunRoot \/ RunCases \/ Interrupt

\* A harness that waits for a server goes on when it is interrupted; nothing
\* but its interrupt ends a wait for a server that stays silent.
Waits == Preparing /\ place[Us] \in {"request", "copy"}

EndsWait == cancelled /\ PrepareISOs(Us) /\ place'[Us] = "failed"

Proceeds == Preparing /\ Cache!Proceed(Us) /\ UNCHANGED <<vars, started>>

RunSpec ==
  /\ RunInit /\ [][RunNext]_runVars
  /\ WF_runVars(Proceeds) /\ WF_runVars(EndsWait)
  /\ WF_runVars(PrepareFails \/ CreateRunRoot)
  /\ WF_runVars(RunCases /\ (CloseJobs \/ CloseResults \/ Finish))
  /\ WF_runVars(RunCases /\ \E w \in Workers : Send(w))
  /\ \A w \in Workers : /\ WF_runVars(RunCases /\ Collect(w))
                        /\ WF_runVars(RunCases /\ Worker(w))

-----------------------------------------------------------------------------

\* What downloads to a .part and renames it are for: unless two harnesses
\* downloaded one file at a time, the cache never holds a file that is not
\* whole or that no harness has under this name, wherever a harness was killed
\* or a download broke off, and whatever .part a killed one left for the next;
\* and an ISO only gives way to a different one when two harnesses list
\* different ISOs under its file name.
CacheHoldsWholeFiles ==
  ~overlapped =>
    /\ \A n \in Cache!Names : iso[n] # 0 =>
         \E s \in Cache!SourcesOf(n) : content[iso[n]] = Cache!Whole(s)
    /\ \A n \in replaced : Cache!Disputed(n)

\* As long as no two downloads of a file overlapped, the cases start on ISOs
\* that match their SHA256, whoever downloaded them, and on those of their own
\* URL where nobody lists another one for that file name.  Exempt are an ISO
\* that another harness, past its own os.Stat, replaced by a different one, and
\* a version without SHA256 whose file name an earlier version has too, or for
\* which another harness lists a different ISO.
CasesStartOnTheirISOs ==
  [][started' /\ ~started /\ ~overlapped =>
       \A v \in DOMAIN config[Us] :
         LET version == config[Us][v]
             file == content[iso[version.name]]
         IN  /\ version.sha # 0 /\ version.name \notin replaced =>
                  file = Cache!Whole(version.sha)
             /\ Cache!First(Us, v) /\ ~Cache!Disputed(version.name) =>
                  file = Cache!Whole(version.source)]_runVars

\* Every run ends with an exit code, interrupted or not, except that a run
\* waits as long as it is not interrupted for a server that stays silent.
RunEnds == <>(exitCode # 255) \/ <>[](Waits /\ ~cancelled)
=============================================================================
