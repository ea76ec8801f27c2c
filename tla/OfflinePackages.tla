--------------------------- MODULE OfflinePackages ---------------------------
(***************************************************************************)
(* The way of the extra packages into the guest: BuildRepository of        *)
(* internal/offlineapt/offlineapt.go, which asks APT for what the packages *)
(* need, downloads it and trims the archive's index to it; the remastered  *)
(* ISO it is embedded in; and install-offline-packages.sh, which installs  *)
(* from there at the end of the guest's installation.                      *)
(*                                                                         *)
(* The archive changes while the builder works, every step may fail, and a *)
(* signal makes the script clean up without making it exit.                *)
(***************************************************************************)
EXTENDS Naturals

CONSTANTS
  Debs,        \* the package files an archive may hold
  Arch,        \* the architecture of each
  Depends,     \* what each one depends on
  MaxSignals   \* bound: signals to the script

ASSUME OfflinePackagesAssumption ==
  /\ DOMAIN Arch = Debs
  /\ Depends \in [Debs -> SUBSET Debs]
  /\ MaxSignals \in Nat

VARIABLES
  wanted,      \* Config.Packages
  archive,     \* the files at apt_url
  pc,          \* the builder
  lists,       \* the records of the indexes that apt-get update fetched
  selection,   \* the packageURIs of --print-uris
  downloads,   \* the files in downloadDir
  repo,        \* repoDir: its pool, its index by architecture, and whether
               \* Release and the Packages files it has the sums of are there
  iso,         \* the same, as it arrived in the remastered ISO
  script,      \* the place in install-offline-packages.sh
  copied,      \* the target's copy of the repository
  sources,     \* the target's sources.list of the builder exists
  dirs,        \* repo_dst and the empty source_parts exist
  known,       \* the records of the target's own lists from that source
  installed,   \* the packages of the target
  status,      \* the script's exit status, 255 while it runs
  signals      \* signals to the script so far

builder == <<lists, selection, downloads, repo, iso>>
target == <<copied, sources, dirs, known, installed>>
vars == <<wanted, archive, pc, builder, script, target, status, signals>>

Architectures == {"amd64", "all"}
NoIndex == [a \in Architectures |-> {}]
NoRepo == [pool |-> {}, index |-> NoIndex, release |-> FALSE]
Repos ==
  {r \in [pool : SUBSET Debs, index : [Architectures -> SUBSET Debs], release : BOOLEAN] :
     \A a \in Architectures : r.index[a] \subseteq {d \in Debs : Arch[d] = a}}
Records(r) == UNION {r.index[a] : a \in Architectures}

\* What a set of packages needs, itself included.
Closure(set) ==
  LET Closed(S) == set \subseteq S /\ \A d \in S : Depends[d] \subseteq S
  IN  {d \in Debs : \A S \in SUBSET Debs : Closed(S) => d \in S}

BuildSteps == {"update", "uris", "download", "copy", "index", "validate",
               "remaster", "embedded?"}
ScriptSteps == {"check", "reset", "cp", "debs", "indexes", "sources", "update",
                "install"}

-----------------------------------------------------------------------------
(* The builder.                                                            *)

\* A mirror publishes a file, or drops one that a newer one replaces.
ArchiveChanges ==
  /\ pc \in BuildSteps
  /\ \E d \in Debs : archive' \in {archive \cup {d}, archive \ {d}} \ {archive}
  /\ UNCHANGED <<wanted, pc, builder, script, target, status, signals>>

Outside == UNCHANGED <<wanted, archive, script, target, status, signals>>

\* Every step of the builder may fail, or its context may be done.
BuildFails ==
  /\ pc \in BuildSteps
  /\ pc' = "failed"
  /\ UNCHANGED builder /\ Outside

\* An update that misses an index is an error (checkAPTUpdateOutput).
AptUpdate ==
  /\ pc = "update" /\ pc' = "uris"
  /\ lists' = archive
  /\ UNCHANGED <<selection, downloads, repo, iso>> /\ Outside

\* Mutant: APT believes that what the host has installed is there already.
SelectedOnHost == wanted

\* APT resolves against an empty dpkg status.
Selected == Closure(wanted)

PrintURIs ==
  /\ pc = "uris" /\ pc' = "download"
  /\ Selected \subseteq lists
  /\ selection' = Selected
  /\ UNCHANGED <<lists, downloads, repo, iso>> /\ Outside

\* With the lists of the update; a file that is gone by now is an error.
Download ==
  /\ pc = "download" /\ pc' = "copy"
  /\ selection \subseteq archive
  /\ downloads' = selection
  /\ UNCHANGED <<lists, selection, repo, iso>> /\ Outside

\* copySelectedPackages, file by file.
CopySelectedPackage ==
  /\ pc = "copy"
  /\ \E d \in (selection \cap downloads) \ repo.pool :
       repo' = [repo EXCEPT !.pool = @ \cup {d}]
  /\ pc' = (IF repo'.pool = selection THEN "index" ELSE pc)
  /\ UNCHANGED <<lists, selection, downloads, iso>> /\ Outside

\* Mutant: all records go to the index of the ISO's architecture.
IndexOfISO(a) == IF a = "amd64" THEN selection ELSE {}

IndexOf(a) == {d \in selection : Arch[d] = a}

\* selectedPackageIndexRecords finds a record of each package, and each goes
\* to the index of its architecture; a package of another one is an error.
WriteTrimmedRepositoryMetadata ==
  /\ pc = "index" /\ pc' = "validate"
  /\ selection \subseteq lists
  /\ \A d \in selection : Arch[d] \in Architectures
  /\ repo' = [repo EXCEPT !.index = [a \in Architectures |-> IndexOf(a)],
                          !.release = TRUE]
  /\ UNCHANGED <<lists, selection, downloads, iso>> /\ Outside

\* ValidateRepository and ValidateEmbeddedRepository ask for the same files.
Complete(r) == r.release /\ selection \subseteq r.pool

ValidateRepository ==
  /\ pc = "validate" /\ Complete(repo) /\ pc' = "remaster"
  /\ UNCHANGED builder /\ Outside

\* xorriso maps the directory; a file may be missing from what it wrote.
Remaster ==
  /\ pc = "remaster" /\ pc' = "embedded?"
  /\ \E pool \in SUBSET repo.pool, release \in BOOLEAN :
       iso' = [pool |-> pool, index |-> repo.index, release |-> release]
  /\ UNCHANGED <<lists, selection, downloads, repo>> /\ Outside

ValidateEmbeddedRepository ==
  /\ pc = "embedded?" /\ Complete(iso) /\ pc' = "embedded"
  /\ UNCHANGED builder /\ Outside

-----------------------------------------------------------------------------
(* The script, run as a late-command of the guest's installer.             *)

AtGuest == UNCHANGED <<wanted, archive, pc, builder>>

\* The late-command runs the script in the guest that boots the ISO.
StartScript ==
  /\ pc = "embedded" /\ script = "off"
  /\ script' = "check"
  /\ UNCHANGED <<target, status, signals>> /\ AtGuest

\* The trap's function.
Cleanup == copied' = NoRepo /\ sources' = FALSE /\ dirs' = FALSE

\* Mutant: the trap is set for the signals only.
TrapIgnored == UNCHANGED <<copied, sources, dirs>>

\* The trap of EXIT.
OnExit == Cleanup

Exit(code) ==
  /\ script' = "exited" /\ status' = code
  /\ OnExit /\ UNCHANGED signals

\* set -e: a command that fails ends the script.  A copy may be half done.
CommandFails ==
  /\ script \in ScriptSteps
  /\ Exit(1)
  /\ UNCHANGED <<known, installed>> /\ AtGuest

\* HUP, INT or TERM: the trap's function runs, then the script goes on.
Signal ==
  /\ script \in ScriptSteps /\ signals < MaxSignals
  /\ signals' = signals + 1
  /\ Cleanup
  /\ UNCHANGED <<script, status, known, installed>> /\ AtGuest

Step(from, next) ==
  /\ script = from /\ script' = next
  /\ UNCHANGED <<status, signals, installed>> /\ AtGuest

CheckArguments == Step("check", "reset") /\ UNCHANGED <<copied, sources, dirs, known>>

MakeDirectories ==
  /\ Step("reset", "cp")
  /\ copied' = NoRepo /\ dirs' = TRUE
  /\ UNCHANGED <<sources, known>>

\* After a signal the directory's parent is gone as well, and cp fails.
CopyRepository ==
  /\ Step("cp", "debs")
  /\ dirs
  /\ copied' = iso
  /\ UNCHANGED <<sources, dirs, known>>

FindDebs ==
  /\ Step("debs", "indexes")
  /\ copied.pool # {}
  /\ UNCHANGED <<copied, sources, dirs, known>>

RequireIndexes ==
  /\ Step("indexes", "sources")
  /\ copied.release
  /\ UNCHANGED <<copied, sources, dirs, known>>

WriteSources ==
  /\ Step("sources", "update")
  /\ sources' = TRUE
  /\ UNCHANGED <<copied, dirs, known>>

\* Without the source there is nothing to update, and no error.
UpdateTarget ==
  /\ Step("update", "install")
  /\ sources => copied.release
  /\ known' = (IF sources THEN Records(copied) ELSE known)
  /\ UNCHANGED <<copied, sources, dirs>>

Missing == Closure(wanted) \ installed
Found == IF sources THEN known \cap copied.pool ELSE {}

\* A package that is installed needs no source.
Installable == wanted \subseteq installed \/ Missing \subseteq Found

Install ==
  /\ script = "install" /\ Installable
  /\ installed' = installed \cup (Missing \cap Found)
  /\ Exit(0)
  /\ UNCHANGED known /\ AtGuest

Init ==
  /\ wanted \in (SUBSET Debs) \ {{}} /\ archive \in SUBSET Debs
  /\ pc = "update" /\ lists = {} /\ selection = {} /\ downloads = {}
  /\ repo = NoRepo /\ iso = NoRepo
  /\ script = "off" /\ copied = NoRepo /\ sources = FALSE /\ dirs = FALSE
  /\ known = {} /\ installed \in SUBSET Debs
  /\ \A d \in installed : Depends[d] \subseteq installed
  /\ status = 255 /\ signals = 0

Builder == AptUpdate \/ PrintURIs \/ Download \/ CopySelectedPackage
           \/ WriteTrimmedRepositoryMetadata \/ ValidateRepository \/ Remaster
           \/ ValidateEmbeddedRepository \/ BuildFails

Script == StartScript \/ CheckArguments \/ MakeDirectories \/ CopyRepository
          \/ FindDebs \/ RequireIndexes \/ WriteSources \/ UpdateTarget
          \/ Install \/ CommandFails

Next == ArchiveChanges \/ Builder \/ Script \/ Signal

Spec == Init /\ [][Next]_vars

-----------------------------------------------------------------------------
(* Properties.                                                             *)

\* Every variable keeps the type the code gives it, and an index has records of
\* its own architecture only.
TypeOK ==
  /\ wanted \in SUBSET Debs /\ archive \in SUBSET Debs
  /\ pc \in BuildSteps \cup {"embedded", "failed"}
  /\ lists \in SUBSET Debs /\ selection \in SUBSET Debs
  /\ downloads \in SUBSET Debs
  /\ repo \in Repos /\ iso \in Repos /\ copied \in Repos
  /\ script \in ScriptSteps \cup {"off", "exited"}
  /\ sources \in BOOLEAN /\ dirs \in BOOLEAN
  /\ known \in SUBSET Debs /\ installed \in SUBSET Debs
  /\ status \in {0, 1, 255} /\ signals \in 0 .. MaxSignals

\* README: the ISO holds only the closure of the packages, and they can be
\* installed without internet access.  What a build embeds is exactly what
\* they need, each with a record in the index of its architecture, however the
\* archive changed meanwhile; and what the target lacks of it is all found
\* when the script comes to its apt-get install without a signal before.
OfflineInstallFindsAll ==
  /\ pc = "embedded" =>
       /\ iso.pool = Closure(wanted)
       /\ \A d \in iso.pool : d \in iso.index[Arch[d]]
  /\ script = "install" /\ signals = 0 => Missing \subseteq Found

\* README: the temporary APT files in the target are removed before the
\* installer finishes.  However the script ends, they are gone; and though a
\* signal removes them under a script that goes on, it never takes that for
\* an installation: status 0 means that every package is there.
ScriptEndsHonestly ==
  script = "exited" =>
    /\ copied = NoRepo /\ ~sources /\ ~dirs
    /\ status = 0 => Closure(wanted) \subseteq installed
=============================================================================
