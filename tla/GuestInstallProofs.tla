------------------------- MODULE GuestInstallProofs -------------------------
(***************************************************************************)
(* TLAPS proofs about OfflinePackages and the installation around it,      *)
(* GuestInstall: for every archive, every set of packages with any         *)
(* dependencies and any number of signals, what the builder embeds is      *)
(* complete and indexed, and the script finds all of it and ends honestly; *)
(* for every boot menu and every user-data, nobody is asked, and a guest   *)
(* that powered off is a template, and portable if QEMU built it.  Every   *)
(* step of an installation is a step of OfflinePackages or none.           *)
(*                                                                         *)
(* BuildInv follows the selection from the resolver to the ISO, ScriptInv  *)
(* what the script can rely on until a signal takes it away, MenuInv the   *)
(* kernel line from the remastered ISO to the installer, and LateInv what  *)
(* the late-commands that ran have made of the image.                      *)
(***************************************************************************)
EXTENDS GuestInstall, SequenceTheorems, WellFoundedInduction, TLAPS

\* The builder's steps behind one of its results.
Resolved == {"download", "copy", "index", "validate", "remaster", "embedded?", "embedded"}
Copied == Resolved \ {"download", "copy"}
Indexed == Copied \ {"index"}
Written == {"embedded?", "embedded"}

\* The selection is what the packages need, and it is all that the repository,
\* its indexes and the ISO hold of.
BuildInv ==
  /\ pc \in {"update", "uris", "download"} => repo = NoRepo
  /\ pc \in Resolved => selection = Closure(wanted)
  /\ repo.pool \subseteq selection
  /\ pc \in Copied => repo.pool = selection
  /\ pc \in Indexed => /\ \A d \in selection : Arch[d] \in Architectures
                       /\ repo.index = [a \in Architectures |-> IndexOf(a)]
  /\ pc \in Written => iso.pool \subseteq repo.pool /\ iso.index = repo.index
  /\ pc = "embedded" => Complete(iso)

\* What a step of the script leaves is there until a signal; what the target
\* has installed has its dependencies.
ScriptInv ==
  /\ script # "off" => pc = "embedded"
  /\ signals = 0 =>
       /\ script = "cp" => dirs
       /\ script \in {"debs", "indexes", "sources", "update", "install"} => copied = iso
       /\ script \in {"update", "install"} => sources
       /\ script = "install" => known = Records(iso)
  /\ \A d \in installed : Depends[d] \subseteq installed
  /\ status # 255 => script = "exited"
  /\ script = "exited" => copied = NoRepo /\ ~sources /\ ~dirs
  /\ status = 0 => Closure(wanted) \subseteq installed

PackagesInv == TypeOK /\ BuildInv /\ ScriptInv

\* The late-commands that may be left.
Left == {<<"packages", "user", "prepare", "grub">>, <<"packages", "prepare", "grub">>,
         <<"user", "prepare", "grub">>, <<"prepare", "grub">>, <<"grub">>, <<>>}

ImageFields == {"hostKeys", "machineID", "cloudInitOff", "makesHostKeys", "fallback",
                "cmdline", "grubCfg"}

\* What the guest will boot once an ISO is written, and how it booted.
MenuInv ==
  /\ backend \in {"none", "refused"} => pc \notin Written
  /\ pc \in Written /\ guest = "off" =>
       \/ backend = "qemu" /\ menu = QemuAppend
       \/ /\ backend = "remote" /\ menuRead
          /\ ~menu.waits /\ BuilderArgs \subseteq ToSet(menu.args)
          /\ SerialIsLast(menu.args)
       \/ backend = "remote" /\ ~menuRead /\ menu.args \in BootLines
  /\ guest = "asking" => ~menuRead
  /\ guest = "installing" => SerialIsLast(menu.args)

\* What the late-commands that ran have made of the image.
LateInv ==
  /\ backend \in {"none", "refused"} => pc # "embedded"
  /\ backend \in {"none", "refused", "qemu", "remote"}
  /\ guest # "off" => pc = "embedded"
  /\ guest = "off after installation" => late = <<>>
  /\ DOMAIN image = ImageFields
  /\ guest \in {"late-commands", "off after installation"} =>
       /\ late \in Left
       /\ late \notin {<<"packages", "user", "prepare", "grub">>,
                       <<"packages", "prepare", "grub">>} => status = 0
       /\ loader # "unread" => late # <<"packages", "prepare", "grub">>
       /\ late \in {<<"prepare", "grub">>, <<"grub">>, <<>>} /\ loader = "installed" =>
            image.fallback
       /\ late \in {<<"grub">>, <<>>} =>
            /\ image.makesHostKeys /\ ~image.hostKeys
            /\ ~image.machineID /\ ~image.cloudInitOff
       /\ late = <<>> => /\ image.grubCfg = image.cmdline
                         /\ image.grubCfg \cap BuilderArgs = {}

\* What the check of the user-data has said of them.
CheckInv ==
  /\ backend = "qemu" /\ firmware = "uefi" => esp /\ loader \in {"named", "installed"}
  /\ backend = "refused" => ~esp \/ loader = "unnamed"

InstallInv == PackagesInv /\ LateInv /\ MenuInv /\ CheckInv

-----------------------------------------------------------------------------
(* Dependencies and repositories.                                          *)

\* Closure returns the packages with all that they need, and nothing that a
\* set with its own dependencies could do without.
LEMMA ClosureIs ==
  ASSUME NEW set \in SUBSET Debs
  PROVE  /\ set \subseteq Closure(set) /\ Closure(set) \subseteq Debs
         /\ \A d \in Closure(set) : Depends[d] \subseteq Closure(set)
         /\ \A S \in SUBSET Debs :
              set \subseteq S /\ (\A d \in S : Depends[d] \subseteq S) =>
                Closure(set) \subseteq S
  BY OfflinePackagesAssumption DEF Closure

\* No repository is a repository.
LEMMA NoRepoIs == NoRepo \in Repos /\ NoRepo.pool = {}
<1>1. NoIndex \in [Architectures -> SUBSET Debs]
  BY DEF NoIndex
<1>2. \A a \in Architectures : NoIndex[a] = {}
  BY DEF NoIndex
<1> QED
  BY <1>1, <1>2 DEF NoRepo, Repos

\* The trimmed indexes have the records of their architecture.
LEMMA IndexesAre ==
  ASSUME selection \in SUBSET Debs
  PROVE  /\ [a \in Architectures |-> IndexOf(a)] \in [Architectures -> SUBSET Debs]
         /\ \A a \in Architectures : IndexOf(a) \subseteq {d \in Debs : Arch[d] = a}
  BY DEF IndexOf

-----------------------------------------------------------------------------
(* The builder.                                                            *)

\* The steps of the builder and of the archive keep the types.
LEMMA BuilderTypes ==
  ASSUME TypeOK, Builder \/ ArchiveChanges
  PROVE  TypeOK'
<1>1. CASE ArchiveChanges
  <2>1. archive' \in SUBSET Debs
    BY <1>1 DEF ArchiveChanges, TypeOK
  <2> QED
    BY <1>1, <2>1 DEF ArchiveChanges, TypeOK, builder, target
<1>2. CASE AptUpdate
  BY <1>2 DEF AptUpdate, Outside, target, TypeOK, BuildSteps
<1>3. CASE PrintURIs
  <2>1. Selected \in SUBSET Debs
    BY ClosureIs DEF Selected, TypeOK
  <2> QED
    BY <1>3, <2>1 DEF PrintURIs, Outside, target, TypeOK, BuildSteps
<1>4. CASE Download
  BY <1>4 DEF Download, Outside, target, TypeOK, BuildSteps
<1>5. CASE CopySelectedPackage
  <2>1. PICK d \in (selection \cap downloads) \ repo.pool :
          repo' = [repo EXCEPT !.pool = @ \cup {d}]
    BY <1>5 DEF CopySelectedPackage
  <2>2. repo' \in Repos
    BY <2>1 DEF TypeOK, Repos
  <2>3. pc' \in BuildSteps
    BY <1>5 DEF CopySelectedPackage, BuildSteps
  <2> QED
    BY <1>5, <2>2, <2>3 DEF CopySelectedPackage, Outside, target, TypeOK
<1>6. CASE WriteTrimmedRepositoryMetadata
  <2>1. repo' = [repo EXCEPT !.index = [a \in Architectures |-> IndexOf(a)], !.release = TRUE]
    BY <1>6 DEF WriteTrimmedRepositoryMetadata
  <2>2. repo' \in Repos
    BY <2>1, IndexesAre DEF TypeOK, Repos
  <2>3. pc' \in BuildSteps
    BY <1>6 DEF WriteTrimmedRepositoryMetadata, BuildSteps
  <2> QED
    BY <1>6, <2>2, <2>3 DEF WriteTrimmedRepositoryMetadata, Outside, target, TypeOK
<1>7. CASE ValidateRepository \/ ValidateEmbeddedRepository \/ BuildFails
  BY <1>7 DEF ValidateRepository, ValidateEmbeddedRepository, BuildFails, Outside, target,
              builder, TypeOK, BuildSteps
<1>8. CASE Remaster
  <2>1. PICK pool \in SUBSET repo.pool, release \in BOOLEAN :
          iso' = [pool |-> pool, index |-> repo.index, release |-> release]
    BY <1>8 DEF Remaster
  <2>2. iso' \in Repos
    BY <2>1 DEF TypeOK, Repos
  <2>3. pc' \in BuildSteps
    BY <1>8 DEF Remaster, BuildSteps
  <2> QED
    BY <1>8, <2>2, <2>3 DEF Remaster, Outside, target, TypeOK
<1> QED
  BY <1>1, <1>2, <1>3, <1>4, <1>5, <1>6, <1>7, <1>8 DEF Builder

\* The builder's result stays complete on its way, whatever the archive does.
LEMMA BuilderStep ==
  ASSUME PackagesInv, Builder \/ ArchiveChanges
  PROVE  BuildInv'
<1> USE DEF PackagesInv
<1>0. /\ UNCHANGED wanted
      /\ Closure(wanted)' = Closure(wanted)
  BY DEF Builder, ArchiveChanges, AptUpdate, PrintURIs, Download, CopySelectedPackage,
         WriteTrimmedRepositoryMetadata, ValidateRepository, Remaster,
         ValidateEmbeddedRepository, BuildFails, Outside, Closure
<1> USE DEF Resolved, Copied, Indexed, Written, BuildSteps
<1>1. CASE ArchiveChanges \/ AptUpdate \/ Download
  <2>1. /\ UNCHANGED <<selection, repo, iso>>
        /\ pc' = pc \/ (pc = "update" /\ pc' = "uris") \/ (pc = "download" /\ pc' = "copy")
    BY <1>1 DEF ArchiveChanges, AptUpdate, Download, builder
  <2> QED
    BY <1>0, <2>1 DEF BuildInv, IndexOf, Complete
<1>2. CASE PrintURIs
  <2>1. /\ pc = "uris" /\ pc' = "download" /\ selection' = Closure(wanted)
        /\ UNCHANGED <<repo, iso>>
    BY <1>2 DEF PrintURIs, Selected
  <2> QED
    BY <1>0, <2>1, NoRepoIs DEF BuildInv
<1>3. CASE CopySelectedPackage
  <2>1. PICK d \in (selection \cap downloads) \ repo.pool :
          repo' = [repo EXCEPT !.pool = @ \cup {d}]
    BY <1>3 DEF CopySelectedPackage
  <2>2. repo'.pool = repo.pool \cup {d}
    BY <2>1 DEF TypeOK, Repos
  <2>3. /\ pc = "copy" /\ pc' = (IF repo'.pool = selection THEN "index" ELSE "copy")
        /\ selection' = selection
    BY <1>3 DEF CopySelectedPackage
  <2> QED
    BY <1>0, <2>2, <2>3 DEF BuildInv
<1>4. CASE WriteTrimmedRepositoryMetadata
  <2>1. /\ pc = "index" /\ pc' = "validate" /\ selection' = selection
        /\ \A d \in selection : Arch[d] \in Architectures
        /\ repo' = [repo EXCEPT !.index = [a \in Architectures |-> IndexOf(a)], !.release = TRUE]
    BY <1>4 DEF WriteTrimmedRepositoryMetadata
  <2>2. repo'.pool = repo.pool /\ repo'.index = [a \in Architectures |-> IndexOf(a)]
    BY <2>1 DEF TypeOK, Repos
  <2> QED
    BY <1>0, <2>1, <2>2 DEF BuildInv, IndexOf
<1>5. CASE ValidateRepository \/ ValidateEmbeddedRepository \/ BuildFails
  <2>1. /\ UNCHANGED <<selection, repo, iso>>
        /\ \/ pc = "validate" /\ pc' = "remaster"
           \/ pc = "embedded?" /\ pc' = "embedded" /\ Complete(iso)
           \/ pc' = "failed"
    BY <1>5 DEF ValidateRepository, ValidateEmbeddedRepository, BuildFails, builder
  <2> QED
    BY <1>0, <2>1 DEF BuildInv, IndexOf, Complete
<1>6. CASE Remaster
  <2>1. PICK pool \in SUBSET repo.pool, release \in BOOLEAN :
          iso' = [pool |-> pool, index |-> repo.index, release |-> release]
    BY <1>6 DEF Remaster
  <2>2. pc = "remaster" /\ pc' = "embedded?" /\ UNCHANGED <<selection, repo>>
    BY <1>6 DEF Remaster
  <2> QED
    BY <1>0, <2>1, <2>2 DEF BuildInv, IndexOf
<1> QED
  BY <1>1, <1>2, <1>3, <1>4, <1>5, <1>6 DEF Builder

-----------------------------------------------------------------------------
(* The script.                                                             *)

\* What is embedded is what the packages need, each with a record in the index
\* of its architecture.
LEMMA EmbeddedIsComplete ==
  ASSUME PackagesInv, pc = "embedded"
  PROVE  /\ iso.pool = Closure(wanted)
         /\ \A d \in iso.pool : Arch[d] \in Architectures /\ d \in iso.index[Arch[d]]
<1> USE DEF PackagesInv, Resolved, Copied, Indexed, Written
<1>1. /\ iso.pool = selection /\ selection = Closure(wanted)
      /\ \A d \in selection : Arch[d] \in Architectures
      /\ iso.index = [a \in Architectures |-> IndexOf(a)]
  BY DEF BuildInv, Complete
<1>2. \A d \in selection : d \in IndexOf(Arch[d])
  BY DEF IndexOf
<1> QED
  BY <1>1, <1>2

\* So a script that has copied it and read its indexes finds all of it.
LEMMA AllFound ==
  ASSUME PackagesInv, script = "install", signals = 0
  PROVE  Missing \subseteq Found
<1>1. pc = "embedded" /\ copied = iso /\ sources /\ known = Records(iso)
  BY DEF PackagesInv, ScriptInv
<1>2. /\ iso.pool = Closure(wanted)
      /\ \A d \in iso.pool : Arch[d] \in Architectures /\ d \in iso.index[Arch[d]]
  BY <1>1, EmbeddedIsComplete
<1>3. iso.pool \subseteq Records(iso)
  BY <1>2 DEF Records
<1> QED
  BY <1>1, <1>2, <1>3 DEF Missing, Found

\* Nobody but the script changes what the script and the target have.
LEMMA BuilderKeepsScript ==
  ASSUME PackagesInv, Builder \/ ArchiveChanges
  PROVE  ScriptInv'
<1>1. /\ UNCHANGED <<wanted, script, copied, sources, dirs, known, installed, status, signals>>
      /\ pc # "embedded"
  BY DEF Builder, ArchiveChanges, AptUpdate, PrintURIs, Download, CopySelectedPackage,
         WriteTrimmedRepositoryMetadata, ValidateRepository, Remaster,
         ValidateEmbeddedRepository, BuildFails, Outside, target, BuildSteps
<1>2. Closure(wanted)' = Closure(wanted)
  BY <1>1 DEF Closure
<1>3. script = "off"
  BY <1>1 DEF PackagesInv, ScriptInv
<1> QED
  BY <1>1, <1>2, <1>3 DEF PackagesInv, ScriptInv

\* The steps of the script, and a signal, keep the types.
LEMMA ScriptTypes ==
  ASSUME TypeOK, Script \/ Signal
  PROVE  TypeOK'
<1> USE DEF AtGuest, builder
<1>1. CASE StartScript
  BY <1>1 DEF StartScript, target, TypeOK, ScriptSteps
<1>2. CASE CommandFails
  BY <1>2, NoRepoIs DEF CommandFails, Exit, OnExit, Cleanup, TypeOK
<1>3. CASE Signal
  <2>1. signals' \in 0 .. MaxSignals
    BY <1>3, OfflinePackagesAssumption DEF Signal, TypeOK
  <2> QED
    BY <1>3, <2>1, NoRepoIs DEF Signal, Cleanup, TypeOK
<1>4. CASE Install
  <2>1. installed' \in SUBSET Debs
    <3>1. Missing \subseteq Debs
      BY ClosureIs DEF Missing, TypeOK
    <3> QED
      BY <1>4, <3>1 DEF Install, TypeOK
  <2> QED
    BY <1>4, <2>1, NoRepoIs DEF Install, Exit, OnExit, Cleanup, TypeOK
<1>5. CASE UpdateTarget
  <2>1. known' \in SUBSET Debs
    <3>1. Records(copied) \subseteq Debs
      BY DEF Records, TypeOK, Repos
    <3> QED
      BY <1>5, <3>1 DEF UpdateTarget, TypeOK
  <2> QED
    BY <1>5, <2>1 DEF UpdateTarget, Step, TypeOK, ScriptSteps
<1>6. CASE CheckArguments \/ FindDebs \/ RequireIndexes \/ WriteSources
  <2>1. /\ UNCHANGED <<wanted, archive, pc, lists, selection, downloads, repo, iso, copied, dirs,
                       known, installed, status, signals>>
        /\ script' \in ScriptSteps /\ sources' \in {sources, TRUE}
    BY <1>6 DEF CheckArguments, FindDebs, RequireIndexes, WriteSources, Step, ScriptSteps
  <2> QED
    BY <2>1 DEF TypeOK
<1>7. CASE MakeDirectories \/ CopyRepository
  <2>1. /\ UNCHANGED <<wanted, archive, pc, lists, selection, downloads, repo, iso, sources,
                       known, installed, status, signals>>
        /\ script' \in ScriptSteps /\ dirs' \in {dirs, TRUE} /\ copied' \in {NoRepo, iso}
    BY <1>7 DEF MakeDirectories, CopyRepository, Step, ScriptSteps
  <2>2. copied' \in Repos /\ dirs' \in BOOLEAN
    BY <2>1, NoRepoIs DEF TypeOK
  <2> QED
    BY <2>1, <2>2 DEF TypeOK
<1> QED
  BY <1>1, <1>2, <1>3, <1>4, <1>5, <1>6, <1>7 DEF Script

\* An installation that succeeds leaves the packages and all that they need.
LEMMA InstalledIsClosed ==
  ASSUME PackagesInv, Install
  PROVE  /\ \A d \in installed' : Depends[d] \subseteq installed'
         /\ Closure(wanted) \subseteq installed'
<1>1. /\ installed' = installed \cup (Missing \cap Found) /\ Installable
      /\ wanted \in SUBSET Debs /\ installed \in SUBSET Debs
      /\ \A d \in installed : Depends[d] \subseteq installed
  BY DEF Install, PackagesInv, TypeOK, ScriptInv
<1>2. CASE wanted \subseteq installed
  <2>1. Closure(wanted) \subseteq installed
    BY <1>1, <1>2, ClosureIs
  <2>2. installed' = installed
    BY <1>1, <2>1 DEF Missing
  <2> QED
    BY <1>1, <2>1, <2>2
<1>3. CASE Missing \subseteq Found
  <2>1. installed' = installed \cup Closure(wanted)
    BY <1>1, <1>3 DEF Missing
  <2> QED
    BY <1>1, <2>1, ClosureIs
<1> QED
  BY <1>1, <1>2, <1>3 DEF Installable

\* What the script may rely on, and what it leaves.
LEMMA ScriptStep ==
  ASSUME PackagesInv, Script \/ Signal
  PROVE  BuildInv' /\ ScriptInv'
<1>1. UNCHANGED <<wanted, pc, selection, repo, iso>>
  BY DEF Script, StartScript, CheckArguments, MakeDirectories, CopyRepository, FindDebs,
         RequireIndexes, WriteSources, UpdateTarget, Install, CommandFails, Signal, Step,
         AtGuest, builder
<1>2. Closure(wanted)' = Closure(wanted)
  BY <1>1 DEF Closure
<1>3. BuildInv'
  BY <1>1, <1>2 DEF PackagesInv, BuildInv, IndexOf, Complete
<1> USE DEF PackagesInv
<1>4. CASE StartScript
  <2>1. /\ script' = "check" /\ pc = "embedded"
        /\ UNCHANGED <<copied, sources, dirs, known, installed, status, signals>>
    BY <1>4 DEF StartScript, target
  <2>2. script = "off"
    BY <1>4 DEF StartScript
  <2> QED
    BY <1>1, <1>2, <1>3, <2>1, <2>2 DEF ScriptInv
<1>5. CASE CommandFails
  <2>1. /\ script' = "exited" /\ status' = 1 /\ script # "off" /\ UNCHANGED <<installed, signals>>
        /\ copied' = NoRepo /\ sources' = FALSE /\ dirs' = FALSE
    BY <1>5 DEF CommandFails, Exit, OnExit, Cleanup, ScriptSteps
  <2> QED
    BY <1>1, <1>2, <1>3, <2>1 DEF ScriptInv
<1>6. CASE Signal
  <2>1. /\ UNCHANGED <<script, status, installed>> /\ signals' = signals + 1
        /\ copied' = NoRepo /\ sources' = FALSE /\ dirs' = FALSE
    BY <1>6 DEF Signal, Cleanup
  <2>2. signals' # 0
    BY <2>1, OfflinePackagesAssumption DEF TypeOK
  <2> QED
    BY <1>1, <1>2, <1>3, <2>1, <2>2 DEF ScriptInv
<1>7. CASE Install
  <2>1. /\ script' = "exited" /\ status' = 0 /\ script = "install" /\ UNCHANGED signals
        /\ copied' = NoRepo /\ sources' = FALSE /\ dirs' = FALSE
    BY <1>7 DEF Install, Exit, OnExit, Cleanup
  <2>2. /\ \A d \in installed' : Depends[d] \subseteq installed'
        /\ Closure(wanted) \subseteq installed'
    BY <1>7, InstalledIsClosed
  <2> QED
    BY <1>1, <1>2, <1>3, <2>1, <2>2 DEF ScriptInv
<1>8. CASE UpdateTarget
  <2>1. /\ script = "update" /\ script' = "install"
        /\ UNCHANGED <<status, signals, installed, copied, sources, dirs>>
        /\ sources => known' = Records(copied)
    BY <1>8 DEF UpdateTarget, Step
  <2>2. Records(iso)' = Records(iso)
    BY <1>1 DEF Records
  <2> QED
    BY <1>1, <1>2, <1>3, <2>1, <2>2 DEF ScriptInv
<1>9. CASE CheckArguments \/ FindDebs \/ RequireIndexes \/ WriteSources
  <2>1. /\ UNCHANGED <<status, signals, installed, copied, dirs>>
        /\ \/ script = "check" /\ script' = "reset" /\ UNCHANGED sources
           \/ script = "debs" /\ script' = "indexes" /\ UNCHANGED sources
           \/ script = "indexes" /\ script' = "sources" /\ UNCHANGED sources
           \/ script = "sources" /\ script' = "update" /\ sources' = TRUE
    BY <1>9 DEF CheckArguments, FindDebs, RequireIndexes, WriteSources, Step
  <2> QED
    BY <1>1, <1>2, <1>3, <2>1 DEF ScriptInv
<1>10. CASE MakeDirectories \/ CopyRepository
  <2>1. /\ UNCHANGED <<status, signals, installed>>
        /\ \/ script = "reset" /\ script' = "cp" /\ dirs' = TRUE
           \/ script = "cp" /\ script' = "debs" /\ copied' = iso
    BY <1>10 DEF MakeDirectories, CopyRepository, Step
  <2> QED
    BY <1>1, <1>2, <1>3, <2>1 DEF ScriptInv
<1> QED
  BY <1>3, <1>4, <1>5, <1>6, <1>7, <1>8, <1>9, <1>10 DEF Script

-----------------------------------------------------------------------------
(* What the packages are promised.                                         *)

\* The archive, the target and the request may be anything.
LEMMA PackagesInit == Init => PackagesInv
<1> SUFFICES ASSUME Init PROVE PackagesInv
  OBVIOUS
<1>1. TypeOK
  <2>1. 0 \in 0 .. MaxSignals
    BY OfflinePackagesAssumption
  <2>2. wanted \in SUBSET Debs /\ archive \in SUBSET Debs /\ installed \in SUBSET Debs
    BY DEF Init
  <2>3. repo \in Repos /\ iso \in Repos /\ copied \in Repos
    BY NoRepoIs DEF Init
  <2> QED
    BY <2>1, <2>2, <2>3 DEF Init, TypeOK, BuildSteps
<1>2. BuildInv
  BY NoRepoIs DEF Init, BuildInv, Resolved, Copied, Indexed, Written
<1>3. ScriptInv
  BY DEF Init, ScriptInv
<1> QED
  BY <1>1, <1>2, <1>3 DEF PackagesInv

\* Every step keeps the invariant.
LEMMA PackagesStep == PackagesInv /\ [Next]_vars => PackagesInv'
<1> SUFFICES ASSUME PackagesInv, [Next]_vars PROVE PackagesInv'
  OBVIOUS
<1>1. CASE Builder \/ ArchiveChanges
  BY <1>1, BuilderTypes, BuilderStep, BuilderKeepsScript DEF PackagesInv
<1>2. CASE Script \/ Signal
  BY <1>2, ScriptTypes, ScriptStep DEF PackagesInv
<1>3. CASE UNCHANGED vars
  <2>1. TypeOK'
    BY <1>3 DEF vars, builder, target, PackagesInv, TypeOK
  <2>2. UNCHANGED <<wanted, pc, selection, repo, iso, script, copied, sources, dirs, known,
                    installed, status, signals>>
    BY <1>3 DEF vars, builder, target
  <2>3. Closure(wanted)' = Closure(wanted) /\ Records(iso)' = Records(iso)
    BY <2>2 DEF Closure, Records
  <2>4. BuildInv'
    BY <2>2, <2>3 DEF PackagesInv, BuildInv, IndexOf, Complete
  <2>5. ScriptInv'
    BY <2>2, <2>3 DEF PackagesInv, ScriptInv
  <2> QED
    BY <2>1, <2>4, <2>5 DEF PackagesInv
<1> QED
  BY <1>1, <1>2, <1>3 DEF Next

\* The invariant implies what the properties say.
LEMMA PackagesPromise ==
  PackagesInv => TypeOK /\ OfflineInstallFindsAll /\ ScriptEndsHonestly
<1> SUFFICES ASSUME PackagesInv
             PROVE  TypeOK /\ OfflineInstallFindsAll /\ ScriptEndsHonestly
  OBVIOUS
<1>1. OfflineInstallFindsAll
  BY EmbeddedIsComplete, AllFound DEF OfflineInstallFindsAll
<1>2. ScriptEndsHonestly
  BY DEF PackagesInv, ScriptInv, ScriptEndsHonestly
<1> QED
  BY <1>1, <1>2 DEF PackagesInv

-----------------------------------------------------------------------------
(* The boot menu.                                                          *)

Less == {pair \in Nat \X Nat : pair[1] < pair[2]}

\* A set of numbers has a least one.
LEMMA LeastNumber ==
  ASSUME NEW T \in SUBSET Nat, T # {}
  PROVE  \E x \in T : \A y \in T : x <= y
<1>1. OpToRel(<, Nat) = Less
  BY Zenon DEF OpToRel, Less
<1>2. IsWellFoundedOn(Less, Nat)
  BY <1>1, NatLessThanWellFounded, Zenon
<1>3. \E x \in T : \A y \in T : ~(<<y, x>> \in Less)
  BY <1>2, WFMin
<1>4. PICK x \in T : \A y \in T : ~(<<y, x>> \in Less)
  BY <1>3
<1>5. \A y \in T : x <= y
  <2> SUFFICES ASSUME NEW y \in T, ~(x <= y)
               PROVE  FALSE
    OBVIOUS
  <2>1. x \in Nat /\ y \in Nat /\ y < x
    OBVIOUS
  <2>2. <<y, x>> \in Less
    BY <2>1 DEF Less
  <2> QED
    BY <2>2, <1>4
<1> QED
  BY <1>5

\* Strings all of them, the builder's too, which the provers cannot tell.
KernelArgs == STRING \cup BuilderArgs

\* A line has an end, so there is a first place to insert at.
LEMMA TripleDashIs ==
  ASSUME NEW l \in Seq(KernelArgs)
  PROVE  /\ Len(l) \in Nat /\ TripleDash(l) \in 1 .. Len(l) + 1
         /\ TripleDash(l) <= Len(l) => l[TripleDash(l)] = "---"
         /\ \A j \in 1 .. TripleDash(l) - 1 : l[j] # "---"
<1> DEFINE n == Len(l)
           T == {i \in 1 .. n + 1 : i <= n => l[i] = "---"}
<1>1. n \in Nat
  BY LenProperties
<1> HIDE DEF n
<1>3. n + 1 \in T /\ T \in SUBSET Nat
  BY <1>1
<1>4. PICK i \in T : \A j \in T : i <= j
  <2>1. T \in SUBSET Nat /\ T # {}
    BY <1>3
  <2> HIDE DEF T
  <2> QED
    BY <2>1, LeastNumber
<1>5. \A j \in 1 .. i - 1 : l[j] # "---"
  <2> SUFFICES ASSUME NEW j \in 1 .. i - 1, l[j] = "---"
               PROVE  FALSE
    OBVIOUS
  <2>1. j \in T /\ i \in Nat /\ j \in Nat /\ j < i
    BY <1>1
  <2> QED
    BY <1>4, <2>1
<1>6. i \in 1 .. n + 1 /\ (i <= n => l[i] = "---")
  OBVIOUS
<1> HIDE DEF T
<1>7. \E k \in 1 .. n + 1 : (k <= n => l[k] = "---") /\ \A j \in 1 .. k - 1 : l[j] # "---"
  BY <1>5, <1>6
<1> QED
  BY <1>1, <1>7 DEF TripleDash, n

\* No argument of this name behind the place to insert at.
InFront(l, x) == \A j \in DOMAIN l : l[j] = x => j < TripleDash(l)

\* What the insertion of an argument leaves of a line.
Inserted(l, a, r) ==
  /\ r \in Seq(KernelArgs) /\ ToSet(r) = ToSet(l) \cup {a}
  /\ TripleDash(r) = TripleDash(l) + 1
  /\ TripleDash(l) \in DOMAIN r /\ r[TripleDash(l)] = a
  /\ \A x : InFront(l, x) => InFront(r, x)

\* An argument is inserted in front of ---, and stays there.
LEMMA InsertIs ==
  ASSUME NEW l \in Seq(KernelArgs), NEW a \in KernelArgs, a # "---"
  PROVE  Inserted(l, a, InsertBeforeTripleDash(l, a))
<1> DEFINE n == Len(l)
           at == TripleDash(l)
           r == InsertBeforeTripleDash(l, a)
           head == SubSeq(l, 1, at - 1)
           tail == SubSeq(l, at, n)
<1>1. /\ n \in Nat /\ at \in 1 .. n + 1 /\ DOMAIN l = 1..n
      /\ at <= n => l[at] = "---"
      /\ \A j \in 1 .. at - 1 : l[j] # "---"
  BY TripleDashIs, LenProperties
<1>2. r = (head \o <<a>>) \o tail
  BY DEF InsertBeforeTripleDash, InsertAt
<1> HIDE DEF n, at, r
<1>3. /\ head \in Seq(KernelArgs) /\ Len(head) = at - 1
      /\ \A j \in 1 .. at - 1 : head[j] = l[j]
  <2>1. 1 \in 1 .. n + 1 /\ at - 1 \in 1 - 1 .. n /\ (at - 1) - 1 + 1 = at - 1
    BY <1>1
  <2> QED
    BY <1>1, <2>1, SubSeqProperties DEF n
<1>4. /\ tail \in Seq(KernelArgs) /\ Len(tail) = n - at + 1
      /\ \A j \in 1 .. n - at + 1 : tail[j] = l[at + j - 1]
  <2>1. at \in 1 .. n + 1 /\ n \in at - 1 .. n
    BY <1>1
  <2> QED
    BY <1>1, <2>1, SubSeqProperties DEF n
<1> HIDE DEF head, tail
<1>5. <<a>> \in Seq(KernelArgs) /\ Len(<<a>>) = 1 /\ <<a>>[1] = a
  OBVIOUS
<1>6. /\ head \o <<a>> \in Seq(KernelArgs) /\ Len(head \o <<a>>) = at
      /\ \A j \in 1 .. at - 1 : (head \o <<a>>)[j] = l[j]
      /\ (head \o <<a>>)[at] = a
  <2> DEFINE one == <<a>>
  <2> HIDE DEF one
  <2>1. one \in Seq(KernelArgs) /\ Len(one) = 1 /\ one[1] = a
    BY <1>5 DEF one
  <2>2. /\ head \o one \in Seq(KernelArgs) /\ Len(head \o one) = Len(head) + Len(one)
        /\ \A j \in 1 .. Len(head) + Len(one) :
             (head \o one)[j] = IF j <= Len(head) THEN head[j] ELSE one[j - Len(head)]
    BY <1>3, <2>1, ConcatProperties
  <2>3. (at - 1) + 1 = at /\ at - (at - 1) = 1
    BY <1>1
  <2> QED
    BY <1>1, <1>3, <2>1, <2>2, <2>3 DEF one
<1>7. /\ r \in Seq(KernelArgs) /\ Len(r) = n + 1 /\ r[at] = a
      /\ \A j \in 1 .. at - 1 : r[j] = l[j]
      /\ \A j \in at + 1 .. n + 1 : r[j] = l[j - 1]
  <2> DEFINE front == head \o <<a>>
  <2> HIDE DEF front
  <2>1. /\ front \in Seq(KernelArgs) /\ Len(front) = at /\ front[at] = a
        /\ \A j \in 1 .. at - 1 : front[j] = l[j]
    BY <1>6 DEF front
  <2>2. /\ r \in Seq(KernelArgs) /\ Len(r) = Len(front) + Len(tail)
        /\ \A j \in 1 .. Len(front) + Len(tail) :
             r[j] = IF j <= Len(front) THEN front[j] ELSE tail[j - Len(front)]
    <3>1. r = front \o tail
      BY <1>2 DEF front
    <3>2. /\ front \o tail \in Seq(KernelArgs) /\ Len(front \o tail) = Len(front) + Len(tail)
          /\ \A j \in 1 .. Len(front) + Len(tail) :
               (front \o tail)[j] = IF j <= Len(front) THEN front[j] ELSE tail[j - Len(front)]
      BY <1>4, <2>1, ConcatProperties
    <3> QED
      BY <3>1, <3>2
  <2>3. Len(r) = n + 1
    BY <1>1, <1>4, <2>1, <2>2
  <2>4. \A j \in at + 1 .. n + 1 : j - at \in 1 .. n - at + 1 /\ at + (j - at) - 1 = j - 1
                                   /\ ~(j <= at) /\ j \in 1 .. n + 1
    BY <1>1
  <2>5. \A j \in at + 1 .. n + 1 : r[j] = l[j - 1]
    BY <1>4, <2>1, <2>2, <2>3, <2>4
  <2>6. \A j \in 1..at : j \in 1 .. n + 1 /\ j <= at
    BY <1>1
  <2>7. \A j \in 1..at : r[j] = front[j]
    BY <2>1, <2>2, <2>3, <2>6
  <2>8. at \in 1..at /\ \A j \in 1 .. at - 1 : j \in 1..at
    BY <1>1
  <2> QED
    BY <2>1, <2>2, <2>3, <2>5, <2>7, <2>8
<1>8. DOMAIN r = 1 .. n + 1
  BY <1>7, LenProperties
<1>9. TripleDash(r) = at + 1
  <2> DEFINE k == TripleDash(r)
  <2>1. /\ k \in 1 .. n + 2 /\ (k <= n + 1 => r[k] = "---")
        /\ \A j \in 1 .. k - 1 : r[j] # "---"
    <3>1. Len(r) + 1 = n + 2
      BY <1>1, <1>7
    <3> QED
      BY <1>7, <3>1, TripleDashIs
  <2> HIDE DEF k
  <2>2. \A j \in 1..at : r[j] # "---"
    <3>1. \A j \in 1..at : j \in 1 .. at - 1 \/ j = at
      BY <1>1
    <3> QED
      BY <1>1, <1>7, <3>1
  <2>3. k >= at + 1
    <3>1. k <= at => k \in 1..at /\ k <= n + 1
      BY <1>1, <2>1
    <3>2. ~(k <= at)
      BY <2>1, <2>2, <3>1
    <3> QED
      BY <1>1, <2>1, <3>2
  <2>4. at <= n => r[at + 1] = "---"
    <3>1. at <= n => at + 1 \in at + 1 .. n + 1 /\ (at + 1) - 1 = at
      BY <1>1
    <3> QED
      BY <1>1, <1>7, <3>1
  <2>5. ~(k > at + 1)
    <3> SUFFICES ASSUME k > at + 1
                 PROVE  FALSE
      OBVIOUS
    <3>1. at + 1 \in 1 .. k - 1 /\ at <= n
      BY <1>1, <2>1
    <3> QED
      BY <2>1, <2>4, <3>1
  <2>6. k = at + 1
    BY <1>1, <2>1, <2>3, <2>5
  <2> QED
    BY <2>6 DEF k
<1>10. ToSet(r) = ToSet(l) \cup {a}
  <2>1. ASSUME NEW j \in 1 .. n + 1
        PROVE  r[j] \in ToSet(l) \cup {a}
    <3>1. j \in 1 .. at - 1 \/ j = at \/ (j \in at + 1 .. n + 1 /\ j - 1 \in 1..n)
      BY <1>1
    <3>2. \A k \in 1 .. at - 1 : k \in 1..n
      BY <1>1
    <3> QED
      BY <1>1, <1>7, <3>1, <3>2 DEF ToSet
  <2>2. ASSUME NEW j \in 1..n
        PROVE  l[j] \in ToSet(r)
    <3>1. j \in 1 .. at - 1 \/ (j + 1 \in at + 1 .. n + 1 /\ (j + 1) - 1 = j)
      BY <1>1
    <3>2. j \in 1 .. n + 1 /\ j + 1 \in 1 .. n + 1
      BY <1>1
    <3> QED
      BY <1>7, <1>8, <3>1, <3>2 DEF ToSet
  <2>3. at \in 1 .. n + 1
    BY <1>1
  <2>4. a \in ToSet(r)
    BY <1>7, <1>8, <2>3 DEF ToSet
  <2> QED
    BY <1>1, <1>8, <2>1, <2>2, <2>4 DEF ToSet
<1>11. ASSUME NEW x, InFront(l, x)
       PROVE  InFront(r, x)
  <2> SUFFICES ASSUME NEW j \in 1 .. n + 1, r[j] = x
               PROVE  j < at + 1
    BY <1>8, <1>9 DEF InFront
  <2> SUFFICES ASSUME j \in at + 1 .. n + 1
               PROVE  FALSE
    BY <1>1
  <2>1. j - 1 \in 1..n /\ l[j - 1] = x
    BY <1>1, <1>7
  <2>2. j - 1 < at
    BY <1>1, <1>11, <2>1 DEF InFront, at
  <2> QED
    BY <1>1, <2>2
<1>12. at \in DOMAIN r
  BY <1>1, <1>8
<1> QED
  BY <1>7, <1>9, <1>10, <1>11, <1>12 DEF Inserted, at, r

\* What a line that has an argument, its own or the builder's, still has.
Ensured(l, a, r) ==
  /\ r \in Seq(KernelArgs) /\ ToSet(r) = ToSet(l) \cup {a}
  /\ \A x : InFront(l, x) => InFront(r, x)
  /\ a \notin ToSet(l) => InFront(r, a)

\* One turn of the loop adds an argument that the line does not have, in front
\* of ---, and keeps the others where they are.
LEMMA EnsureIs ==
  ASSUME NEW l \in Seq(KernelArgs), NEW a \in KernelArgs, a # "---"
  PROVE  Ensured(l, a, Ensure(l, a))
<1>1. DOMAIN l = 1 .. Len(l)
  BY LenProperties
<1>2. CASE Contains(l, a)
  <2>1. a \in ToSet(l)
    BY <1>1, <1>2 DEF Contains, ToSet
  <2> QED
    BY <1>2, <2>1 DEF Ensure, Ensured
<1>3. CASE ~Contains(l, a)
  <2>1. a \notin ToSet(l)
    BY <1>1, <1>3 DEF Contains, ToSet
  <2>2. InFront(l, a)
    BY <2>1 DEF InFront, ToSet
  <2>3. Inserted(l, a, InsertBeforeTripleDash(l, a))
    BY InsertIs
  <2> QED
    BY <1>3, <2>2, <2>3 DEF Ensure, Ensured, Inserted
<1> QED
  BY <1>2, <1>3

\* A patched line starts the installer unattended, finds the seed, and has the
\* serial console behind the other one.
LEMMA PatchedLine ==
  ASSUME NEW l \in BootLines
  PROVE  /\ BuilderArgs \subseteq ToSet(EnsureAutoinstallArgs(l))
         /\ SerialIsLast(EnsureAutoinstallArgs(l))
<1>1. l \in Seq(KernelArgs)
  <2>1. l \in Seq(STRING)
    BY GuestInstallAssumption
  <2>2. Len(l) \in Nat /\ l \in [1 .. Len(l) -> STRING]
    BY <2>1, LenProperties
  <2>3. l \in [1 .. Len(l) -> KernelArgs]
    BY <2>2 DEF KernelArgs
  <2> QED
    BY <2>2, <2>3, SeqDef
<1>2. CASE BuilderArgs \subseteq ToSet(l) /\ SerialIsLast(l)
  <2>1. EnsureAutoinstallArgs(l) = l
    BY <1>2 DEF EnsureAutoinstallArgs
  <2> QED
    BY <1>2, <2>1
<1>3. CASE ToSet(l) \cap BuilderArgs \subseteq {"autoinstall"}
  <2> DEFINE l1 == Ensure(l, "autoinstall")
             l2 == Ensure(l1, "ds=nocloud")
             l3 == Ensure(l2, "console=tty0")
             l4 == InsertBeforeTripleDash(l3, "console=ttyS0")
  <2>0. /\ \A k \in Seq(KernelArgs), a \in BuilderArgs : Ensured(k, a, Ensure(k, a))
        /\ \A k \in Seq(KernelArgs), a \in BuilderArgs :
             Inserted(k, a, InsertBeforeTripleDash(k, a))
    <3>1. \A a \in BuilderArgs : a \in KernelArgs /\ a # "---"
      BY DEF BuilderArgs, KernelArgs
    <3> QED
      BY <3>1, EnsureIs, InsertIs
  <2>1. Ensured(l, "autoinstall", l1)
    BY <1>1, <2>0 DEF BuilderArgs
  <2> HIDE DEF l1
  <2>2. Ensured(l1, "ds=nocloud", l2)
    <3>1. l1 \in Seq(KernelArgs)
      BY <2>1 DEF Ensured
    <3> QED
      BY <3>1, <2>0 DEF BuilderArgs
  <2> HIDE DEF l2
  <2>3. Ensured(l2, "console=tty0", l3)
    <3>1. l2 \in Seq(KernelArgs)
      BY <2>2 DEF Ensured
    <3> QED
      BY <3>1, <2>0 DEF BuilderArgs
  <2> HIDE DEF l3
  <2>4. l3 \in Seq(KernelArgs) /\ "console=ttyS0" \notin ToSet(l3)
        /\ {"autoinstall", "ds=nocloud", "console=tty0"} \subseteq ToSet(l3)
        /\ InFront(l3, "console=tty0")
    BY <1>3, <2>1, <2>2, <2>3 DEF Ensured, BuilderArgs
  <2>5. Inserted(l3, "console=ttyS0", l4)
    BY <2>4, <2>0 DEF BuilderArgs
  <2>6. EnsureAutoinstallArgs(l) = l4
    <3>1. ~(BuilderArgs \ {"console=tty0"} \subseteq ToSet(l))
      BY <1>3 DEF BuilderArgs
    <3>2. ~Contains(l3, "console=ttyS0")
      <4>1. DOMAIN l3 = 1 .. Len(l3)
        BY <2>4, LenProperties
      <4> QED
        BY <2>4, <4>1 DEF Contains, ToSet
    <3>3. Ensure(l3, "console=ttyS0") = l4
      BY <3>2 DEF Ensure
    <3> QED
      BY <3>1, <3>3 DEF EnsureAutoinstallArgs, l1, l2, l3
  <2> HIDE DEF l4
  <2>7. BuilderArgs \subseteq ToSet(l4)
    BY <2>4, <2>5 DEF Inserted, BuilderArgs
  <2>8. SerialIsLast(l4)
    <3> DEFINE at == TripleDash(l3)
    <3>1. at \in DOMAIN l4 /\ l4[at] = "console=ttyS0" /\ TripleDash(l4) = at + 1
          /\ InFront(l4, "console=tty0") /\ l4 \in Seq(KernelArgs)
      BY <2>4, <2>5 DEF Inserted
    <3>2. DOMAIN l4 = 1 .. Len(l4) /\ Len(l4) \in Nat
      BY <3>1, LenProperties
    <3> HIDE DEF at
    <3>3. ASSUME NEW j \in DOMAIN l4, l4[j] = "console=tty0"
          PROVE  j < at
      <4>1. j < at + 1 /\ j # at
        BY <3>1, <3>3 DEF InFront
      <4> QED
        BY <3>1, <3>2, <4>1
    <3> QED
      BY <3>1, <3>3 DEF SerialIsLast
  <2> QED
    BY <2>6, <2>7, <2>8
<1> QED
  BY <1>2, <1>3, GuestInstallAssumption

\* What the QEMU backend gives the kernel does as much.
LEMMA QemuAppendIs ==
  /\ Contains(QemuAppend.args, "autoinstall") /\ SerialIsLast(QemuAppend.args)
  /\ ~QemuAppend.waits
<1> DEFINE line == <<"autoinstall", "console=ttyS0", "---">>
<1>1. /\ DOMAIN line = 1..3 /\ Len(line) = 3 /\ line[1] = "autoinstall"
      /\ line[2] = "console=ttyS0" /\ line[3] = "---"
  OBVIOUS
<1> HIDE DEF line
<1>2. Contains(line, "autoinstall")
  BY <1>1 DEF Contains
<1>3. SerialIsLast(line)
  BY <1>1 DEF SerialIsLast
<1> QED
  BY <1>2, <1>3 DEF QemuAppend, line

-----------------------------------------------------------------------------
(* The user-data of a portable UEFI image.                                 *)

\* What the pass over the storage actions accepts has an EFI System Partition:
\* a partition with its flag on a GPT disk, with the FAT volume that is mounted.
LEMMA AcceptedConfig ==
  ASSUME NEW config, StorageConfigHasUEFIESP(config)
  PROVE  MakesESP(config)
<1>1. PICK p \in Actions(config, "partition"), f \in Actions(config, "format") :
        /\ \E d \in Actions(config, "disk") : config[d].id = config[p].of
        /\ config[f].of = config[p].id
        /\ \E m \in Actions(config, "mount") : config[m].of \in {config[f].id, config[p].id}
  BY Zenon DEF StorageConfigHasUEFIESP
<1>2. PICK d \in Actions(config, "disk") : config[d].id = config[p].of
  BY <1>1
<1>3. PICK m \in Actions(config, "mount") : config[m].of \in {config[f].id, config[p].id}
  BY <1>1
<1>4. \A i \in {d, p, f, m} : config[i] \in {a \in ToSet(config) : a.esp}
  BY <1>1, <1>2, <1>3 DEF Actions, ToSet
<1>5. /\ config[d].type = "disk" /\ config[p].type = "partition"
      /\ config[f].type = "format" /\ config[m].type = "mount"
  BY <1>1, <1>2, <1>3 DEF Actions
<1> QED
  BY <1>1, <1>2, <1>3, <1>4, <1>5, Zenon DEF MakesESP

\* And what makes one is accepted, in whatever order its actions are listed:
\* no later action takes the place of a partition or of a volume's format.
LEMMA AcceptsConfig ==
  ASSUME NEW config \in StorageConfigs, MakesESP(config)
  PROVE  StorageConfigHasUEFIESP(config)
<1>1. PICK d, p, f, m \in {a \in ToSet(config) : a.esp} :
        /\ d.type = "disk"
        /\ p.type = "partition" /\ p.of = d.id
        /\ f.type = "format" /\ f.of = p.id
        /\ m.type = "mount" /\ m.of \in {f.id, p.id}
  BY Zenon DEF MakesESP
<1>2. PICK di \in DOMAIN config : config[di] = d
  BY <1>1 DEF ToSet
<1>3. PICK pi \in DOMAIN config : config[pi] = p
  BY <1>1 DEF ToSet
<1>4. PICK fi \in DOMAIN config : config[fi] = f
  BY <1>1 DEF ToSet
<1>5. PICK mi \in DOMAIN config : config[mi] = m
  BY <1>1 DEF ToSet
<1>6. /\ di \in Actions(config, "disk") /\ pi \in Actions(config, "partition")
      /\ fi \in Actions(config, "format") /\ mi \in Actions(config, "mount")
  BY <1>1, <1>2, <1>3, <1>4, <1>5 DEF Actions
<1>0. \A i, j \in DOMAIN config : i > j => i # j
  <2>1. config \in Seq([type : STRING, id : STRING, of : STRING, esp : BOOLEAN])
    BY StorageAssumption
  <2>2. DOMAIN config \subseteq Int
    BY <2>1
  <2> QED
    BY <2>2
<1>a. \A i, j \in DOMAIN config :
        i # j => /\ config[i].id # config[j].id
                 /\ config[i].type = "format" /\ config[j].type = "format" =>
                      config[i].of # config[j].of
  BY StorageAssumption, Zenon
<1>7. \A j \in Actions(config, "partition") : j > pi => config[j].id # config[pi].id
  <2> SUFFICES ASSUME NEW j \in Actions(config, "partition"), j > pi
               PROVE  config[j].id # config[pi].id
    OBVIOUS
  <2>1. j \in DOMAIN config /\ j # pi
    BY <1>0, <1>3 DEF Actions
  <2> QED
    BY <1>3, <1>a, <2>1
<1>8. \A j \in Actions(config, "format") : j > fi => config[j].of # config[fi].of
  <2> SUFFICES ASSUME NEW j \in Actions(config, "format"), j > fi
               PROVE  config[j].of # config[fi].of
    OBVIOUS
  <2>1. j \in DOMAIN config /\ j # fi /\ config[j].type = "format"
    BY <1>0, <1>4 DEF Actions
  <2>2. config[fi].type = "format"
    BY <1>1, <1>4
  <2> QED
    BY <1>4, <1>a, <2>1, <2>2
<1> QED
  BY <1>1, <1>2, <1>3, <1>4, <1>5, <1>6, <1>7, <1>8 DEF StorageConfigHasUEFIESP

\* So the check accepts a layout if and only if it has the partition.
LEMMA LayoutsAreJudged ==
  ASSUME NEW layout \in StorageLayouts
  PROVE  layout.valid <=> layout.esp
<1>1. CASE layout \in {[esp |-> TRUE, valid |-> TRUE]}
  BY <1>1
<1>2. CASE layout \in {[esp |-> MakesESP(config), valid |-> StorageConfigHasUEFIESP(config)] :
                         config \in StorageConfigs}
  <2>1. PICK config \in StorageConfigs :
          layout = [esp |-> MakesESP(config), valid |-> StorageConfigHasUEFIESP(config)]
    BY <1>2, Zenon
  <2>2. MakesESP(config) <=> StorageConfigHasUEFIESP(config)
    BY AcceptedConfig, AcceptsConfig, Zenon
  <2>3. layout.esp = MakesESP(config) /\ layout.valid = StorageConfigHasUEFIESP(config)
    BY <2>1
  <2> QED
    BY <2>2, <2>3, Zenon
<1> QED
  BY <1>1, <1>2, Zenon DEF StorageLayouts

-----------------------------------------------------------------------------
(* The installation around it.                                             *)

\* Every step of an installation is one of OfflinePackages, or none that it
\* sees: the installer does not touch the repository or the script's files.
LEMMA GuestStepIsStep == GuestNext => [Next]_vars
<1> SUFFICES ASSUME GuestNext PROVE [Next]_vars
  OBVIOUS
<1>1. CASE CheckPrerequisites
  BY <1>1 DEF CheckPrerequisites
<1>2. CASE BuildISO
  BY <1>2 DEF BuildISO, Next, Builder
<1>3. CASE RemasterISO
  BY <1>3 DEF RemasterISO, Next, Builder
<1>4. CASE BootGuest \/ InstallSystem \/ PowerOff
  BY <1>4 DEF BootGuest, InstallSystem, PowerOff
<1>5. CASE InstallOfflinePackages
  BY <1>5 DEF InstallOfflinePackages, Next
<1>6. CASE LateCommand /\ ~InstallOfflinePackages
  BY <1>6 DEF LateCommand, OfflinePackagesDone, UserCommand, UserCommandsDone,
              PrepareCloudInitTemplate, CleanupInstalledGRUB, CommandFailsInGuest, Done
<1> QED
  BY <1>1, <1>2, <1>3, <1>4, <1>5, <1>6 DEF GuestNext, LateCommand

\* The late-commands that TransformUserData makes of the user's.
LEMMA LateCommandsAre ==
  /\ TransformUserData(<<"user">>) = <<"packages", "user", "prepare", "grub">>
  /\ TransformUserData(<<>>) = <<"packages", "prepare", "grub">>
<1> DEFINE S == Seq({"packages", "user", "prepare", "grub"})
           support == <<"prepare", "grub">>
<1>1. \A s, t \in S : Len(s) = Len(t) /\ (\A i \in 1 .. Len(s) : s[i] = t[i]) => s = t
  OBVIOUS
<1>2. \A s, t \in S :
        /\ s \o t \in S /\ Len(s \o t) = Len(s) + Len(t)
        /\ \A i \in 1 .. Len(s) + Len(t) :
             (s \o t)[i] = IF i <= Len(s) THEN s[i] ELSE t[i - Len(s)]
  OBVIOUS
<1>3. /\ <<>> \in S /\ <<"packages">> \in S /\ <<"user">> \in S /\ support \in S
      /\ <<"packages", "user">> \in S /\ <<"packages", "prepare", "grub">> \in S
      /\ <<"packages", "user", "prepare", "grub">> \in S
  <2>1. <<>> \in S /\ <<"packages">> \in S /\ <<"user">> \in S
    OBVIOUS
  <2>2. support \in S
    OBVIOUS
  <2>3. <<"packages", "user">> \in S
    OBVIOUS
  <2>4. <<"packages", "prepare", "grub">> \in S
    OBVIOUS
  <2>5. <<"packages", "user", "prepare", "grub">> \in S
    OBVIOUS
  <2> QED
    BY <2>1, <2>2, <2>3, <2>4, <2>5
<1>4. <<"packages">> \o <<"user">> = <<"packages", "user">>
  <2> DEFINE s == <<"packages">> \o <<"user">>
  <2>1. s \in S /\ Len(s) = 2 /\ s[1] = "packages" /\ s[2] = "user"
    BY <1>2, <1>3
  <2> HIDE DEF s
  <2>2. s = <<"packages", "user">>
    BY <1>1, <1>3, <2>1
  <2> QED
    BY <2>2 DEF s
<1>5. <<"packages">> \o <<>> = <<"packages">>
  OBVIOUS
<1>6. <<"packages", "user">> \o support = <<"packages", "user", "prepare", "grub">>
  <2> DEFINE s == <<"packages", "user">> \o support
  <2>1. /\ s \in S /\ Len(s) = 4
        /\ s[1] = "packages" /\ s[2] = "user" /\ s[3] = "prepare" /\ s[4] = "grub"
    BY <1>2, <1>3
  <2> HIDE DEF s
  <2>2. s = <<"packages", "user", "prepare", "grub">>
    BY <1>1, <1>3, <2>1
  <2> QED
    BY <2>2 DEF s
<1>7. <<"packages">> \o support = <<"packages", "prepare", "grub">>
  <2> DEFINE s == <<"packages">> \o support
  <2>1. s \in S /\ Len(s) = 3 /\ s[1] = "packages" /\ s[2] = "prepare" /\ s[3] = "grub"
    BY <1>2, <1>3
  <2> HIDE DEF s
  <2>2. s = <<"packages", "prepare", "grub">>
    BY <1>1, <1>3, <2>1
  <2> QED
    BY <2>2 DEF s
<1> QED
  BY <1>4, <1>5, <1>6, <1>7
  DEF TransformUserData, AppendBuilderSupportLateCommands, PrependInstallLateCommands

\* What is left after each of them.
LEMMA LateTails ==
  /\ \A l \in Left : l # <<>> => Tail(l) \in Left
  /\ \A l \in Left : l # <<>> /\ Head(l) = "packages" =>
       Tail(l) \in {<<"user", "prepare", "grub">>, <<"prepare", "grub">>}
         /\ (Tail(l) = <<"prepare", "grub">> => l = <<"packages", "prepare", "grub">>)
  /\ \A l \in Left : l # <<>> /\ Head(l) = "user" => Tail(l) = <<"prepare", "grub">>
  /\ \A l \in Left : l # <<>> /\ Head(l) = "prepare" =>
       l = <<"prepare", "grub">> /\ Tail(l) = <<"grub">>
  /\ \A l \in Left : l # <<>> /\ Head(l) = "grub" => l = <<"grub">> /\ Tail(l) = <<>>
  BY DEF Left

\* The ones that are left tell each other apart.
LEMMA LeftAreDistinct ==
  /\ <<"packages", "user", "prepare", "grub">> # <<"packages", "prepare", "grub">>
  /\ \A l \in {<<"packages", "user", "prepare", "grub">>, <<"packages", "prepare", "grub">>,
               <<"user", "prepare", "grub">>} :
       l \notin {<<"prepare", "grub">>, <<"grub">>, <<>>}
  /\ <<"prepare", "grub">> \notin {<<"grub">>, <<>>} /\ <<"grub">> # <<>>
  OBVIOUS

\* The steps before the installed system exists.
LEMMA BeforeLateCommands ==
  ASSUME InstallInv,
         CheckPrerequisites \/ BuildISO \/ RemasterISO \/ BootGuest \/ InstallSystem
  PROVE  LateInv'
<1> USE DEF InstallInv
<1>1. CASE CheckPrerequisites
  <2>1. /\ backend = "none" /\ backend' \in {"refused", "qemu", "remote"}
        /\ UNCHANGED <<guest, late, image>> /\ pc' = pc /\ status' = status
    BY <1>1 DEF CheckPrerequisites, vars
  <2>2. guest = "off"
    BY <2>1 DEF LateInv
  <2> QED
    BY <2>1, <2>2 DEF LateInv
<1>2. CASE BuildISO \/ RemasterISO
  <2>1. backend \in {"qemu", "remote"} /\ pc # "embedded" /\ UNCHANGED <<request, guest, late, image>>
    BY <1>2 DEF BuildISO, RemasterISO, guestVars, LateInv, ArchiveChanges, AptUpdate, PrintURIs,
                Download, CopySelectedPackage, WriteTrimmedRepositoryMetadata,
                ValidateRepository, ValidateEmbeddedRepository, BuildFails, Remaster, BuildSteps
  <2>2. guest = "off"
    BY <2>1 DEF LateInv
  <2> QED
    BY <2>1, <2>2 DEF LateInv, request
<1>3. CASE BootGuest
  <2>1. /\ guest' \in {"installing", "asking"} /\ pc = "embedded"
        /\ UNCHANGED <<pc, backend, late, image>>
    BY <1>3 DEF BootGuest, vars, request
  <2> QED
    BY <2>1 DEF LateInv
<1>4. CASE InstallSystem
  <2>1. /\ guest = "installing" /\ guest' = "late-commands"
        /\ UNCHANGED <<pc, backend, loader, status>>
    BY <1>4 DEF InstallSystem, vars, request
  <2>2. \/ late' = <<"packages", "user", "prepare", "grub">>
        \/ late' = <<"packages", "prepare", "grub">> /\ loader = "unread"
    BY <1>4, LateCommandsAre DEF InstallSystem
  <2>3. DOMAIN image' = ImageFields
    BY <1>4 DEF InstallSystem, ImageFields
  <2> QED
    BY <2>1, <2>2, <2>3, LeftAreDistinct DEF LateInv, Left
<1> QED
  BY <1>1, <1>2, <1>3, <1>4

\* The late-commands, in the order that TransformUserData gave them.
LEMMA LateCommandStep ==
  ASSUME InstallInv, LateCommand
  PROVE  LateInv'
<1> USE DEF InstallInv
<1>1. pc = "embedded" /\ (guest = "late-commands" => late \in Left)
  BY DEF LateInv, LateCommand, CommandFailsInGuest, InstallOfflinePackages, OfflinePackagesDone,
         UserCommand, UserCommandsDone, PrepareCloudInitTemplate, CleanupInstalledGRUB, Runs
<1>2. CASE CommandFailsInGuest
  <2>1. guest' = "failed" /\ UNCHANGED <<pc, backend, image>>
    BY <1>2 DEF CommandFailsInGuest, vars, request
  <2> QED
    BY <1>1, <2>1 DEF LateInv
<1>3. CASE InstallOfflinePackages
  <2>1. /\ late # <<>> /\ Head(late) = "packages" /\ guest = "late-commands"
        /\ UNCHANGED <<guest, backend, loader, late, image>>
    BY <1>3 DEF InstallOfflinePackages, Runs, guestVars, request
  <2>2. pc' = pc
    BY <1>3 DEF InstallOfflinePackages, Script, StartScript, CheckArguments, MakeDirectories,
                CopyRepository, FindDebs, RequireIndexes, WriteSources, UpdateTarget, Install,
                CommandFails, Signal, Step, AtGuest
  <2>3. late \in {<<"packages", "user", "prepare", "grub">>, <<"packages", "prepare", "grub">>}
    BY <2>1 DEF LateInv, Left
  <2> QED
    BY <1>1, <2>1, <2>2, <2>3, LeftAreDistinct DEF LateInv
<1>4. CASE OfflinePackagesDone
  <2>1. /\ late # <<>> /\ Head(late) = "packages" /\ guest = "late-commands" /\ status = 0
        /\ late' = Tail(late) /\ UNCHANGED <<pc, status, guest, backend, loader, image>>
    BY <1>4 DEF OfflinePackagesDone, Runs, Done, vars, request
  <2>2. /\ late' \in {<<"user", "prepare", "grub">>, <<"prepare", "grub">>}
        /\ late' = <<"prepare", "grub">> => late = <<"packages", "prepare", "grub">>
    BY <1>1, <2>1, LateTails DEF LateInv
  <2>3. loader # "unread" => late' = <<"user", "prepare", "grub">>
    BY <2>1, <2>2 DEF LateInv
  <2>4. late' \in Left /\ late' \notin {<<"grub">>, <<>>}
    BY <2>2, LeftAreDistinct DEF Left
  <2>5. loader # "unread" => late' \notin {<<"packages", "prepare", "grub">>,
                                         <<"prepare", "grub">>}
    BY <2>3, LeftAreDistinct
  <2> HIDE DEF Left
  <2> QED
    BY <1>1, <2>1, <2>4, <2>5 DEF LateInv
<1>5. CASE UserCommand
  <2>1. /\ late # <<>> /\ Head(late) = "user" /\ guest = "late-commands"
        /\ UNCHANGED <<pc, status, guest, backend, loader, late>>
    BY <1>5 DEF UserCommand, Runs, vars, request
  <2>2. late = <<"user", "prepare", "grub">>
    BY <1>1, <2>1 DEF Left
  <2>3. DOMAIN image' = DOMAIN image
    BY <1>5, Zenon DEF UserCommand
  <2>4. late' = late /\ late \notin {<<"prepare", "grub">>, <<"grub">>, <<>>}
    BY <2>1, <2>2, LeftAreDistinct
  <2>5. loader # "unread" => late' # <<"packages", "prepare", "grub">>
    BY <2>1, <2>4 DEF LateInv
  <2> QED
    BY <1>1, <2>1, <2>3, <2>4, <2>5 DEF LateInv
<1>6. CASE UserCommandsDone
  <2>1. /\ late # <<>> /\ Head(late) = "user" /\ guest = "late-commands" /\ late' = Tail(late)
        /\ UNCHANGED <<pc, status, guest, backend, loader>>
    BY <1>6 DEF UserCommandsDone, Runs, Done, vars, request
  <2>2. late = <<"user", "prepare", "grub">> /\ late' = <<"prepare", "grub">>
    <3>1. late = <<"user", "prepare", "grub">>
      BY <1>1, <2>1 DEF Left
    <3> QED
      BY <1>1, <2>1, <3>1, LateTails
  <2>3. status = 0
    BY <2>1, <2>2 DEF LateInv
  <2>4. PICK fallback \in BOOLEAN : /\ loader # "unread" => (fallback <=> loader = "installed")
                                    /\ image' = [image EXCEPT !.fallback = fallback]
    BY <1>6, Zenon DEF UserCommandsDone
  <2>5. DOMAIN image' = ImageFields /\ image'.fallback = fallback
    BY <2>4 DEF LateInv, ImageFields
  <2>6. loader = "installed" => image'.fallback
    BY <2>4, <2>5
  <2> QED
    BY <1>1, <2>1, <2>2, <2>3, <2>5, <2>6, LeftAreDistinct DEF LateInv, Left
<1>7. CASE PrepareCloudInitTemplate
  <2>1. /\ late # <<>> /\ Head(late) = "prepare" /\ guest = "late-commands" /\ late' = Tail(late)
        /\ UNCHANGED <<pc, status, guest, backend, loader>>
    BY <1>7 DEF PrepareCloudInitTemplate, Runs, Done, vars, request
  <2>2. late = <<"prepare", "grub">> /\ late' = <<"grub">>
    BY <1>1, <2>1, LateTails
  <2>3. status = 0 /\ (loader = "installed" => image.fallback)
    BY <2>1, <2>2, LeftAreDistinct DEF LateInv
  <2>4. /\ DOMAIN image' = ImageFields /\ image'.fallback = image.fallback
        /\ image'.makesHostKeys /\ ~image'.hostKeys
        /\ ~image'.machineID /\ ~image'.cloudInitOff
    BY <1>7 DEF PrepareCloudInitTemplate, LateInv, ImageFields
  <2> QED
    BY <1>1, <2>1, <2>2, <2>3, <2>4, LeftAreDistinct DEF LateInv, Left
<1>8. CASE CleanupInstalledGRUB
  <2>1. /\ late # <<>> /\ Head(late) = "grub" /\ guest = "late-commands" /\ late' = Tail(late)
        /\ UNCHANGED <<pc, status, guest, backend, loader>>
    BY <1>8 DEF CleanupInstalledGRUB, Runs, Done, vars, request
  <2>2. late = <<"grub">> /\ late' = <<>>
    BY <1>1, <2>1, LateTails
  <2>3. /\ status = 0 /\ (loader = "installed" => image.fallback)
        /\ image.makesHostKeys /\ ~image.hostKeys
        /\ ~image.machineID /\ ~image.cloudInitOff
    BY <2>1, <2>2, LeftAreDistinct DEF LateInv
  <2>4. PICK clean : /\ image' = [image EXCEPT !.cmdline = clean, !.grubCfg = clean]
                     /\ clean = image.cmdline \ BuilderArgs
    BY <1>8, Zenon DEF CleanupInstalledGRUB
  <2>5. /\ DOMAIN image' = ImageFields /\ image'.fallback = image.fallback
        /\ image'.makesHostKeys = image.makesHostKeys /\ image'.hostKeys = image.hostKeys
        /\ image'.machineID = image.machineID /\ image'.cloudInitOff = image.cloudInitOff
        /\ image'.grubCfg = image'.cmdline /\ image'.grubCfg = clean
    BY <2>4 DEF LateInv, ImageFields
  <2>6. clean \cap BuilderArgs = {}
    BY <2>4
  <2> QED
    BY <1>1, <2>1, <2>2, <2>3, <2>5, <2>6, LeftAreDistinct DEF LateInv, Left
<1> QED
  BY <1>2, <1>3, <1>4, <1>5, <1>6, <1>7, <1>8 DEF LateCommand

\* What the guest boots was written for it: with a menu that could be read it
\* will not ask, and without one the menu is the ISO's own.
LEMMA MenuStep ==
  ASSUME InstallInv, GuestNext
  PROVE  MenuInv'
<1> USE DEF InstallInv, Written
<1>0. /\ backend \in {"none", "refused", "qemu", "remote"}
      /\ guest # "off" => pc = "embedded"
  BY DEF LateInv
<1>1. CASE CheckPrerequisites
  <2>1. backend = "none" /\ UNCHANGED <<pc, guest, menu, menuRead>>
    BY <1>1 DEF CheckPrerequisites, vars
  <2>2. pc \notin Written /\ guest = "off"
    BY <1>0, <2>1 DEF MenuInv
  <2> QED
    BY <2>1, <2>2 DEF MenuInv
<1>2. CASE BuildISO
  <2>1. /\ backend \notin {"none", "refused"} /\ UNCHANGED <<backend, guest, menu, menuRead>>
        /\ pc' \in Written => pc \in Written
    BY <1>2 DEF BuildISO, guestVars, request, ArchiveChanges, AptUpdate, PrintURIs, Download,
                CopySelectedPackage, WriteTrimmedRepositoryMetadata, ValidateRepository,
                ValidateEmbeddedRepository, BuildFails
  <2> QED
    BY <2>1 DEF MenuInv
<1>3. CASE RemasterISO
  <2>1. pc = "remaster" /\ UNCHANGED <<backend, guest>>
    BY <1>3 DEF RemasterISO, Remaster, request
  <2>2. guest = "off"
    BY <1>0, <2>1
  <2>3. \/ backend = "qemu" /\ menu' = QemuAppend
        \/ /\ backend = "remote" /\ menuRead'
           /\ ~menu'.waits /\ BuilderArgs \subseteq ToSet(menu'.args)
           /\ SerialIsLast(menu'.args)
        \/ backend = "remote" /\ ~menuRead' /\ menu'.args \in BootLines
    <3>1. CASE backend = "qemu" /\ menu' = QemuAppend
      BY <3>1
    <3>2. CASE /\ backend = "remote"
               /\ \E m \in [args : BootLines, waits : BOOLEAN], read \in BOOLEAN :
                    /\ menuRead' = read
                    /\ menu' = (IF read THEN PatchBootConfig(m) ELSE m)
      <4>1. PICK m \in [args : BootLines, waits : BOOLEAN], read \in BOOLEAN :
              /\ menuRead' = read
              /\ menu' = (IF read THEN PatchBootConfig(m) ELSE m)
        BY <3>2, Zenon
      <4>2. CASE read
        <5>1. menu'.args = EnsureAutoinstallArgs(m.args) /\ menu'.waits = FALSE
          BY <4>1, <4>2 DEF PatchBootConfig
        <5>2. m.args \in BootLines
          OBVIOUS
        <5> QED
          BY <3>2, <4>1, <4>2, <5>1, <5>2, PatchedLine
      <4>3. CASE ~read
        BY <3>2, <4>1, <4>3
      <4> QED
        BY <4>2, <4>3
    <3> QED
      BY <1>3, <3>1, <3>2, Zenon DEF RemasterISO
  <2>4. backend \notin {"none", "refused"}
    BY <2>3
  <2> QED
    BY <2>1, <2>2, <2>3, <2>4 DEF MenuInv
<1>4. CASE BootGuest
  <2>1. /\ guest = "off" /\ pc = "embedded"
        /\ guest' = (IF Unattended THEN "installing" ELSE "asking")
        /\ UNCHANGED <<pc, backend, menuRead, menu>>
    BY <1>4 DEF BootGuest, vars, request
  <2>2. CASE backend = "qemu" /\ menu = QemuAppend
    <3>1. Unattended /\ SerialIsLast(menu.args)
      BY <2>2, QemuAppendIs DEF Unattended
    <3> QED
      BY <2>1, <2>2, <3>1 DEF MenuInv
  <2>3. CASE /\ backend = "remote" /\ menuRead
             /\ ~menu.waits /\ BuilderArgs \subseteq ToSet(menu.args)
             /\ SerialIsLast(menu.args)
    <3>1. Contains(menu.args, "autoinstall") /\ Contains(menu.args, "ds=nocloud")
      <4>1. \A a \in ToSet(menu.args) : Contains(menu.args, a)
        BY DEF Contains, ToSet
      <4> QED
        BY <2>3, <4>1 DEF BuilderArgs
    <3>2. Unattended
      BY <2>3, <3>1 DEF Unattended
    <3> QED
      BY <2>1, <2>3, <3>2 DEF MenuInv
  <2>4. CASE backend = "remote" /\ ~menuRead /\ menu.args \in BootLines
    <3>1. Unattended => SerialIsLast(menu.args)
      <4> SUFFICES ASSUME Unattended PROVE SerialIsLast(menu.args)
        OBVIOUS
      <4>1. "ds=nocloud" \in ToSet(menu.args)
        BY <2>4 DEF Unattended, Contains, ToSet
      <4> QED
        BY <2>4, <4>1, GuestInstallAssumption DEF BuilderArgs
    <3> QED
      BY <2>1, <2>4, <3>1 DEF MenuInv
  <2> QED
    BY <2>1, <2>2, <2>3, <2>4 DEF MenuInv
<1>5. CASE InstallSystem \/ PowerOff \/ CommandFailsInGuest
  <2>1. guest' \notin {"off", "asking", "installing"} /\ UNCHANGED <<pc, backend>>
        /\ pc = "embedded"
    BY <1>0, <1>5 DEF InstallSystem, PowerOff, CommandFailsInGuest, Runs, vars, request
  <2> QED
    BY <2>1 DEF MenuInv
<1>6. CASE LateCommand /\ ~CommandFailsInGuest
  <2>1. guest = "late-commands" /\ UNCHANGED <<backend, guest>>
    BY <1>6 DEF LateCommand, InstallOfflinePackages, OfflinePackagesDone, UserCommand,
                UserCommandsDone, PrepareCloudInitTemplate, CleanupInstalledGRUB, Runs, Done,
                guestVars, request
  <2>2. pc = "embedded"
    BY <1>0, <2>1
  <2> QED
    BY <2>1, <2>2 DEF MenuInv
<1> QED
  BY <1>1, <1>2, <1>3, <1>4, <1>5, <1>6 DEF GuestNext, LateCommand

\* Only the check decides about the user-data, and it decides once.
LEMMA CheckStep ==
  ASSUME CheckInv, [GuestNext]_allVars
  PROVE  CheckInv'
<1>1. CASE CheckPrerequisites
  <2>1. CASE /\ backend' = "remote" \/ (backend' = "qemu" /\ firmware' = "bios")
             /\ esp' = FALSE /\ loader' = "unread"
    BY <2>1 DEF CheckInv
  <2>2. CASE /\ firmware' = "uefi"
             /\ \E layout \in StorageLayouts, fallback \in FallbackStates :
                  /\ esp' = layout.esp /\ loader' = fallback
                  /\ backend' = IF HasPortableUEFIFallbackCommand(fallback) /\ layout.valid
                                  THEN "qemu" ELSE "refused"
    <3>1. PICK layout \in StorageLayouts, fallback \in FallbackStates :
            /\ esp' = layout.esp /\ loader' = fallback
            /\ backend' = IF HasPortableUEFIFallbackCommand(fallback) /\ layout.valid
                            THEN "qemu" ELSE "refused"
      BY <2>2, Zenon
    <3>2. layout.valid <=> layout.esp
      BY LayoutsAreJudged
    <3>3. CASE HasPortableUEFIFallbackCommand(fallback) /\ layout.valid
      <4>1. backend' = "qemu" /\ layout.esp /\ loader' \in {"named", "installed"}
        BY <3>1, <3>2, <3>3 DEF HasPortableUEFIFallbackCommand, FallbackStates
      <4> QED
        BY <3>1, <4>1 DEF CheckInv
    <3>4. CASE ~(HasPortableUEFIFallbackCommand(fallback) /\ layout.valid)
      <4>1. backend' = "refused" /\ (loader' = "unnamed" \/ ~layout.esp)
        BY <3>1, <3>2, <3>4 DEF HasPortableUEFIFallbackCommand
      <4> QED
        BY <3>1, <4>1 DEF CheckInv
    <3> QED
      BY <3>3, <3>4
  <2> QED
    BY <1>1, <2>1, <2>2, Zenon DEF CheckPrerequisites
<1>2. CASE UNCHANGED request
  BY <1>2 DEF request, CheckInv
<1>3. CASE [GuestNext]_allVars /\ ~CheckPrerequisites
  <2>1. UNCHANGED request
    BY <1>3 DEF GuestNext, allVars, guestVars, BuildISO, RemasterISO, BootGuest, InstallSystem,
                LateCommand, PowerOff, InstallOfflinePackages, OfflinePackagesDone, UserCommand,
                UserCommandsDone, PrepareCloudInitTemplate, CleanupInstalledGRUB,
                CommandFailsInGuest, Done
  <2> QED
    BY <1>2, <2>1
<1> QED
  BY <1>1, <1>3

\* Every step of an installation keeps the invariant.
LEMMA InstallStep == InstallInv /\ [GuestNext]_allVars => InstallInv'
<1> SUFFICES ASSUME InstallInv, [GuestNext]_allVars PROVE InstallInv'
  OBVIOUS
<1>1. PackagesInv'
  <2>1. [Next]_vars
    BY GuestStepIsStep DEF allVars
  <2> QED
    BY <2>1, PackagesStep DEF InstallInv
<1>a. CheckInv'
  BY CheckStep DEF InstallInv
<1>2. CASE PowerOff
  <2>1. /\ guest = "late-commands" /\ late = <<>> /\ guest' = "off after installation"
        /\ UNCHANGED <<pc, status, backend, loader, late, image>>
    BY <1>2 DEF PowerOff, vars, request
  <2>2. LateInv'
    BY <2>1 DEF InstallInv, LateInv
  <2> QED
    BY <1>1, <1>a, <1>2, <2>2, MenuStep DEF GuestNext, InstallInv
<1>3. CASE UNCHANGED allVars
  <2>1. UNCHANGED <<pc, status, backend, loader, menuRead, menu, guest, late, image>>
    BY <1>3 DEF allVars, vars, guestVars, request
  <2>2. LateInv'
    BY <2>1 DEF InstallInv, LateInv
  <2>3. MenuInv'
    BY <2>1 DEF InstallInv, MenuInv
  <2> QED
    BY <1>1, <1>a, <2>2, <2>3 DEF InstallInv
<1>4. CASE GuestNext /\ ~PowerOff
  BY <1>1, <1>a, <1>4, BeforeLateCommands, LateCommandStep, MenuStep DEF GuestNext, InstallInv
<1> QED
  BY <1>2, <1>3, <1>4

\* An installation starts with nothing.
LEMMA InstallInit == GuestInit => InstallInv
<1> SUFFICES ASSUME GuestInit PROVE InstallInv
  OBVIOUS
<1>1. PackagesInv
  BY PackagesInit DEF GuestInit
<1>2. backend = "none" /\ guest = "off" /\ pc = "update" /\ DOMAIN image = ImageFields
  BY DEF GuestInit, Init, ImageFields
<1>3. MenuInv
  BY <1>2 DEF MenuInv, Written
<1>4. CheckInv
  BY <1>2 DEF CheckInv
<1> QED
  BY <1>1, <1>2, <1>3, <1>4 DEF InstallInv, LateInv

\* The invariant of the installation: the way of the packages, and what the
\* late-commands that ran have made of the image.
THEOREM InstallInvariant == GuestSpec => []InstallInv
BY InstallInit, InstallStep, PTL DEF GuestSpec

\* The installation is a refinement of OfflinePackages: the steps around the
\* builder and the script are stutters of it.
THEOREM InstallIsOfflinePackages == GuestSpec => Spec
<1>1. GuestInit => Init
  BY DEF GuestInit
<1>2. [GuestNext]_allVars => [Next]_vars
  BY GuestStepIsStep DEF allVars
<1> QED
  BY <1>1, <1>2, PTL DEF GuestSpec, Spec

\* Every variable of the packages' way keeps its type, and an index has
\* records of its own architecture only.
THEOREM TypeCorrect == GuestSpec => []TypeOK
<1>1. InstallInv => TypeOK
  BY PackagesPromise DEF InstallInv
<1> QED
  BY <1>1, InstallInvariant, PTL

\* What BuildRepository embeds is what the packages need, with its records,
\* and the script finds what the target lacks of it, however the archive
\* changed between update, resolution and download.
THEOREM OfflineInstallWorks == GuestSpec => []OfflineInstallFindsAll
<1>1. InstallInv => OfflineInstallFindsAll
  BY PackagesPromise DEF InstallInv
<1> QED
  BY <1>1, InstallInvariant, PTL

\* However install-offline-packages.sh ends, and however many signals made its
\* trap clean up under it, it leaves nothing behind, and its status 0 means
\* that the packages and all they need are installed.
THEOREM ScriptIsHonest == GuestSpec => []ScriptEndsHonestly
<1>1. InstallInv => ScriptEndsHonestly
  BY PackagesPromise DEF InstallInv
<1> QED
  BY <1>1, InstallInvariant, PTL

\* Whatever line the ISO's menu had, whether it waited or not: once the menu
\* could be read, nobody is asked, and an unattended installer's own console is
\* the serial one.
THEOREM NobodyIsAsked == GuestSpec => []InstallerAsksNobody
<1>1. InstallInv => InstallerAsksNobody
  BY DEF InstallInv, MenuInv, InstallerAsksNobody
<1> QED
  BY <1>1, InstallInvariant, PTL

\* A guest that powered off has the packages and not their repository, makes
\* its own host keys and machine-id, lets cloud-init run, and boots from the
\* menu that it is configured with, without the builder's arguments: the last
\* two late-commands ran, behind everything that the user's own may have undone.
THEOREM ImageIsTemplate == GuestSpec => []TemplateIsClean
<1>0. 0 # 255
  OBVIOUS
<1>1. InstallInv => TemplateIsClean
  <2> SUFFICES ASSUME InstallInv, guest = "off after installation"
               PROVE  /\ Closure(wanted) \subseteq installed /\ copied = NoRepo /\ ~sources
                      /\ image.makesHostKeys /\ ~image.hostKeys /\ ~image.machineID
                      /\ ~image.cloudInitOff
                      /\ image.grubCfg = image.cmdline
                      /\ image.grubCfg \cap BuilderArgs = {}
    BY DEF TemplateIsClean
  <2>0. late = <<>>
    BY DEF InstallInv, LateInv
  <2>1. status = 0
    BY <2>0, LeftAreDistinct DEF InstallInv, LateInv
  <2>2. Closure(wanted) \subseteq installed /\ copied = NoRepo /\ ~sources
    <3>1. ScriptInv
      BY DEF InstallInv, PackagesInv
    <3>2. status # 255
      BY <1>0, <2>1, Zenon
    <3> QED
      BY <2>1, <3>1, <3>2 DEF ScriptInv
  <2> QED
    BY <2>0, <2>1, <2>2 DEF InstallInv, LateInv
<1> QED
  BY <1>1, InstallInvariant, PTL

\* Every image that QEMU built for UEFI from what its check accepted has an EFI
\* System Partition, in whatever order the storage actions were listed, and the
\* fallback loader unless the user's commands only mentioned it: those commands
\* did run, and none of the builder's own undid them.
THEOREM ImageIsPortable == GuestSpec => []UEFIImageIsPortable
<1>1. InstallInv => UEFIImageIsPortable
  <2> SUFFICES ASSUME InstallInv, backend = "qemu", firmware = "uefi",
                      guest = "off after installation"
               PROVE  esp /\ (loader # "named" => image.fallback)
    BY DEF UEFIImageIsPortable
  <2>1. late = <<>>
    BY DEF InstallInv, LateInv
  <2>2. esp /\ (loader # "named" => loader = "installed")
    BY DEF InstallInv, CheckInv
  <2> QED
    BY <2>1, <2>2, LeftAreDistinct DEF InstallInv, LateInv
<1> QED
  BY <1>1, InstallInvariant, PTL

\* The check refuses user-data only for a reason: what it refused would have no
\* EFI System Partition, or no late-command mentions the fallback loader.
THEOREM PortableAccepted == GuestSpec => []PortableUserDataAccepted
<1>1. InstallInv => PortableUserDataAccepted
  BY DEF InstallInv, CheckInv, PortableUserDataAccepted
<1> QED
  BY <1>1, InstallInvariant, PTL

=============================================================================
