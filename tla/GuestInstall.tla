---------------------------- MODULE GuestInstall ----------------------------
(***************************************************************************)
(* The guest's installation around OfflinePackages: the check of the       *)
(* user-data for a portable UEFI image (internal/common/common.go), the    *)
(* boot menu and the late-commands that the builder gives the installer    *)
(* (internal/seediso/seediso.go), and the two support scripts that turn    *)
(* the installed system into a template.                                   *)
(*                                                                         *)
(* The installer itself is external: it asks a person unless its kernel    *)
(* line tells it not to, copies the arguments after --- to the installed   *)
(* system, runs the late-commands in order, stops at the first that fails  *)
(* and powers off after the last.                                          *)
(***************************************************************************)
EXTENDS OfflinePackages, SequencesExt

CONSTANTS
  StorageConfigs, \* values of autoinstall.storage.config: sequences of actions
  BootLines,      \* installer lines that an ISO's boot menu may have
  GrubEdits       \* sets of kernel arguments that a late-command may configure

VARIABLES
  backend,     \* "qemu" boots the kernel itself, "remote" the ISO's menu;
               \* "refused" when QEMU's check did not accept the user-data
  firmware,    \* "uefi" or "bios"
  esp,         \* the checked user-data make an EFI System Partition
  loader,      \* their late-commands and the fallback loader: none mentions
               \* it, one does, one does and it is in the ESP after them
  menuRead,    \* the menu that the firmware shows could be read and patched
  menu,        \* what the guest boots: the installer's kernel arguments, and
               \* whether a boot menu waits for a person to choose them
  guest,       \* the guest
  late,        \* the late-commands left to run
  image        \* what the later ones look after in the installed system

NoMenu == [args |-> <<>>, waits |-> FALSE]

request == <<backend, firmware, esp, loader>>
guestVars == <<request, menuRead, menu, guest, late, image>>
allVars == <<vars, guestVars>>

-----------------------------------------------------------------------------
(* ValidateUEFIPortableUserData.  A storage action has an id and refers to *)
(* another; esp says whether it is what an EFI System Partition needs of   *)
(* its type: a GPT, the boot flag, FAT, a mount at /boot/efi, with the     *)
(* names it needs for that.                                                *)

Actions(config, type) == {i \in DOMAIN config : config[i].type = type /\ config[i].esp}

\* Mutant: any FAT volume will do.
AnyFATIsESP(config) ==
  \E p \in Actions(config, "partition"), f \in Actions(config, "format") :
    /\ \E d \in Actions(config, "disk") : config[d].id = config[p].of
    /\ \E m \in Actions(config, "mount") : config[m].of = config[f].id

\* Mutant: every action is linked to what the pass has seen so far.
LinkedAtOnce(config) ==
  \E d \in Actions(config, "disk"), p \in Actions(config, "partition"),
     f \in Actions(config, "format"), m \in Actions(config, "mount") :
    /\ d < p /\ p < f /\ f < m
    /\ config[d].id = config[p].of /\ config[f].of = config[p].id
    /\ config[m].of \in {config[f].id, config[p].id}

\* One pass, whatever the order of the actions: of a partition, and of a
\* volume's formats, the maps keep the last.
StorageConfigHasUEFIESP(config) ==
  LET partitions == Actions(config, "partition")
      formats == Actions(config, "format")
      bootPartitionDevice == {i \in partitions :
        \A j \in partitions : j > i => config[j].id # config[i].id}
      fatFormatForVolume == {i \in formats :
        \A j \in formats : j > i => config[j].of # config[i].of}
  IN  \E p \in bootPartitionDevice, f \in fatFormatForVolume :
        /\ \E d \in Actions(config, "disk") : config[d].id = config[p].of
        /\ config[f].of = config[p].id
        /\ \E m \in Actions(config, "mount") :
             config[m].of \in {config[f].id, config[p].id}

\* The partitioner has one action of an id, and one format of a volume.
ASSUME StorageAssumption ==
  \A config \in StorageConfigs :
    /\ config \in Seq([type : STRING, id : STRING, of : STRING, esp : BOOLEAN])
    /\ \A i, j \in DOMAIN config :
         i # j => /\ config[i].id # config[j].id
                  /\ config[i].type = "format" /\ config[j].type = "format" =>
                       config[i].of # config[j].of

\* What the partitioner makes of it.
MakesESP(config) ==
  \E d, p, f, m \in {a \in ToSet(config) : a.esp} :
    /\ d.type = "disk"
    /\ p.type = "partition" /\ p.of = d.id
    /\ f.type = "format" /\ f.of = p.id
    /\ m.type = "mount" /\ m.of \in {f.id, p.id}

\* What a storage section makes, and whether the check accepts it; without a
\* storage.config the installer's own layout has the partition.
StorageLayouts ==
  {[esp |-> TRUE, valid |-> TRUE]} \cup
  {[esp |-> MakesESP(config), valid |-> StorageConfigHasUEFIESP(config)] :
     config \in StorageConfigs}

\* hasPortableUEFIFallbackCommand looks for a text in the late-commands: it
\* cannot tell a command that installs the loader from one that mentions it.
FallbackStates == {"unnamed", "named", "installed"}
HasPortableUEFIFallbackCommand(fallback) == fallback # "unnamed"

\* Only the QEMU backend looks, and only for an image that boots with UEFI.
CheckPrerequisites ==
  /\ backend = "none" /\ firmware' \in {"uefi", "bios"}
  /\ \/ /\ backend' = "remote" \/ (backend' = "qemu" /\ firmware' = "bios")
        /\ esp' = FALSE /\ loader' = "unread"
     \/ /\ firmware' = "uefi"
        /\ \E layout \in StorageLayouts, fallback \in FallbackStates :
             /\ esp' = layout.esp /\ loader' = fallback
             /\ backend' = IF HasPortableUEFIFallbackCommand(fallback) /\ layout.valid
                             THEN "qemu" ELSE "refused"
  /\ UNCHANGED <<vars, menuRead, menu, guest, late, image>>

-----------------------------------------------------------------------------
(* The boot menu.                                                          *)

BuilderArgs == {"autoinstall", "ds=nocloud", "console=tty0", "console=ttyS0"}

\* The last console is the kernel's and the installer's own.
SerialIsLast(line) ==
  \E i \in DOMAIN line :
    line[i] = "console=ttyS0" /\ \A j \in DOMAIN line : line[j] = "console=tty0" => j < i

\* A line is the ISO's own, without seed and consoles, or was patched before.
ASSUME GuestInstallAssumption ==
  \A line \in BootLines :
    /\ line \in Seq(STRING)
    /\ \/ ToSet(line) \cap BuilderArgs \subseteq {"autoinstall"}
       \/ BuilderArgs \subseteq ToSet(line) /\ SerialIsLast(line)

\* The first ---, or the end.
TripleDash(line) ==
  CHOOSE i \in 1 .. Len(line) + 1 :
    /\ i <= Len(line) => line[i] = "---"
    /\ \A j \in 1 .. i - 1 : line[j] # "---"

InsertBeforeTripleDash(line, arg) == InsertAt(line, TripleDash(line), arg)

\* One turn of the loop over the arguments.
Ensure(line, arg) ==
  IF Contains(line, arg) THEN line ELSE InsertBeforeTripleDash(line, arg)

\* Mutant: a line that installs without asking is one that was patched.
SkipAutoinstall(line) ==
  IF Contains(line, "autoinstall") THEN line
  ELSE Ensure(Ensure(Ensure(Ensure(line, "autoinstall"), "ds=nocloud"),
              "console=tty0"), "console=ttyS0")

EnsureAutoinstallArgs(line) ==
  IF BuilderArgs \ {"console=tty0"} \subseteq ToSet(line) THEN line
  ELSE Ensure(Ensure(Ensure(Ensure(line, "autoinstall"), "ds=nocloud"),
              "console=tty0"), "console=ttyS0")

\* Every menu gets its settings for the timeout, at their place or in front.
PatchBootConfig(m) == [args |-> EnsureAutoinstallArgs(m.args), waits |-> FALSE]

QemuAppend == [args |-> <<"autoinstall", "console=ttyS0", "---">>, waits |-> FALSE]

\* prepareBootConfigMappings skips a menu it cannot read, as long as it reads
\* one of the four; the firmware may show any.
RemasterISO ==
  /\ Remaster
  /\ \/ backend = "qemu" /\ menu' = QemuAppend /\ UNCHANGED menuRead
     \/ /\ backend = "remote"
        /\ \E m \in [args : BootLines, waits : BOOLEAN], read \in BOOLEAN :
             /\ menuRead' = read
             /\ menu' = (IF read THEN PatchBootConfig(m) ELSE m)
  /\ UNCHANGED <<request, guest, late, image>>

BuildISO ==
  /\ backend \in {"qemu", "remote"}
  /\ \/ ArchiveChanges \/ AptUpdate \/ PrintURIs \/ Download \/ CopySelectedPackage
     \/ WriteTrimmedRepositoryMetadata \/ ValidateRepository
     \/ ValidateEmbeddedRepository \/ BuildFails
  /\ UNCHANGED guestVars

-----------------------------------------------------------------------------
(* The installer.                                                          *)

\* Without the menu the installer finds its seed by the name of a volume.
Unattended ==
  /\ ~menu.waits
  /\ Contains(menu.args, "autoinstall")
  /\ backend = "qemu" \/ Contains(menu.args, "ds=nocloud")

BootGuest ==
  /\ guest = "off" /\ pc = "embedded"
  /\ guest' = (IF Unattended THEN "installing" ELSE "asking")
  /\ UNCHANGED <<vars, request, menuRead, menu, late, image>>

PrependInstallLateCommands(commands) == <<"packages">> \o commands

\* Mutant: the builder's own commands go first as well.
SupportFirst(commands) == <<"prepare", "grub">> \o commands

AppendBuilderSupportLateCommands(commands) == commands \o <<"prepare", "grub">>

TransformUserData(commands) ==
  AppendBuilderSupportLateCommands(PrependInstallLateCommands(commands))

\* What the line says after ---, or any of it when there is no such place.
CopiedArgs ==
  LET line == menu.args
      at == TripleDash(line)
  IN  IF at > Len(line) THEN {{}, ToSet(line)}
      ELSE {ToSet(SubSeq(line, at + 1, Len(line)))}

\* "user" stands for all late-commands of the user-data; only those that were
\* checked cannot be none.
InstallSystem ==
  /\ guest = "installing" /\ guest' = "late-commands"
  /\ \E user \in {<<"user">>} \cup (IF loader = "unread" THEN {<<>>} ELSE {}) :
       late' = TransformUserData(user)
  /\ \E args \in CopiedArgs :
       image' = [hostKeys |-> TRUE, machineID |-> TRUE, cloudInitOff |-> TRUE,
                 makesHostKeys |-> FALSE, fallback |-> FALSE,
                 cmdline |-> args, grubCfg |-> args]
  /\ menu' = NoMenu
  /\ UNCHANGED <<vars, request, menuRead>>

Runs(command) == guest = "late-commands" /\ late # <<>> /\ Head(late) = command

\* Any command but that of OfflinePackages, whose status says it.
CommandFailsInGuest ==
  /\ \/ guest = "installing"
     \/ Runs("packages") /\ status \notin {0, 255}
     \/ Runs("user") \/ Runs("prepare") \/ Runs("grub")
  /\ guest' = "failed"
  /\ UNCHANGED <<vars, request, menuRead, menu, late, image>>

InstallOfflinePackages ==
  /\ Runs("packages")
  /\ Script \/ Signal
  /\ UNCHANGED guestVars

Done == late' = Tail(late) /\ UNCHANGED <<vars, request, menuRead, menu, guest>>

OfflinePackagesDone ==
  /\ Runs("packages") /\ status = 0
  /\ Done /\ UNCHANGED image

\* A user's command may bring back what a template must not have.
UserCommand ==
  /\ Runs("user")
  /\ \E args \in GrubEdits, update \in BOOLEAN :
       image' = [image EXCEPT !.hostKeys = TRUE, !.machineID = TRUE,
                              !.cloudInitOff = TRUE, !.cmdline = args,
                              !.grubCfg = IF update THEN args ELSE @]
  /\ UNCHANGED <<vars, request, menuRead, menu, guest, late>>

\* What they do about the fallback loader is theirs, whatever their text says.
UserCommandsDone ==
  /\ Runs("user")
  /\ \E fallback \in BOOLEAN :
       /\ loader # "unread" => (fallback <=> loader = "installed")
       /\ image' = [image EXCEPT !.fallback = fallback]
  /\ Done

PrepareCloudInitTemplate ==
  /\ Runs("prepare")
  /\ image' = [image EXCEPT !.makesHostKeys = TRUE, !.hostKeys = FALSE,
                            !.machineID = FALSE, !.cloudInitOff = FALSE]
  /\ Done

CleanupInstalledGRUB ==
  /\ Runs("grub")
  /\ LET clean == image.cmdline \ BuilderArgs
     IN  image' = [image EXCEPT !.cmdline = clean, !.grubCfg = clean]
  /\ Done

\* TransformUserData sets shutdown to poweroff.
PowerOff ==
  /\ guest = "late-commands" /\ late = <<>>
  /\ guest' = "off after installation"
  /\ UNCHANGED <<vars, request, menuRead, menu, late, image>>

GuestInit ==
  /\ Init
  /\ backend = "none" /\ firmware = "uefi" /\ esp = FALSE /\ loader = "unread"
  /\ menuRead = TRUE /\ menu = NoMenu
  /\ guest = "off" /\ late = <<>>
  /\ image = [hostKeys |-> FALSE, machineID |-> FALSE, cloudInitOff |-> FALSE,
              makesHostKeys |-> FALSE, fallback |-> FALSE,
              cmdline |-> {}, grubCfg |-> {}]

LateCommand ==
  \/ InstallOfflinePackages \/ OfflinePackagesDone \/ UserCommand \/ UserCommandsDone
  \/ PrepareCloudInitTemplate \/ CleanupInstalledGRUB \/ CommandFailsInGuest

GuestNext ==
  \/ CheckPrerequisites \/ BuildISO \/ RemasterISO
  \/ BootGuest \/ InstallSystem \/ LateCommand \/ PowerOff

GuestSpec == GuestInit /\ [][GuestNext]_allVars

-----------------------------------------------------------------------------
(* Properties.                                                             *)

\* README: the builder installs unattended, and shows the installer's serial
\* console.  Whatever line the ISO's menu had, patched before or not, with or
\* without ---, and whether or not the menu waited, nobody is asked, and the
\* serial console is the last one and so the installer's own.  A menu that
\* could not be read stays as it is: only there a person may be asked.
InstallerAsksNobody ==
  /\ guest = "asking" => ~menuRead
  /\ guest = "installing" => SerialIsLast(menu.args)

\* A guest that powered off is a template: the packages are in it and their
\* repository is not, every clone makes its own host keys and machine-id,
\* cloud-init runs in it, and its boot menu has none of the arguments that
\* started the installer, whatever the user's late-commands did to all this.
TemplateIsClean ==
  guest = "off after installation" =>
    /\ Closure(wanted) \subseteq installed /\ copied = NoRepo /\ ~sources
    /\ image.makesHostKeys /\ ~image.hostKeys /\ ~image.machineID
    /\ ~image.cloudInitOff
    /\ image.grubCfg = image.cmdline
    /\ image.grubCfg \cap BuilderArgs = {}

\* README: the UEFI image boots in a VM that has no NVRAM entry for it.  What
\* the QEMU backend accepts for UEFI and installs has an EFI System Partition
\* and the fallback loader in it; late-commands that only mention the loader,
\* which the check of their text lets pass, are exempt.
UEFIImageIsPortable ==
  backend = "qemu" /\ firmware = "uefi" /\ guest = "off after installation" =>
    esp /\ (loader # "named" => image.fallback)

\* The check refuses no user-data that make a portable image: in whatever order
\* the storage actions are listed, their EFI System Partition is found.
PortableUserDataAccepted == backend = "refused" => ~esp \/ loader = "unnamed"
=============================================================================
