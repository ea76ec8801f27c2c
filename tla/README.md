# A verification project for ubuntu-vm-template-builder

`ubuntu-vm-template-builder` installs Ubuntu unattended into a virtual machine
and leaves a template behind. It does so on three backends (a Proxmox node, a
vCenter, a local QEMU); a test harness runs many QEMU builds side by side. What
is hard about it is not the installation but what the builder owns meanwhile:
a VM, a temporary installer ISO, a console log, a QEMU process, ports and
directories, all of them on systems that go on working when the builder fails, is
interrupted or loses a reply. This directory holds TLA+ models of that part,
the TLC runs that check them, and proofs that TLAPS checks.

    tlc -workers 2 -config ProxmoxConsole.cfg ProxmoxConsole # a run
    tlapm ProxmoxBuildProofs.tla                             # a proof module

## 1. The system

| Component | Source | State it keeps | Operations | Model |
|---|---|---|---|---|
| Proxmox build | `internal/backend/proxmox/proxmox.go`, `options.go` | `buildState`: VM created, ISO recorded and deleted, completed; temporary directory | validate, remaster, preflight, upload, create, start, poll, finalize, Cloud-Init, options, template, delete ISO; deferred cleanup | `ProxmoxBuild`, contract `RemoteBuild` |
| Proxmox API client | `internal/backend/proxmox/client.go` | none | requests, `WaitTask` | in `ProxmoxBuild` |
| Proxmox storage preflight | `proxmox.go`, `internal/common/common.go` | requirements per storage | sizes, sums, validation of a status | `StoragePreflight` |
| Proxmox serial stream | `proxmox.go`, `client.go` | a goroutine, its websocket, the compactor's line | proxy, dial, greet, read, reconnect, flush | `ProxmoxConsole` |
| vCenter build | `internal/backend/vcenter/vcenter.go` | `vCenterBuildState`, VM reference | connect, remaster, upload, create, power on, wait, finalize, verify, hardware, template, delete ISO and log; two deferred functions, logout | `VCenterBuild`, contract `RemoteBuild` |
| vCenter console streamer | `internal/backend/vcenter/console.go` | offset, bytes read, stop context | size, range read, deliver, finish | `ConsoleTail` |
| vCenter upload, placement | `vcenter.go`, `seed.go` | none | existence check, upload; inventory lookups | no |
| QEMU build | `internal/backend/qemu/qemu.go` | QEMU process, signal channel, timer, image, temporary directory | prerequisites, preparation, start, wait, interrupt, judge, cleanup | `QemuRun` |
| Matrix harness | `cmd/e2e-matrix/main.go` | ISO cache; two channels, case directories, keys, ports, results | download, publish, verify; send, run a case stage by stage, collect, keep or remove, exit code; `waitCommand` | `IsoCache`, `MatrixPool`, both in `MatrixRun`; `QemuRun` |
| Log compactor | `internal/qemulog/qemulog.go` | line, `skipNextLF`, `blank` | write, flush | `CompactingWriter` |
| Offline APT repository | `internal/offlineapt/offlineapt.go` | package selection, index, pool | update, resolve, download, copy, trim, validate, embed | `OfflinePackages` |
| Seed and remastered ISO | `internal/seediso`, `internal/isoutil` | none | transformation of user-data and boot menus, remastering | `GuestInstall`, `OfflinePackages` |
| Guest scripts | `internal/seediso/scripts` | none in the builder; files of the guest | install the offline packages; prepare the template, clean up GRUB | `OfflinePackages`, `GuestInstall` |
| Hardware and user-data validation | `internal/common/common.go` | none | parsers, validators | `ParseDiskSize` in `StoragePreflight`, the UEFI check in `GuestInstall` |
| Command line | `main.go` | none | flags, help, reports | no |

How they interact:

- A build calls the backend's API under the context of the signals. Proxmox and
  vCenter answer most calls with a *task* of their own, which the build waits
  for by polling, and which goes on when the build gives up.
- An interrupt is a cancelled context. It is observed at the next call; the
  deferred functions then run a cleanup under a new context of two minutes.
- The vCenter build runs the console streamer in a goroutine and stops it with
  a function that waits for a last poll.
- The QEMU build runs QEMU in a process group of its own and passes a signal on;
  the harness runs the builder in a process group and stops it with SIGTERM and,
  ten seconds later, SIGKILL.
- The Proxmox build runs its console stream in a goroutine that it cancels and
  waits for before it goes on, also on its way to the cleanup.
- The harness's workers share the run directory and the loopback ports; harness
  processes share the ISO cache, by file name only.
- Every console is printed through the log compactor, in chunks that end anywhere.
- The offline repository is built before the build proper, travels in the remastered
  ISO, and is used by a script that the guest's installer runs; no status of it
  comes back other than the guest's behaviour: it powers off, or it does not.
- The user-data get the script as first late-command and the two that make a
  template as last ones. (`src/README.md:563` says that the user-data are "passed
  through unchanged"; they are not: `shutdown` is set as well.)

What makes each component correct:

- *Remote builds*: a success is a finished image and nothing else left behind;
  a cleanup without a warning is complete; a failure without an interrupt
  leaves what it is debugged with; another client's VM is never touched (on vCenter
  once the creation of the build's own was acknowledged); an interrupt ends the build
  whatever the server does (on vCenter up to its logout, which nothing ends).
- *Preflight*: it accepts only what fits and refuses only what does not.
- *Console*: nothing is lost or printed twice, and the stop returns.
- *QEMU*: success is QEMU's own exit; no QEMU outlives a builder that ends by itself or
  by a signal it asks for.
- *Harness*: exit code 0 means that every case passed; cases do not disturb each
  other's ports and directories; a run ends.
- *Log compactor*: what is printed does not depend on where chunks end, and is what
  a terminal would show, without runs of empty lines.
- *ISO cache*: it never holds a part of a file, and every case starts on an ISO with
  the SHA256 of its version.
- *Offline packages*: what is embedded is complete; the script leaves nothing
  behind, and status 0 means that the packages are installed.
- *Guest*: the installer asks nobody, and a guest that powered off is a clean template;
  a UEFI image boots in a VM without an NVRAM entry, and no user-data that make one are
  refused.

`PROJECT.json` lists the hazards behind these, each at its line, with the
properties that would catch it.

## 2. The models

Every model is a state machine whose `pc` names the next call of the program.
An action is one call or handler with all it changes; an action whose call can
start a task on a server has the three branches that the code can see of it:
submitted, succeeded, failed. The definitions above a definition whose comment
begins with `Mutant:` are variants with a bug, used to see that the properties
notice it; no specification uses them.

### ProxmoxBuild

`installWithClient` and the deferred cleanup, with the node.

- *Builder*: `pc` and `awaiting` (it sits in `WaitTask`), the four fields of
  `buildState`, `tempDir`. `validate` to `deleteISO` are the calls in the order
  of the source, `c...` the steps of the cleanup. `cfg` is what the command line
  fixes: requested or next free VMID, template, Cloud-Init, options.
- *Node*: `vm` (whatever has the VMID; owner, power, installer drive, serial
  console, boot order, template, protection), `iso`, `task` by kind. `Applies` says what
  a task needs of the VM; start, finalize, Cloud-Init, options and template need the
  build's own VM, so that only create, stop and destroy can meet that of another.
- A call may be refused; may be executed although its reply is an error; may be
  executed at once (a reply without UPID); or may start a task. `WaitTask` may fail on a
  failed task, on one failed status read, or on a context that is done. A task
  nobody waits for runs on. A task that does what was asked may still end with
  a warning, which `WaitTask` takes for a failure.
- *Others*: another client takes the VMID, the guest powers off (the node cannot
  tell a crash from a shutdown), a signal arrives, the cleanup's two minutes end.

### ProxmoxConsole

`ProxmoxBuild` with the goroutine of `powerOnAndWaitForInstaller`. `stream` is its
place from the proxy request to the deferred flush, `pending` whether the log
compactor holds a part of a line. The goroutine starts when the builder reaches
its wait for the installer and lives in it; `StreamWaited` is `<-streamDone` in the
deferred function, so that every step of the builder after the wait needs the
goroutine's end. `Unblocked` is the other goroutine, which closes the connection
under a reader when the context ends. Errors are transient or not, a connection
may break and be made again any number of times.

### RemoteBuild

The abstract contract of both remote builds: a user's view of `phase`, the
interrupt, whether something was said to be left, the machine (none, a draft,
the finished image) and the temporary files. It has no calls and no
tasks. Its actions carry the promises: `Succeed` needs an image and no files,
`Destroy` needs an interrupt, `Drop` does not take the installer ISO from
an uninterrupted draft, `EndCleaning` says what it leaves, and an interrupt leads
to an end. `ProxmoxBuild` and `VCenterBuild` instantiate it with a refinement
mapping (`Contract`) that sees a machine and its files from the moment the build
was told that they exist, and have `ImplementsRemoteBuild` as a property. The
contract states its one liveness property as a leads-to, since TLC
cannot evaluate ENABLED through the mapping.

### VCenterBuild

`Install` of the vCenter backend. It differs from the Proxmox build in what
matters here: it addresses the VM by the reference that `createVM` returned
(`handle`) and looks one up by inventory path only if it has none; it uploads
through vCenter or, failing that, through the ESXi host; it has a console log to
delete; and one deferred function announces the debug artifacts before the
next one decides about the cleanup, each reading the context for itself. Behind both is
`Logout`, the deferred `client.Logout(context.Background())` (`vcenter.go:233`): a call
without a deadline, in a context that no signal ends (signals are caught until it
returns, and change nothing), after which the local temporary directory is removed. A
vCenter that does not answer it keeps the build for good, interrupted or not: `Logout`
has no fairness, and the contract ends before it.

### ConsoleTail

The streaming goroutine. A byte of the log is a pair of generation and position,
so that a lost byte can be told from one printed twice. A poll is a `HEAD`
(or a range probe), then a range read; the log appears, grows, is truncated
and its guest powers off at any moment between them. 206, 200 and 416 are
actions of their own, the 416 with or without the size in its header. A write of
the output may fail in the middle of a chunk.

### QemuRun

`Install` of the QEMU backend with QEMU itself, an operator's signals and the
harness's `waitCommand`. `notified` is the span between `signal.Notify` and
`signal.Stop`, `pending` the channel with its two places; outside the span a
signal kills the builder. A signal that `Notify` does not ask for (SIGHUP, SIGQUIT, an
operator's SIGKILL) ends it at any time: `pc` is then `uncaught`, and QEMU, which has a
process group of its own, goes on. The two graces are timers; time passes only while a
timer runs and no process has an immediate step, that is, the builder reacts
within the slack of five seconds between the graces.

### MatrixPool

`runCases` with sender, workers, collector and exit code, and the stages of
`runCase` that touch what the cases share. Both channels are unbuffered, so a send and its
receive are one step. Every stage may fail.

### IsoCache and MatrixRun

`IsoCache` is `prepareISOs` and `downloadFile` by several harness processes. Names
and descriptors are kept apart: `iso` and `part` say which file a name means, `fd`
which file a process writes, and `content` which source each chunk of a file is
from; so opening with `O_TRUNC`, renaming and removing by name do to the files
of others what they do on a disk. A harness may be killed and started again
anywhere. Each has a `--config` of its own (`config`): a list of versions with a file
name, the source that its URL leads to, and a SHA256 or none, so that two harnesses may
list different ISOs under one name. `replaced` remembers the names whose ISO gave way
to a different one. `MatrixRun` is `run`: it prepares the cache as one of the
harnesses, makes the run directory, and becomes `MatrixPool`.

### StoragePreflight

The sizes of disk, EFI disk, Cloud-Init drive and ISO in integers up to `MaxInt`
that wrap as Go's do, the requirement of each storage, and every status
a node can answer (unusable, any content list, any number of available bytes or
none). The reference, `Need` and `Holds`, is written from what the build creates,
in integers without a bound.

### CompactingWriter

`Write` takes one byte at a time and keeps all of its state in the writer: a
chunk boundary is no step of it, so the model has none either. Bytes are classes (what
ends a control sequence, what is visible, `ESC`, `\`, line ends). A
write of the output may fail after any part of a line, and the caller may go on.
The reference, `Rendering`, is another definition of the output: it splits the whole
text into lines, runs a terminal automaton over each, and then collapses blank
lines. One automaton per line, because the code forgets an unfinished escape at
the end of a line.

### OfflinePackages

The builder from `apt-get update` to the validation of the ISO, the archive that
changes meanwhile, and `install-offline-packages.sh` in the guest. `selection` are the
package URIs, `repo` and `iso` a pool, an index for each architecture and
whether the required metadata is there; xorriso may lose files. Every step of
either side may fail (`set -e`, error returns), a failed one runs the trap of
`EXIT`. A signal runs the same function and the script goes on behind it, as the
shell does with a trap that does not exit.

### GuestInstall

`OfflinePackages` in the installation it is a part of. Before the builder starts, the
QEMU backend checks the user-data of an image that boots with UEFI (`firmware`), and
refuses some (`backend` is then `refused`). Of the storage actions the check,
`StorageConfigHasUEFIESP`, keeps for each partition and for a volume's formats the last;
the reference is `MakesESP`, which says what an EFI System Partition is. Of the
late-commands it looks for a text: `loader` says whether none names the fallback loader,
one does, or one does and installs it, and the check cannot tell the last two apart.
Together with the ISO, the boot menu is patched
argument by argument (`Ensure`) or, when it could not be read, left. A line of the
menu is a sequence, since the last console wins; the kernel arguments of the installed
system are a set, since the cleanup only takes some of them out. The installer is
external: it asks a person unless the arguments it was booted with say otherwise,
copies what follows `---` into the new system, runs the late-commands that
`TransformUserData` made, stops at the first that fails and powers off after the last.
`image` is what the late-commands look after: host keys, machine-id, the switch that
turns cloud-init off, the kernel arguments configured and those in the generated menu.
The user's own commands may undo all of it, any number of times.

### Not modelled, and why

Besides the components marked "no" above: HTTP, JSON, authentication (pure I/O);
the values of options (only which call applies them); placement (read-only);
a suspended VM; the QEMU arguments; the SSH retry loop of the harness (one
stage of a case that ends); the `vcenter upload` command, an existence check and an
upload in sequence, which promises nothing about a file that appears in
between; the command line, sequential glue.
These are assumptions of the models:

- The builder of a remote build is not killed: it ends by itself. (`QemuRun` does
  have the death by a signal and by the harness.)
- A VM is not deleted by an operator and replaced by another with its VMID while
  the build works; a task is about the VM that it was accepted for.
- The promises of a cleanup begin with what the builder was told: a VM whose
  creation was acknowledged, an ISO whose upload was. An interrupt before that
  may leave a VM or a file behind, and the models reach such states.
- Any "stopped" is the installer's own power-off: the code knows no difference.
- A log that is truncated and grows past the old offset between two
  polls looks like one that grew. The completeness properties of `ConsoleTail`
  therefore speak of a log that was never truncated.
- `os.RemoveAll` of a temporary directory of a remote build succeeds (the code
  ignores its error), the one of a case's directory may fail.
- APT resolves to the closure of dependencies: no versions, alternatives or
  conflicts. A resolver that refuses is a failing step. The guest's apt finds what
  its one source's lists and pool have, or what is installed already.
- The script's cleanup itself succeeds, and it is not killed by SIGKILL.
- `/etc/default/grub` has one `GRUB_CMDLINE_LINUX_DEFAULT`. With a second line,
  appended by a late-command to override the first, the cleanup script reads
  the first and replaces both (`cleanup-installed-grub.sh:16,37`). It also cannot
  tell a user's own `console=` from the builder's.
- A line of the ISO's boot menu is the ISO's own, without the builder's seed and
  consoles, or was patched by a builder before (`GuestInstallAssumption`).
- The partitioner finds an ESP in the storage actions if some of them make one. It
  accepts no two actions with one id and no two formats of one volume
  (`StorageAssumption`).
- Nobody but harnesses writes to the ISO cache. A URL serves the same bytes to everyone
  and at any time; a harness that was killed starts again with the same configuration;
  a body that ends early is an error.
- Sending a signal to QEMU's process group succeeds: the three returns of
  `waitInterruptibleCommand` on an error of `kill` (`qemu.go:424-426`, `439-441`,
  `445-447`), which leave QEMU running, are not modelled. QEMU is the builder's own
  child, so `kill` has no reason to fail but that it is gone, which is no error.
- A capacity that was compared may be used up by the time of the upload:
  nothing reserves it, and the model of the preflight ends with its verdict.

## 3. The runs

| Run | Question | Result |
|---|---|---|
| `proxmox_build` | the contract of a remote build, other clients' VMs, template last, the console stream over before the VM changes | holds, 38,000 states |
| `vcenter_build` | the contract, other clients' VMs, template last, debuggability of a build that failed without an interrupt | holds, 27,700 states |
| `vcenter_announce` | artifacts announced as left in place stay | **violated** |
| `matrix_pool` | whole files in the cache, the right ISO for a case; exit code, ports, kept directories, end | holds, 150,600 states |
| `matrix_shared_dirs` | a kept case has its directory when two cases have one ID | **violated** |
| `console_tail` | order, completeness, truth of the warning, the stop returns | holds, 66,600 states |
| `console_truncated` | a truncated log is streamed from its start | **violated** |
| `qemu_run` | success is QEMU's exit, nothing left running, end after a signal | holds, 11,600 states |
| `qemu_other_file` | the image of another program is not overwritten | **violated** |
| `compacting_writer` | the output is the rendering of the text; no runs of empty lines | holds, 850,200 states |
| `offline_packages` | the embedded repository is complete; the script's status is true and nothing is left; the installer asks nobody; the image is a clean, portable template, and no portable user-data are refused | holds, 1,155,700 states |
| `storage_preflight` | accepted builds fit, refused ones do not | holds, 365,000 states |

What the four violations show:

- `vcenter_announce`. The first deferred function reads the context before the
  signal and prints "Debug artifacts left in place"; the second one reads it after
  the signal and deletes VM, ISO and log. README.md:98-101 has the log "left in
  place on failure for debugging".
- `matrix_shared_dirs`. Case IDs are not unique when a list of the configuration
  repeats a value. The case that passes removes the directory that the failed
  one was told to keep (README.md:628-630).
- `console_truncated`. The log is truncated between the request for its size and
  the one for its bytes. The 416 that states the new size becomes the offset,
  and the bytes below it, which are new, are never printed.
- `qemu_other_file`. `--image` is checked to be free (`main.go:946`,
  and `checkOutputPath`); minutes later `createDiskImage` opens it with
  `O_TRUNC`, and a file that appeared in between is lost.

One more is excluded from a property by name: `AcceptedBuildFits` speaks of sums
that fit into an int64. An ISO on the storage of a disk of nearly 2^63 bytes
makes the sum negative, and a negative requirement always has room.

The other exemptions are as explicit. `CacheHoldsWholeFiles` and
`CasesStartOnTheirISOs` leave out runs in which two harnesses downloaded one file at
the same time: they share `<name>.part`, the second truncates it under the first, and
the first publishes what is there; without a SHA256 nobody notices.
`CasesStartOnTheirISOs` also leaves out an ISO that was verified and then replaced: a
harness that is past its `os.Stat` when the first publishes, and whose configuration
has another ISO under that name, publishes its own on top, and the cases start on it
despite the SHA256. `CacheHoldsWholeFiles` says that this happens only then. A version
without a SHA256 is left out where an earlier one, or another harness, has a different
ISO under its file name. `NoQemuLeftBehind` leaves out the builder that a signal ended
which it had not asked for; that QEMU runs on, and nobody owns it.
`ImplementsRemoteBuild` leaves out a create whose answer was lost, and of a vCenter
build the logout. `ForeignVMUntouchedOnceCreated` begins when `createVM` has returned:
before that, an interrupted build looks its VM up by inventory path, and may find and
delete another's. `ZeroWarningIsTrue` leaves out a last poll whose error the code
takes for a log that is not there yet. `UEFIImageIsPortable` leaves out late-commands
that only mention the fallback loader. `RunEnds` leaves out a run that waits,
uninterrupted, for a server that stays silent (downloads have no timeout).
`InstallerAsksNobody` leaves out a boot menu that could not be read, which
`prepareBootConfigMappings` treats like one that is not there as long as it finds
another.

### Bounds

- `ProxmoxBuild`, `ProxmoxConsole`, `VCenterBuild`: none. The state space is finite as
  it is: one task of each kind, one signal (a second one changes nothing while the
  context is done), every configuration.
- `ConsoleTail`: three bytes a generation, one truncation, one failed write. Two
  positions are needed to see an order, a third one for growth between two
  requests of a poll; a truncation and a shorter second generation give each
  answer of `readRange`.
- `QemuRun`: graces 1 and 2 (only their order matters, and the proof is for every
  pair), three signals, one more than the channel holds. `qemu_other_file`
  needs no signal.
- `MatrixPool`: three cases on two workers, so that one worker runs two cases;
  ports up to 24000 instead of 65000, that is two or three for each case.
- `IsoCache`: two harnesses, each with one of three configurations (two files of which
  one has no SHA256; two versions with one file name; the second of these alone), so
  that harnesses agree, share a name by accident, or contradict each other; files of
  two chunks (a file that is begun and not whole), one kill; the cache is followed
  until the pool starts (`Forget`), since the cases only read it.
- `StoragePreflight`: integers up to 15 and a gibibyte of four units, so that
  rounding, the overflow of a parsed size and the overflow of the rounded one all
  happen among seven values and two multipliers; ISO and disk on one storage or
  on two.
- `CompactingWriter`: five bytes of ten classes, one failed write. The longest shapes
  that matter are an operating system command with text behind its terminator
  (`ESC ] ESC \ a`), and three line ends with a byte of each kind between two of
  them.
- `OfflinePackages`: a program, the data it depends on (architecture `all`), a file
  of an unsupported architecture, any of them installed in the guest before; two
  signals, so that the second meets a script that went on after the first.

- `GuestInstall`: four boot lines (Ubuntu's, one without `---`, one that is unattended
  already, one remastered before), menus that wait or do not, two kernel command lines
  that a user may configure; both firmwares; for the UEFI check every order of a disk,
  two partitions, a format and a mount, with and without what makes each one part of
  an ESP, and late-commands that do not name, name, or install the fallback loader.
  The user's late-commands have no bound.

Deadlock is not checked (`CHECK_DEADLOCK FALSE`): every one of these programs ends.

### Fairness

- Remote builds: weak fairness of the builder *when it is not waiting* for a
  task, for the guest, or for a call that hangs, and of the expiry of the
  cleanup's context. Nothing is assumed of the node's tasks, of the guest or of other
  clients. The contract's `InterruptEnds` therefore holds even if the node
  hangs. A request ends at the latest with its context; the logout of a vCenter build,
  whose context never ends, may never return, so nothing is assumed of it and
  `InterruptEnds` says nothing of it.
- `ProxmoxConsole`: the goroutine goes on when it needs no answer or when its
  context has ended; the console's server may stay silent for good.
- `ConsoleTail`: the goroutine and the ticker go on, requests end with their
  context; strong fairness of `Finish`, since `run` is in `select` again and
  again between polls and Go takes a ready branch at random.
- `QemuRun`: builder and harness run, time passes, a process that was sent SIGKILL dies.
  QEMU need not heed anything else, and nobody has to send a signal.
- `MatrixRun`: the harness goes on when it needs no answer of the server, and a
  wait ends with the interrupt. The other harnesses owe nothing.
- `MatrixPool`: the goroutines are scheduled, and every stage ends (it has a
  timeout or ends by itself).

## 4. The proofs

All of the following are theorems for every value of the constants that satisfies
the named assumptions. `Safety` is `Init /\ [][Next]_vars`, the specification
without its fairness.

| Module | Theorems | Assumes |
|---|---|---|
| `ProxmoxBuildProofs` | `TypeCorrect`, `Ownership`, `ForeignVMSafe` (`ForeignVMUntouched`), `BuildInvariant`, `SuccessIsFinished` (`SuccessMeansFinishedImage`), `ConversionIsLast` (`TemplateIsFinal`), `KeepsContract`, `ContractHolds`, `ConsoleBuildIsBuild`, `StreamOver` (`StreamOverBeforeVMChanges`), `ConsoleBuildIsCorrect` | nothing |
| `VCenterBuildProofs` | `TypeCorrect`, `BuildInvariant`, `FailureIsDebuggable` (`FailedBuildStaysDebuggable`), `ForeignVMSafe` (`ForeignVMUntouchedOnceCreated`), `TemplateOnlyWhenFinal` (`TemplateIsFinal`), `KeepsContract`, `ContractHolds`, `BuildIsCorrect` | nothing |
| `ConsoleTailProofs` | `TailInvariant`, `TypeCorrect`, `PrintedInOrder` (`StreamedInOrder`), `OffsetSkipsNothing` (`NothingSkipped`), `StoppedStreamComplete` (`StoppedStreamIsComplete`), `WarningIsTrue` (`ZeroWarningIsTrue`) | `ConsoleTailAssumption`: the bounds are numbers, and the log may have a byte |
| `QemuRunProofs` | `TypeCorrect`, `RunInvariant`, `SuccessIsOwnExitHolds`, `NoQemuLeftBehindHolds`, `EndsAfterQemuHolds` | `QemuRunAssumption`: the builder's grace is shorter than the harness's |
| `MatrixRunProofs`, of the pool | `PoolInvariant`, `TypeCorrect`, `ExitZeroHolds`, `PortsNotSharedHolds`, `KeptArtifactsHold` | `SizesAssumption`, `KeepAssumption`, `CaseDirAssumption`; ports: at most 1000 cases; directories: distinct ones |
| `MatrixRunProofs`, of a whole run | `RunInvariant`, `WholeFilesInCache` (`CacheHoldsWholeFiles`), `RightISOs` (`CasesStartOnTheirISOs`), `RunIsCorrect`, `RunPortsNotShared`, `RunKeepsArtifacts` | the same, and `RunAssumption`: a finite number of harnesses, this one among them; configurations that are lists with at least one version, and a chunk in each file |
| `GuestInstallProofs` | `InstallInvariant`, `InstallIsOfflinePackages`, `TypeCorrect`, `OfflineInstallWorks` (`OfflineInstallFindsAll`), `ScriptIsHonest` (`ScriptEndsHonestly`), `NobodyIsAsked` (`InstallerAsksNobody`), `ImageIsTemplate` (`TemplateIsClean`), `ImageIsPortable` (`UEFIImageIsPortable`), `PortableAccepted` (`PortableUserDataAccepted`) | `OfflinePackagesAssumption`: every package has an architecture and a set of dependencies; `GuestInstallAssumption`, `StorageAssumption`: see above |
| `StoragePreflightProofs` | `PreflightInvariant`, `AcceptedFits` (`AcceptedBuildFits`), `RefusalHasCause` (`RefusedForCause`) | `StoragePreflightAssumption`: sizes and storages are numbers, a small disk is less than a gibibyte, and that is an integer |
| `CompactingWriterProofs` | `WriterInvariant`, `NoRunsHold` (`NoEmptyRuns`), `OutputRendersText` (`OutputIsRendering`) | `CompactingWriterAssumption`: the bounds are numbers |

Each inductive invariant was an invariant of a TLC run before it was proved. The
arguments:

- *KeepsContract*, of both backends, is the safety part of `ImplementsRemoteBuild`:
  the initial states map to initial states and every step to one step of the contract
  or to a stutter. *ContractHolds* then says of each of them, through the refinement,
  what a user of a remote backend may rely on: success is the image alone, a quiet
  cleanup leaves nothing, an uninterrupted draft keeps its installer. Of the contract
  this needs no more than that cleaning starts with an interrupt. The remote state
  changes when a *task* runs, maybe long after the build gave up on it, so the
  strengthening is about tasks. A build that has not failed waits for every task it
  starts: `AwaitInv`, `PathInv`. A task that is still in flight after a failure is
  therefore the only one that can change the VM, and it meets the VM as the build left
  it: `ShapeInv`. `ISOInv` (Proxmox) and `FileInv` (vCenter) say where the ISO and the
  log are, `DoneInv` when a build is finished. For Proxmox, `AckInv` says what the
  build has been told about its VM. For vCenter, whose calls address a reference,
  `HandleInv` says which VM the reference means and `LostInv` what a creation whose
  answer was lost may still do.
- *ForeignVMUntouched* is not inductive: stop and destroy address a VMID, and a
  task the builder gave up waiting for may run at any later time. `OwnershipInv`
  says that the VM is the build's own at each step that can post one of them and as
  long as one is in flight, and that the two are never in flight together: else the
  destroy could free the VMID for another client and the stop would hit its VM. The
  stop is posted only after a read of "running", the destroy only after the stop
  is known to have ended.
- *StreamOverBeforeVMChanges* is proved over the build: every step of
  `ProxmoxConsole` is one of `ProxmoxBuild` or a stutter (`ConsoleBuildIsBuild`),
  and `StreamInv` says that while the goroutine lives, no task is in flight and the
  VM is the build's own and still has its serial port.
- *FailedBuildStaysDebuggable* needs `DebugInv`: without an interrupt, a VM
  that still has the installer attached has its ISO, and one that booted with its
  serial port has its log; `DoneInv` says that a deletion in flight is that of
  a finished VM or of a build that was never given one.
- *ConsoleTail*. The length that a poll learnt, the range it then asks for and the
  log that answers are of three moments, with appends and truncations in
  between. `ReadInv` says what they still have in common when the answer arrives;
  `AppendInv` and `OrderInv` relate the offset to what was printed, `CountInv`
  the offset to the count of bytes, `EndInv` the last poll to the log.
- *ExitZeroMeansAllPassed* needs the way of a case through the pool: `JobInv`
  (no two workers hold one case), `SentInv` (a case that was sent is held or
  collected), `VerdictInv` (what is collected has a verdict) and `SenderInv` (the
  order of the two closes). `PortInv` and the residue modulo 1000
  of a port give `PortsNotShared`: the probe and QEMU's bind race with nobody
  as long as there are at most 1000 cases.
- *CacheHoldsWholeFiles* is about names that move from file to file while descriptors
  stay behind. `NamesInv`: the name of an ISO and that of a `.part` never mean one
  file. As long as no two downloads of a name overlapped, `AloneInv` gives each name
  one downloader, `CopyInv` says that what it received is what the file behind its
  name has (and not that of a file which was removed under it), `PublishInv` that a
  file is whole before it is renamed. `WholeInv` is the property; that an ISO gives
  way to a different one only under a disputed name is in the step of `Publish`: what
  had the name is an ISO that some harness lists under it, and so is what gets it. A
  `.part` that is created is a file that nothing else means; that there always is one
  in the model is a counting argument (`NewFileIsNew`): two names a file name, one
  descriptor a harness.
- *CasesStartOnTheirISOs* follows from `VisitInv` (a version that was prepared has a file
  under its name, because no ISO goes away again, and only the first version of a name
  is ever downloaded) and `CheckInv` (a SHA256 that matched still does, unless the
  name is among the replaced ones). The pool does nothing until the run directory
  exists, and the cache is not followed after it, so `RunStep` proves each invariant
  over its own half of the run.
- *NoQemuLeftBehind* rests on `BuilderEndsFirst`: from the harness's SIGTERM on, a
  builder that has not ended yet has the signal in its channel with all of the
  harness's grace left, or runs a timer shorter than the harness's.
- *GuestInstall*. `BuildInv` follows the selection from the resolver to the ISO: it is
  the closure of the wanted packages, whatever the archive became since
  `apt-get update`. `ScriptInv` says what the script can rely on until a signal makes
  its trap clean up under it. Of the closure only a lemma is used: it
  is the least set that contains what was asked for and its own dependencies.
  The installation around them is a refinement (`InstallIsOfflinePackages`), so both
  are proved over the steps of `OfflinePackages` alone. `MenuInv` follows the kernel line
  from the remastered ISO to the installer; it rests on `PatchedLine`, for which
  `InsertIs` shows that an insertion in front of `---` keeps what is there, and
  `EnsureIs` that an argument which was not in the line ends up in front of it, so that
  the serial console, inserted last, is behind the other. `AcceptedConfig` finds the ESP in
  what the pass over the storage actions accepts, and `AcceptsConfig` shows that it
  accepts whatever makes one, since no action hides another of its id or a volume's
  format (`StorageAssumption`);
  `CheckInv` keeps that verdict, and what the late-commands named, until the guest is
  off. `LateInv` says what
  each of the builder's last late-commands made of the image, behind everything the
  user's own may have undone.

- *AcceptedBuildFits*: the preflight adds with integers that wrap. `SumsWrapDown`
  shows that a sum which leaves the range can only come out lower than the true one, so
  `NeedInv` can say that what is asked of a storage is what the build will put there, or
  less if no integer holds that. `LookInv` and `RefuseInv` keep the status that
  let a storage pass or refused it.
- *OutputIsRendering* compares loops with a definition of another shape. `LineInv`:
  the writer's three variables are what the next byte needs to know of the whole text.
  Within a line, the loop of `sanitizeLine` jumps over an escape where the terminal
  automaton walks through it; `Between` says, for each state of the automaton, where
  the loop will go on. Across lines, `WriteKeeps` says that what is out is the
  rendering of the text so far, and the proof is one step for each way a byte may end
  a line, or not. All of these are recursive functions on the positions of a text.
  That such a function exists is `Iteration`, and what it computes at every position
  is proved by a least counterexample (`LeastNumber`, from the well-foundedness of
  `<`), since the library's induction over a predicate cannot be used here.
- *NoEmptyRuns* holds whatever fails: `BlankInv` says that the last line of the
  output is empty only if `blank` says so.

Only model-checked:

- liveness (`InterruptEnds` in both refinements, `RunEnds`, `StopReturns`,
  `SignalEndsBuilder`), which TLAPS does not prove under fairness;
- the four violations, which are counterexamples.

## 5. Plan

Every safety property that a run finds to hold is also proved. What could come next is
model, not proof:

1. the SSH retry loop of the harness's verification, and an upload that is
   interrupted before its name is recorded, with the file that it may leave;
2. the file `/etc/default/grub` line by line, with the second
   `GRUB_CMDLINE_LINUX_DEFAULT` that an assumption excludes now.
