--------------------------- MODULE StoragePreflight ---------------------------
(***************************************************************************)
(* The storage preflight of a Proxmox build: preflightBuildStorages of     *)
(* internal/backend/proxmox/proxmox.go, which adds up in int64 what the    *)
(* build will put on each storage and compares it with what the node says  *)
(* is available there, before anything is uploaded or created.             *)
(*                                                                         *)
(* Integers lie between -MaxInt - 1 and MaxInt and wrap as Go's do; sizes  *)
(* are in a unit of which GiB make a gibibyte.                             *)
(***************************************************************************)
EXTENDS Integers, FiniteSetsExt

CONSTANTS
  MaxInt,       \* the largest integer: 2^63 - 1
  GiB,          \* proxmoxGiB
  SmallDisk,    \* size of the EFI disk, and cloudInitDiskBytes
  Values,       \* the numbers a disk size is written with
  Multipliers,  \* what a size unit stands for: 1, K, M, G, T
  ISOSizes,     \* sizes of a remastered ISO
  Storages      \* the node's storages, by number in the order of their names


ASSUME StoragePreflightAssumption ==
  /\ MaxInt \in Nat /\ GiB \in 1 .. MaxInt
  /\ SmallDisk \in Nat /\ SmallDisk < GiB
  /\ Values \subseteq 0 .. MaxInt /\ Multipliers \subseteq 1 .. MaxInt
  /\ ISOSizes \subseteq 0 .. MaxInt
  /\ Storages \subseteq Nat /\ IsFiniteSet(Storages)

VARIABLES
  build,     \* what the build asks for: its sizes and its two storages
  pc,        \* the step, or "accepted", "refused" by a status, "failed"
  required,  \* storagePreflightRequirement of each storage that has one
  todo,      \* the storages not looked at yet
  seen       \* the status that was read of a storage

vars == <<build, pc, required, todo, seen>>

Error == -1

\* An addition's result as an int64 holds it.
Wrap(n) == ((n + MaxInt + 1) % (2 * (MaxInt + 1))) - (MaxInt + 1)

Contents == {"iso", "images"}

Builds == [iso : ISOSizes, isoStorage : Storages, diskStorage : Storages,
           value : Values, multiplier : Multipliers,
           efi : {0, SmallDisk}, cloudInit : {0, SmallDisk}]

\* A status is usable unless isJSONFalse finds active or enabled false; avail
\* may be absent or null (flexibleInt64.Set), an empty list allows nothing.
Statuses == [usable : BOOLEAN, content : SUBSET Contents,
             avail : {Error} \cup (0 .. MaxInt)]

-----------------------------------------------------------------------------
(* The sizes.                                                              *)

ParseDiskSize(value, multiplier) ==
  IF value > MaxInt \div multiplier THEN Error ELSE value * multiplier

\* Mutant: a whole GiB more whatever the size.
ProxmoxDiskAllocationGiBPlusOne(bytes) ==
  IF bytes <= 0 THEN Error ELSE bytes \div GiB + 1

ProxmoxDiskAllocationGiB(bytes) ==
  IF bytes <= 0 THEN Error
  ELSE IF bytes % GiB # 0 THEN bytes \div GiB + 1 ELSE bytes \div GiB

ProxmoxDiskAllocationBytes(bytes) ==
  LET gib == ProxmoxDiskAllocationGiB(bytes)
  IN  IF gib = Error \/ gib > MaxInt \div GiB THEN Error ELSE gib * GiB

\* Mutant: the last role of a storage counts instead of all of them.
AddStorageRequirementLast(requirements, storage, content, bytes) ==
  [requirements EXCEPT ![storage] =
     [content |-> @.content \cup {content}, bytes |-> Wrap(bytes)]]

AddStorageRequirement(requirements, storage, content, bytes) ==
  [requirements EXCEPT ![storage] =
     [content |-> @.content \cup {content}, bytes |-> Wrap(@.bytes + bytes)]]

NoRequirements == [s \in Storages |-> [content |-> {}, bytes |-> 0]]

Requirements(diskBytes) ==
  LET iso == AddStorageRequirement(NoRequirements, build.isoStorage, "iso", build.iso)
      disk == AddStorageRequirement(iso, build.diskStorage, "images",
                                    Wrap(diskBytes + build.efi))
  IN  IF build.cloudInit = 0 THEN disk
      ELSE AddStorageRequirement(disk, build.diskStorage, "images", build.cloudInit)

-----------------------------------------------------------------------------
(* The preflight.                                                          *)

\* os.Stat of the remastered ISO.
StatISO ==
  /\ pc = "iso"
  /\ pc' \in {"size", "failed"}
  /\ UNCHANGED <<build, required, todo, seen>>

AddRequirements ==
  /\ pc = "size"
  /\ LET bytes == ParseDiskSize(build.value, build.multiplier)
         diskBytes == ProxmoxDiskAllocationBytes(bytes)
     IN  IF bytes = Error \/ diskBytes = Error
           THEN pc' = "failed" /\ UNCHANGED <<required, todo>>
           ELSE /\ pc' = "check"
                /\ required' = Requirements(diskBytes)
                /\ todo' = {build.isoStorage, build.diskStorage}
  /\ UNCHANGED <<build, seen>>

ValidateStorageStatus(requirement, status) ==
  /\ status.usable
  /\ status.content # {} /\ requirement.content \subseteq status.content
  /\ status.avail # Error
  /\ status.avail >= requirement.bytes

\* StorageStatus of the next storage, which fails or is validated.
CheckStorage ==
  /\ pc = "check" /\ todo # {}
  /\ LET storage == Min(todo) IN
     \/ /\ pc' = "failed"
        /\ UNCHANGED <<todo, seen>>
     \/ \E status \in Statuses :
          /\ seen' = [seen EXCEPT ![storage] = {status}]
          /\ todo' = todo \ {storage}
          /\ pc' = IF ValidateStorageStatus(required[storage], status)
                     THEN pc ELSE "refused"
  /\ UNCHANGED <<build, required>>

Accept ==
  /\ pc = "check" /\ todo = {}
  /\ pc' = "accepted"
  /\ UNCHANGED <<build, required, todo, seen>>

Init ==
  /\ build \in Builds
  /\ pc = "iso"
  /\ required = NoRequirements /\ todo = {}
  /\ seen = [s \in Storages |-> {}]

Next == StatISO \/ AddRequirements \/ CheckStorage \/ Accept

Spec == Init /\ [][Next]_vars

-----------------------------------------------------------------------------
(* Properties.  The reference is what the build will really put where, in  *)
(* integers without a width: the disk in whole gibibytes, as its scsi0 is  *)
(* created, the EFI disk, the Cloud-Init drive and the ISO.                *)

DiskNeed ==
  LET bytes == build.value * build.multiplier
  IN  CHOOSE n \in bytes .. bytes + GiB : n % GiB = 0 /\ n < bytes + GiB

Need(s) ==
  (IF s = build.isoStorage THEN build.iso ELSE 0)
  + (IF s = build.diskStorage THEN DiskNeed + build.efi + build.cloudInit ELSE 0)

Holds(s) ==
  (IF s = build.isoStorage THEN {"iso"} ELSE {})
  \cup (IF s = build.diskStorage THEN {"images"} ELSE {})

Fits(s, status) ==
  /\ status.usable
  /\ Holds(s) # {} => Holds(s) \subseteq status.content
  /\ Holds(s) # {} => status.avail >= Need(s)

\* As long as the sum for a storage is within an int64 (an ISO on the storage of
\* a disk of nearly 2^63 bytes is the one sum that is not), a build that passed
\* the preflight fits: every storage it uses was looked at, said that it takes
\* each kind of content the build puts there, also where ISO and disk share a
\* storage, and had room for all of it together.
AcceptedBuildFits ==
  pc = "accepted" =>
    \A s \in {build.isoStorage, build.diskStorage} :
      Need(s) <= MaxInt => \E status \in seen[s] : Fits(s, status)

\* The preflight turns nothing away that fits: if a status made it refuse the
\* build, one of the storages lacked what the build needs of it.
RefusedForCause ==
  pc = "refused" =>
    \E s \in Storages : \E status \in seen[s] : ~Fits(s, status)
=============================================================================
