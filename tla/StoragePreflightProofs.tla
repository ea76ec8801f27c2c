------------------------ MODULE StoragePreflightProofs ------------------------
(***************************************************************************)
(* Proofs about StoragePreflight for every range of integers, every size   *)
(* of a gibibyte and every choice of sizes and storages.                   *)
(*                                                                         *)
(* What a storage must take is summed in integers that wrap.  NeedInv says *)
(* how the sums relate to what the build will put there: the same as long  *)
(* as it is an integer at all, and never more.  LookInv and RefuseInv say  *)
(* what was read of the storages since then.                               *)
(***************************************************************************)
EXTENDS StoragePreflight, TLAPS

Targets == {build.isoStorage, build.diskStorage}
Summed == {"check", "accepted", "refused"}

TypeInv ==
  /\ build \in Builds
  /\ pc \in {"iso", "size", "failed"} \cup Summed
  /\ required \in [Storages -> [content : SUBSET Contents, bytes : Int]]
  /\ todo \subseteq Targets
  /\ seen \in [Storages -> SUBSET Statuses]

\* The disk is an integer, and the sum for a storage is what the build puts
\* there, or less if that is more than an integer holds.
NeedInv ==
  pc \in Summed =>
    /\ DiskNeed \in 0..MaxInt
    /\ \A s \in Targets : /\ required[s].content = Holds(s)
                          /\ required[s].bytes <= Need(s)
                          /\ Need(s) <= MaxInt => required[s].bytes = Need(s)

\* A storage is struck off the list for a status that passed.
LookInv ==
  /\ pc \in {"check", "accepted"} =>
       \A s \in Targets \ todo :
         \E status \in seen[s] : ValidateStorageStatus(required[s], status)
  /\ pc = "accepted" => todo = {}

RefuseInv ==
  pc = "refused" =>
    \E s \in Targets :
      \E status \in seen[s] : ~ValidateStorageStatus(required[s], status)

PreflightInv == TypeInv /\ NeedInv /\ LookInv /\ RefuseInv

-----------------------------------------------------------------------------
(* Arithmetic.                                                             *)

\* Two multiples of g that are less than g apart are the same number.
LEMMA MultiplesApart ==
  ASSUME NEW g \in Nat, g > 0, NEW a \in Int, NEW b \in Int,
         a % g = 0, b % g = 0, a - b < g, b - a < g
  PROVE  a = b
<1>1. a \div g \in Int /\ b \div g \in Int
  OBVIOUS
<1> DEFINE q == a \div g - b \div g
<1>2. a = g * (a \div g) /\ b = g * (b \div g)
  OBVIOUS
<1>3. g * q = a - b
  BY <1>1, <1>2
<1>4. (q >= 1 => g * q >= g) /\ (q <= -1 => g * q <= -g)
  BY <1>1
<1>5. q = 0
  BY <1>1, <1>3, <1>4
<1> QED
  BY <1>1, <1>2, <1>5

\* A sum that is an integer is not wrapped, and one that overflows becomes less.
LEMMA WrapKeeps ==
  ASSUME NEW n \in Int, n >= -MaxInt - 1
  PROVE  /\ Wrap(n) \in -MaxInt - 1 .. MaxInt
         /\ Wrap(n) <= n
         /\ n <= MaxInt => Wrap(n) = n
<1>1. MaxInt \in Nat
  BY StoragePreflightAssumption
<1> QED
  BY <1>1 DEF Wrap

\* ParseDiskSize returns the product, which is an integer, or an error.
LEMMA ParsedSize ==
  ASSUME NEW value \in Values, NEW multiplier \in Multipliers,
         ParseDiskSize(value, multiplier) # Error
  PROVE  /\ ParseDiskSize(value, multiplier) = value * multiplier
         /\ value * multiplier \in 0..MaxInt
<1>1. MaxInt \in Nat /\ value \in 0..MaxInt /\ multiplier \in 1..MaxInt
  BY StoragePreflightAssumption
<1>2. value <= MaxInt \div multiplier
  BY <1>1 DEF ParseDiskSize
<1>3. value * multiplier \in Nat /\ value * multiplier <= MaxInt
  BY <1>1, <1>2
<1> QED
  BY <1>1, <1>2, <1>3 DEF ParseDiskSize

\* What a disk of some bytes is created with: the only multiple of a gibibyte
\* that is not smaller and less than one larger.
LEMMA AllocatedSize ==
  ASSUME NEW bytes \in Nat, ProxmoxDiskAllocationBytes(bytes) # Error
  PROVE  /\ ProxmoxDiskAllocationBytes(bytes) \in 0..MaxInt
         /\ ProxmoxDiskAllocationBytes(bytes) =
              CHOOSE n \in bytes .. bytes + GiB : n % GiB = 0 /\ n < bytes + GiB
<1>1. MaxInt \in Nat /\ GiB \in 1..MaxInt /\ GiB \in Nat /\ GiB > 0
  BY StoragePreflightAssumption
<1> DEFINE gib == ProxmoxDiskAllocationGiB(bytes)
           P(n) == n % GiB = 0 /\ n < bytes + GiB
<1>2. gib # Error /\ gib <= MaxInt \div GiB
      /\ ProxmoxDiskAllocationBytes(bytes) = gib * GiB
  <2>1. gib = Error \/ gib \in Nat
    BY <1>1 DEF ProxmoxDiskAllocationGiB
  <2>2. MaxInt \div GiB \in Int
    BY <1>1
  <2> QED
    BY <2>1, <2>2 DEF ProxmoxDiskAllocationBytes
<1>3. bytes > 0
  BY <1>2 DEF ProxmoxDiskAllocationGiB
<1>4. /\ bytes \div GiB \in Nat /\ bytes % GiB \in Nat /\ bytes % GiB < GiB
      /\ bytes = (bytes \div GiB) * GiB + (bytes % GiB)
  BY <1>1
<1>5. gib \in Nat /\ gib * GiB >= bytes /\ gib * GiB < bytes + GiB
  <2>1. CASE bytes % GiB = 0
    BY <2>1, <1>1, <1>3, <1>4 DEF ProxmoxDiskAllocationGiB
  <2>2. CASE bytes % GiB # 0
    <3>1. gib = bytes \div GiB + 1
      BY <2>2, <1>3 DEF ProxmoxDiskAllocationGiB
    <3>2. gib * GiB = (bytes \div GiB) * GiB + GiB
      BY <3>1, <1>1, <1>4
    <3> QED
      BY <2>2, <3>1, <3>2, <1>1, <1>4
  <2> QED
    BY <2>1, <2>2
<1>6. gib * GiB \in bytes .. bytes + GiB /\ P(gib * GiB)
  <2> HIDE DEF gib
  <2>1. gib \in Nat /\ (gib * GiB) % GiB = 0
    BY <1>1, <1>5
  <2> QED
    BY <2>1, <1>1, <1>5
<1>7. \A n \in bytes .. bytes + GiB : P(n) => n = gib * GiB
  BY <1>1, <1>5, <1>6, MultiplesApart
<1>8. gib * GiB = CHOOSE n \in bytes .. bytes + GiB : P(n)
  BY <1>6, <1>7
<1>9. gib * GiB \in Nat /\ gib * GiB <= MaxInt
  BY <1>1, <1>2, <1>5
<1> QED
  BY <1>2, <1>8, <1>9, <1>1

-----------------------------------------------------------------------------
(* What a storage must take.                                               *)

\* The parts of a build are what its type says.
LEMMA BuildParts ==
  ASSUME build \in Builds
  PROVE  /\ build.iso \in 0..MaxInt /\ build.iso \in Nat /\ MaxInt \in Nat
         /\ build.isoStorage \in Storages /\ build.diskStorage \in Storages
         /\ build.value \in Values /\ build.multiplier \in Multipliers
         /\ build.value \in Nat /\ build.multiplier \in Nat
         /\ build.efi \in Nat /\ build.cloudInit \in Nat
<1>1. /\ build.iso \in ISOSizes /\ build.value \in Values
      /\ build.multiplier \in Multipliers
      /\ build.isoStorage \in Storages /\ build.diskStorage \in Storages
      /\ build.efi \in {0, SmallDisk} /\ build.cloudInit \in {0, SmallDisk}
  BY DEF Builds
<1>2. /\ MaxInt \in Nat /\ SmallDisk \in Nat /\ ISOSizes \subseteq 0..MaxInt
      /\ Values \subseteq 0..MaxInt /\ Multipliers \subseteq 1..MaxInt
  BY StoragePreflightAssumption
<1>3. build.value \in 0..MaxInt /\ build.multiplier \in 1..MaxInt /\ build.iso \in 0..MaxInt
  BY <1>1, <1>2
<1> QED
  BY <1>1, <1>2, <1>3

\* The sums of a storage that already has some bytes, a disk with its EFI disk
\* and maybe a Cloud-Init drive are the real ones or less.
SumsDown(before, disk, efi, drive) ==
  LET sum == Wrap(before + Wrap(disk + efi))
      whole == before + disk + efi
  IN  /\ sum \in Int /\ sum <= whole
      /\ whole <= MaxInt => sum = whole
      /\ Wrap(sum + drive) \in Int /\ Wrap(sum + drive) <= whole + drive
      /\ whole + drive <= MaxInt => Wrap(sum + drive) = whole + drive

\* The sums of Requirements for a disk of some bytes: each addend is a number,
\* so that a sum can only wrap downwards, and does not if all of it is an integer.
LEMMA SumsWrapDown ==
  ASSUME NEW before \in 0..MaxInt, NEW disk \in Nat, NEW efi \in Nat, NEW drive \in Nat
  PROVE  SumsDown(before, disk, efi, drive)
<1> DEFINE inner == Wrap(disk + efi)
           sum == Wrap(before + inner)
           whole == before + disk + efi
<1>1. MaxInt \in Nat
  BY StoragePreflightAssumption
<1>2. /\ inner \in Int /\ inner >= -MaxInt - 1 /\ inner <= disk + efi
      /\ disk + efi <= MaxInt => inner = disk + efi
  <2>1. disk + efi \in Int /\ disk + efi >= -MaxInt - 1
    BY <1>1
  <2> QED
    BY <2>1, <1>1, WrapKeeps
<1> HIDE DEF inner
<1>3. /\ sum \in Int /\ sum >= -MaxInt - 1 /\ sum <= before + inner
      /\ before + inner <= MaxInt => sum = before + inner
  <2>1. before + inner \in Int /\ before + inner >= -MaxInt - 1
    BY <1>1, <1>2
  <2> QED
    BY <2>1, <1>1, WrapKeeps
<1> HIDE DEF sum
<1>4. /\ Wrap(sum + drive) \in Int /\ Wrap(sum + drive) <= sum + drive
      /\ sum + drive <= MaxInt => Wrap(sum + drive) = sum + drive
  <2>1. sum + drive \in Int /\ sum + drive >= -MaxInt - 1
    BY <1>1, <1>3
  <2> QED
    BY <2>1, <1>1, WrapKeeps
<1>5. /\ sum <= whole /\ (whole <= MaxInt => sum = whole)
      /\ Wrap(sum + drive) <= whole + drive
      /\ whole + drive <= MaxInt => Wrap(sum + drive) = whole + drive
  BY <1>1, <1>2, <1>3, <1>4
<1> QED
  BY <1>3, <1>4, <1>5 DEF SumsDown, inner, sum

\* addStorageRequirement adds to one storage and leaves the others alone.
LEMMA RequirementAdded ==
  ASSUME NEW r \in [Storages -> [content : SUBSET Contents, bytes : Int]],
         NEW storage \in Storages, NEW kind \in Contents, NEW bytes \in Int,
         Wrap(r[storage].bytes + bytes) \in Int
  PROVE  LET added == AddStorageRequirement(r, storage, kind, bytes)
         IN  /\ added \in [Storages -> [content : SUBSET Contents, bytes : Int]]
             /\ added[storage].content = r[storage].content \cup {kind}
             /\ added[storage].bytes = Wrap(r[storage].bytes + bytes)
             /\ \A s \in Storages \ {storage} : added[s] = r[s]
<1> DEFINE entry == [content |-> r[storage].content \cup {kind},
                     bytes |-> Wrap(r[storage].bytes + bytes)]
           added == AddStorageRequirement(r, storage, kind, bytes)
<1>1. added = [r EXCEPT ![storage] = entry]
  BY DEF AddStorageRequirement
<1>2. entry \in [content : SUBSET Contents, bytes : Int]
  <2>1. r[storage].content \cup {kind} \in SUBSET Contents
    OBVIOUS
  <2> HIDE DEF entry
  <2> QED
    BY <2>1 DEF entry
<1> HIDE DEF entry, added
<1>3. /\ added \in [Storages -> [content : SUBSET Contents, bytes : Int]]
      /\ added[storage] = entry
      /\ \A s \in Storages \ {storage} : added[s] = r[s]
  BY <1>1, <1>2
<1> QED
  BY <1>3 DEF entry, added

\* After AddRequirements: each storage of the build has the contents it will
\* hold, and the sum of what it will take.
LEMMA RequirementsAreNeeds ==
  ASSUME build \in Builds, NEW disk \in 0..MaxInt, disk = DiskNeed
  PROVE  /\ Requirements(disk) \in [Storages -> [content : SUBSET Contents, bytes : Int]]
         /\ \A s \in Targets :
              LET r == Requirements(disk)[s]
              IN  /\ r.content = Holds(s) /\ r.bytes <= Need(s)
                  /\ Need(s) <= MaxInt => r.bytes = Need(s)
<1> DEFINE R == [Storages -> [content : SUBSET Contents, bytes : Int]]
           i == build.isoStorage
           d == build.diskStorage
           inner == Wrap(disk + build.efi)
           r1 == AddStorageRequirement(NoRequirements, i, "iso", build.iso)
           r2 == AddStorageRequirement(r1, d, "images", inner)
           r3 == AddStorageRequirement(r2, d, "images", build.cloudInit)
           before == IF i = d THEN build.iso ELSE 0
           sum == Wrap(before + inner)
           whole == before + disk + build.efi
<1>1. /\ MaxInt \in Nat /\ i \in Storages /\ d \in Storages /\ build.iso \in 0..MaxInt
      /\ build.efi \in Nat /\ build.cloudInit \in Nat /\ disk \in Nat
      /\ before \in 0..MaxInt
  BY BuildParts
<1>2. Requirements(disk) = IF build.cloudInit = 0 THEN r2 ELSE r3
  BY DEF Requirements
<1>3. /\ sum \in Int /\ sum <= whole /\ (whole <= MaxInt => sum = whole)
      /\ Wrap(sum + build.cloudInit) \in Int
      /\ Wrap(sum + build.cloudInit) <= whole + build.cloudInit
      /\ whole + build.cloudInit <= MaxInt
           => Wrap(sum + build.cloudInit) = whole + build.cloudInit
  <2> HIDE DEF before
  <2>1. SumsDown(before, disk, build.efi, build.cloudInit)
    BY <1>1, SumsWrapDown
  <2> QED
    BY <2>1 DEF SumsDown
<1>4. inner \in Int /\ Wrap(build.iso) = build.iso
  <2>1. disk + build.efi \in Int /\ disk + build.efi >= -MaxInt - 1
    BY <1>1
  <2>2. build.iso \in Int /\ build.iso >= -MaxInt - 1 /\ build.iso <= MaxInt
    BY <1>1
  <2> QED
    BY <2>1, <2>2, <1>1, WrapKeeps
<1> HIDE DEF inner
<1>5. r1 \in R /\ r1[i] = [content |-> {"iso"}, bytes |-> build.iso]
      /\ \A s \in Storages \ {i} : r1[s] = [content |-> {}, bytes |-> 0]
  <2>1. NoRequirements \in R /\ NoRequirements[i].bytes = 0 /\ NoRequirements[i].content = {}
        /\ \A s \in Storages : NoRequirements[s] = [content |-> {}, bytes |-> 0]
    BY <1>1 DEF NoRequirements
  <2>2. 0 + build.iso = build.iso /\ build.iso \in Int
    BY <1>1
  <2>3. r1[i].content = {"iso"} /\ r1[i].bytes = build.iso /\ r1 \in R
        /\ \A s \in Storages \ {i} : r1[s] = NoRequirements[s]
    BY <2>1, <2>2, <1>1, <1>4, RequirementAdded DEF Contents
  <2>4. r1[i] \in [content : SUBSET Contents, bytes : Int]
    BY <2>3, <1>1
  <2> HIDE DEF r1
  <2> QED
    BY <2>1, <2>3, <2>4
<1> HIDE DEF r1
<1>6. /\ r2 \in R /\ r2[d].content = r1[d].content \cup {"images"} /\ r2[d].bytes = sum
      /\ \A s \in Storages \ {d} : r2[s] = r1[s]
  <2>1. r1[d].bytes = before
    BY <1>1, <1>5
  <2>2. Wrap(r1[d].bytes + inner) = sum /\ sum \in Int
    BY <2>1, <1>3
  <2> HIDE DEF before, sum
  <2> QED
    BY <2>2, <1>1, <1>4, <1>5, RequirementAdded DEF Contents
<1> HIDE DEF r2
<1>7. /\ r3 \in R /\ r3[d].content = r2[d].content \cup {"images"}
      /\ r3[d].bytes = Wrap(sum + build.cloudInit)
      /\ \A s \in Storages \ {d} : r3[s] = r2[s]
  <2> HIDE DEF sum
  <2>1. build.cloudInit \in Int
    BY <1>1
  <2> QED
    BY <2>1, <1>1, <1>3, <1>6, RequirementAdded DEF Contents
<1> HIDE DEF r3, sum
<1>8. /\ Need(d) = whole + build.cloudInit
      /\ Holds(d) = r1[d].content \cup {"images"}
      /\ i # d => Need(i) = build.iso /\ Holds(i) = {"iso"}
  <2>1. Need(d) = whole + build.cloudInit /\ (i # d => Need(i) = build.iso)
    <3> HIDE DEF i, d
    <3>1. disk \in Int /\ build.efi \in Int /\ build.cloudInit \in Int /\ build.iso \in Int
      BY <1>1
    <3> HIDE DEF whole
    <3> QED
      BY <3>1 DEF Need, whole, before, i, d
  <2>2. Holds(d) = r1[d].content \cup {"images"} /\ (i # d => Holds(i) = {"iso"})
    BY <1>1, <1>5 DEF Holds
  <2> QED
    BY <2>1, <2>2
<1> DEFINE r == Requirements(disk)
<1>9. /\ r \in R /\ r[d].content = Holds(d) /\ r[d].bytes <= Need(d)
      /\ Need(d) <= MaxInt => r[d].bytes = Need(d)
  <2> HIDE DEF whole
  <2>1. CASE build.cloudInit = 0
    <3>1. whole \in Int /\ whole + build.cloudInit = whole
      BY <2>1, <1>1 DEF whole
    <3> QED
      BY <2>1, <3>1, <1>2, <1>3, <1>6, <1>8
  <2>2. CASE build.cloudInit # 0
    BY <2>2, <1>2, <1>3, <1>6, <1>7, <1>8
  <2> QED
    BY <2>1, <2>2
<1>10. ASSUME i # d
       PROVE  r[i].content = Holds(i) /\ r[i].bytes = Need(i) /\ Need(i) \in Int
  <2>1. r[i] = r1[i]
    BY <1>1, <1>2, <1>6, <1>7, <1>10
  <2> QED
    BY <2>1, <1>1, <1>5, <1>8, <1>10
<1>11. ASSUME NEW s \in Targets
       PROVE  /\ r[s].content = Holds(s) /\ r[s].bytes <= Need(s)
              /\ Need(s) <= MaxInt => r[s].bytes = Need(s)
  <2>1. s = i \/ s = d
    BY DEF Targets
  <2> HIDE DEF r, i, d
  <2>2. CASE s = d
    BY <2>2, <1>9
  <2>3. CASE s = i /\ i # d
    BY <2>3, <1>10
  <2> QED
    BY <2>1, <2>2, <2>3
<1> QED
  BY <1>9, <1>11

-----------------------------------------------------------------------------
(* The invariant.                                                          *)

\* Nothing is summed and nothing was read at the start.
LEMMA PreflightInit == Init => PreflightInv
<1> SUFFICES ASSUME Init
             PROVE  PreflightInv
  OBVIOUS
<1>1. required \in [Storages -> [content : SUBSET Contents, bytes : Int]]
  BY DEF Init, NoRequirements
<1>2. seen \in [Storages -> SUBSET Statuses]
  BY DEF Init
<1> QED
  BY <1>1, <1>2
     DEF Init, PreflightInv, TypeInv, NeedInv, LookInv, RefuseInv, Summed, Targets

\* What a build needs does not change while its storages are looked at.
LEMMA NeedsStay ==
  ASSUME build' = build
  PROVE  /\ Targets' = Targets /\ DiskNeed' = DiskNeed
         /\ \A s : Need(s)' = Need(s) /\ Holds(s)' = Holds(s)
  BY DEF Targets, Need, Holds, DiskNeed

\* AddRequirements gives up, or sums what DiskNeed and the rest come to.
LEMMA AddRequirementsStep == PreflightInv /\ AddRequirements => PreflightInv'
<1> SUFFICES ASSUME PreflightInv, AddRequirements
             PROVE  PreflightInv'
  OBVIOUS
<1> DEFINE bytes == ParseDiskSize(build.value, build.multiplier)
           disk == ProxmoxDiskAllocationBytes(bytes)
<1>1. /\ build' = build /\ seen' = seen /\ pc = "size"
      /\ \/ pc' = "failed" /\ required' = required /\ todo' = todo
         \/ /\ bytes # Error /\ disk # Error /\ pc' = "check"
            /\ required' = Requirements(disk)
            /\ todo' = {build.isoStorage, build.diskStorage}
  BY DEF AddRequirements
<1> HIDE DEF bytes, disk
<1>2. CASE pc' = "failed"
  BY <1>1, <1>2 DEF PreflightInv, TypeInv, NeedInv, LookInv, RefuseInv, Summed, Targets
<1>3. CASE pc' # "failed"
  <2>1. /\ bytes # Error /\ disk # Error /\ pc' = "check"
        /\ required' = Requirements(disk) /\ todo' = Targets
    BY <1>1, <1>3 DEF Targets
  <2>2. build \in Builds
    BY DEF PreflightInv, TypeInv
  <2>3. bytes = build.value * build.multiplier /\ bytes \in 0..MaxInt /\ bytes \in Nat
    <3>1. bytes = build.value * build.multiplier /\ bytes \in 0..MaxInt
      BY <2>1, <2>2, BuildParts, ParsedSize DEF bytes
    <3> QED
      BY <3>1
  <2>4. disk \in 0..MaxInt /\ disk = DiskNeed
    <3>1. /\ disk \in 0..MaxInt
          /\ disk = CHOOSE n \in bytes .. bytes + GiB : n % GiB = 0 /\ n < bytes + GiB
      BY <2>1, <2>3, AllocatedSize DEF disk
    <3>2. DiskNeed = CHOOSE n \in bytes .. bytes + GiB : n % GiB = 0 /\ n < bytes + GiB
      BY <2>3 DEF DiskNeed
    <3> QED
      BY <3>1, <3>2
  <2>5. /\ required' \in [Storages -> [content : SUBSET Contents, bytes : Int]]
        /\ \A s \in Targets :
             /\ required'[s].content = Holds(s) /\ required'[s].bytes <= Need(s)
             /\ Need(s) <= MaxInt => required'[s].bytes = Need(s)
    BY <2>1, <2>2, <2>4, RequirementsAreNeeds
  <2>6. TypeInv'
    BY <1>1, <2>1, <2>5, NeedsStay DEF PreflightInv, TypeInv, Summed
  <2>7. NeedInv'
    BY <1>1, <2>1, <2>4, <2>5, NeedsStay DEF NeedInv
  <2>8. LookInv' /\ RefuseInv'
    BY <1>1, <2>1, NeedsStay DEF LookInv, RefuseInv
  <2> QED
    BY <2>6, <2>7, <2>8 DEF PreflightInv
<1> QED
  BY <1>2, <1>3

\* CheckStorage reads one of the storages that the build uses.
LEMMA NextStorage ==
  ASSUME TypeInv, todo # {}
  PROVE  Min(todo) \in todo /\ Min(todo) \in Storages
<1>1. todo \subseteq {build.isoStorage, build.diskStorage}
      /\ build.isoStorage \in Storages /\ build.diskStorage \in Storages
  BY BuildParts DEF TypeInv, Targets
<1>2. Storages \subseteq Nat
  BY StoragePreflightAssumption
<1>3. \E x \in todo : \A y \in todo : x <= y
  <2> DEFINE i == build.isoStorage
             d == build.diskStorage
  <2>1. i \in Nat /\ d \in Nat /\ todo \subseteq {i, d}
    BY <1>1, <1>2
  <2> HIDE DEF i, d
  <2>2. CASE i \in todo /\ d \in todo
    BY <2>1, <2>2
  <2>3. CASE i \notin todo \/ d \notin todo
    <3>1. PICK x \in todo : TRUE
      OBVIOUS
    <3>2. \A y \in todo : y = x
      BY <2>1, <2>3, <3>1
    <3> QED
      BY <2>1, <3>1, <3>2
  <2> QED
    BY <2>2, <2>3
<1>4. Min(todo) \in todo
  BY <1>3 DEF Min
<1> QED
  BY <1>1, <1>4

\* A status that passes strikes the storage off the list, one that does not is
\* the cause of the refusal.
LEMMA CheckStorageStep == PreflightInv /\ CheckStorage => PreflightInv'
<1> SUFFICES ASSUME PreflightInv, CheckStorage
             PROVE  PreflightInv'
  OBVIOUS
<1> DEFINE storage == Min(todo)
<1>1. /\ build' = build /\ required' = required /\ pc = "check" /\ todo # {}
      /\ storage \in todo /\ storage \in Storages
      /\ \/ pc' = "failed" /\ todo' = todo /\ seen' = seen
         \/ \E status \in Statuses :
              /\ seen' = [seen EXCEPT ![storage] = {status}]
              /\ todo' = todo \ {storage}
              /\ pc' = IF ValidateStorageStatus(required[storage], status)
                         THEN pc ELSE "refused"
  BY NextStorage DEF CheckStorage, PreflightInv
<1> HIDE DEF storage
<1>2. CASE pc' = "failed" /\ todo' = todo /\ seen' = seen
  BY <1>1, <1>2 DEF PreflightInv, TypeInv, NeedInv, LookInv, RefuseInv, Summed, Targets
<1>3. ASSUME NEW status \in Statuses,
             seen' = [seen EXCEPT ![storage] = {status}],
             todo' = todo \ {storage},
             pc' = IF ValidateStorageStatus(required[storage], status)
                     THEN pc ELSE "refused"
      PROVE  PreflightInv'
  <2>1. /\ seen'[storage] = {status}
        /\ \A s \in Storages \ {storage} : seen'[s] = seen[s]
        /\ seen' \in [Storages -> SUBSET Statuses]
    BY <1>1, <1>3 DEF PreflightInv, TypeInv
  <2>2. pc' \in {"check", "refused"} /\ pc' \in Summed
    BY <1>1, <1>3 DEF Summed
  <2>3. TypeInv'
    BY <1>1, <1>3, <2>1, <2>2, NeedsStay DEF PreflightInv, TypeInv
  <2>4. NeedInv'
    BY <1>1, <2>2, NeedsStay DEF PreflightInv, NeedInv, Summed
  <2>5. storage \in Targets /\ Targets \subseteq Storages /\ Targets' = Targets
    BY <1>1, BuildParts, NeedsStay DEF PreflightInv, TypeInv, Targets
  <2>6. LookInv'
    <3> SUFFICES ASSUME pc' = "check", NEW s \in Targets, s \notin todo'
                 PROVE  \E u \in seen'[s] : ValidateStorageStatus(required[s], u)
      BY <1>1, <2>2, <2>5 DEF LookInv, ValidateStorageStatus
    <3>1. CASE s = storage
      BY <3>1, <1>1, <1>3, <2>1
    <3>2. CASE s # storage
      <4>1. \E u \in seen[s] : ValidateStorageStatus(required[s], u)
        BY <3>2, <1>1, <1>3 DEF PreflightInv, LookInv
      <4> QED
        BY <3>2, <4>1, <2>1, <2>5
    <3> QED
      BY <3>1, <3>2
  <2>7. RefuseInv'
    <3> SUFFICES ASSUME pc' = "refused"
                 PROVE  \E s \in Targets :
                          \E u \in seen'[s] : ~ValidateStorageStatus(required[s], u)
      BY <1>1, <2>5 DEF RefuseInv, ValidateStorageStatus
    <3>1. ~ValidateStorageStatus(required[storage], status)
      BY <1>1, <1>3
    <3> QED
      BY <3>1, <2>1, <2>5
  <2> QED
    BY <2>3, <2>4, <2>6, <2>7 DEF PreflightInv
<1> QED
  BY <1>1, <1>2, <1>3

\* Every step keeps the invariant.
LEMMA PreflightStep == PreflightInv /\ [Next]_vars => PreflightInv'
<1> SUFFICES ASSUME PreflightInv, [Next]_vars
             PROVE  PreflightInv'
  OBVIOUS
<1>1. CASE StatISO
  BY <1>1 DEF StatISO, PreflightInv, TypeInv, NeedInv, LookInv, RefuseInv, Summed, Targets
<1>2. CASE AddRequirements
  BY <1>2, AddRequirementsStep
<1>3. CASE CheckStorage
  BY <1>3, CheckStorageStep
<1>4. ASSUME Accept \/ UNCHANGED vars
      PROVE  PreflightInv'
  <2>1. /\ build' = build /\ required' = required /\ todo' = todo /\ seen' = seen
        /\ pc' = pc \/ (pc = "check" /\ pc' = "accepted" /\ todo = {})
    BY <1>4 DEF Accept, vars
  <2>2. Targets' = Targets /\ DiskNeed' = DiskNeed
        /\ \A s : Need(s)' = Need(s) /\ Holds(s)' = Holds(s)
    BY <2>1, NeedsStay
  <2>3. TypeInv' /\ NeedInv'
    BY <2>1, <2>2 DEF PreflightInv, TypeInv, NeedInv, Summed
  <2>4. LookInv' /\ RefuseInv'
    BY <2>1, <2>2 DEF PreflightInv, LookInv, RefuseInv, ValidateStorageStatus
  <2> QED
    BY <2>3, <2>4 DEF PreflightInv
<1> QED
  BY <1>1, <1>2, <1>3, <1>4 DEF Next

-----------------------------------------------------------------------------
(* The theorems.                                                           *)

\* The strengthening: sums that are the real ones or less, and the statuses that
\* were read since.
THEOREM PreflightInvariant == Spec => []PreflightInv
  BY PreflightInit, PreflightStep, PTL DEF Spec

\* What a build puts on a storage of its own is a number of bytes of some kind.
LEMMA NeedIsNatural ==
  ASSUME PreflightInv, pc \in Summed, NEW s \in Targets
  PROVE  Need(s) \in Nat /\ Holds(s) # {} /\ s \in Storages
<1>1. /\ build.iso \in Nat /\ build.efi \in Nat /\ build.cloudInit \in Nat
      /\ build.isoStorage \in Storages /\ build.diskStorage \in Storages
  BY BuildParts DEF PreflightInv, TypeInv
<1>2. DiskNeed \in Nat
  BY StoragePreflightAssumption DEF PreflightInv, NeedInv
<1>3. s = build.isoStorage \/ s = build.diskStorage
  BY DEF Targets
<1>4. Need(s) \in Nat
  <2> DEFINE x == IF s = build.isoStorage THEN build.iso ELSE 0
             y == IF s = build.diskStorage THEN DiskNeed + build.efi + build.cloudInit
                  ELSE 0
  <2>1. x \in Nat /\ y \in Nat
    BY <1>1, <1>2
  <2>2. Need(s) = x + y
    BY DEF Need
  <2> HIDE DEF x, y
  <2> QED
    BY <2>1, <2>2
<1>5. Holds(s) # {}
  BY <1>3 DEF Holds
<1> QED
  BY <1>1, <1>3, <1>4, <1>5

\* A build that was accepted fits, for every range of integers: as long as the
\* sum for a storage is an integer, the storage was looked at and has room for
\* all that the build puts there.
THEOREM AcceptedFits == Spec => []AcceptedBuildFits
<1>1. PreflightInv => AcceptedBuildFits
  <2> SUFFICES ASSUME PreflightInv, pc = "accepted", NEW s \in Targets, Need(s) <= MaxInt
               PROVE  \E status \in seen[s] : Fits(s, status)
    BY DEF AcceptedBuildFits, Targets
  <2>1. pc \in Summed /\ Need(s) \in Nat /\ Holds(s) # {} /\ s \in Storages
    BY NeedIsNatural DEF Summed
  <2>2. required[s].content = Holds(s) /\ required[s].bytes = Need(s)
    BY <2>1 DEF PreflightInv, NeedInv
  <2>3. PICK status \in seen[s] : ValidateStorageStatus(required[s], status)
    BY DEF PreflightInv, LookInv
  <2>4. Fits(s, status)
    BY <2>2, <2>3 DEF ValidateStorageStatus, Fits
  <2> QED
    BY <2>4
<1> QED
  BY <1>1, PreflightInvariant, PTL

\* The preflight refuses for a cause, even if a sum wrapped: the storage whose
\* status did not pass lacks what the build needs of it.
THEOREM RefusalHasCause == Spec => []RefusedForCause
<1>1. PreflightInv => RefusedForCause
  <2> SUFFICES ASSUME PreflightInv, pc = "refused"
               PROVE  \E s \in Storages : \E status \in seen[s] : ~Fits(s, status)
    BY DEF RefusedForCause
  <2>1. PICK s \in Targets :
          \E status \in seen[s] : ~ValidateStorageStatus(required[s], status)
    BY DEF PreflightInv, RefuseInv
  <2>2. PICK status \in seen[s] : ~ValidateStorageStatus(required[s], status)
    BY <2>1
  <2>3. pc \in Summed /\ Need(s) \in Nat /\ Holds(s) # {} /\ s \in Storages
    BY NeedIsNatural DEF Summed
  <2>4. /\ required[s].content = Holds(s) /\ required[s].bytes <= Need(s)
        /\ required[s].bytes \in Int
    BY <2>3 DEF PreflightInv, NeedInv, TypeInv
  <2>5. status.avail \in Int
    <3>1. status \in Statuses
      BY <2>3 DEF PreflightInv, TypeInv
    <3>2. {Error} \cup (0 .. MaxInt) \subseteq Int
      BY StoragePreflightAssumption DEF Error
    <3> QED
      BY <3>1, <3>2 DEF Statuses
  <2>6. ~Fits(s, status)
    <3> SUFFICES ASSUME Fits(s, status)
                 PROVE  ValidateStorageStatus(required[s], status)
      BY <2>2
    <3>1. /\ status.usable /\ Holds(s) \subseteq status.content
          /\ status.avail >= Need(s)
      BY <2>3 DEF Fits
    <3>2. status.avail # Error /\ status.avail >= required[s].bytes
      BY <3>1, <2>3, <2>4, <2>5 DEF Error
    <3> QED
      BY <3>1, <3>2, <2>3, <2>4 DEF ValidateStorageStatus
  <2> QED
    BY <2>3, <2>6
<1> QED
  BY <1>1, PreflightInvariant, PTL
=============================================================================
