------------------------------ MODULE IsoCache ------------------------------
(***************************************************************************)
(* The ISO cache of cmd/e2e-matrix/main.go: prepareISOs and downloadFile,  *)
(* by harness processes that share one iso_dir and know nothing of each    *)
(* other.  A download goes to <name>.part, which is opened by name and     *)
(* truncated, written through the descriptor, and renamed by name: the     *)
(* names and the descriptors need not mean the same file.  Every harness   *)
(* has a --config of its own, so that two may list one file name with      *)
(* different URLs and SHA256s.  A harness may be killed and started again  *)
(* at any point.                                                           *)
(***************************************************************************)
EXTENDS Naturals, FiniteSets, Sequences

CONSTANTS
  Harnesses,    \* the processes
  NumNames,     \* file names that ISOs may have
  NumSources,   \* ISOs that URLs may lead to
  Configs,      \* values of ubuntu_versions: per version the name of its file,
                \* the source of its URL, and the one of its SHA256 or 0
  Chunks,       \* bound: the pieces in which a file arrives
  MaxKills      \* bound: how often a harness is killed

VARIABLES
  config,      \* the versions of each harness
  place,       \* where each harness is in prepareISOs
  ver,         \* the version it is at
  fd,          \* the file it has open for writing, 0 without one
  received,    \* the chunks it wrote there
  iso,         \* the file behind each <name>, 0 without one
  part,        \* the file behind each <name>.part
  content,     \* per file and chunk the source it is from, 0 for none
  replaced,    \* history: the names whose ISO a different one replaced
  overlapped,  \* history: a download began while another one wrote its .part
  kills        \* harnesses killed so far

disk == <<iso, part, content, replaced>>
vars == <<config, place, ver, fd, received, disk, overlapped, kills>>

Names == 1..NumNames
Sources == 1..NumSources

\* Each name, each .part and each descriptor may be a file of its own.
Files == 1..(2 * NumNames + Cardinality(Harnesses))

Empty == [k \in 1..Chunks |-> 0]
Whole(source) == [k \in 1..Chunks |-> source]

Downloading == {"copy", "publish"}
Idle == {"ready", "failed"}
Places == {"stat", "request", "open", "verify"} \cup Downloading \cup Idle

\* The version that h is at, and isoFileName of it.
Version(h) == config[h][ver[h]]
NameOf(h) == Version(h).name

Goto(h, p) == place' = [place EXCEPT ![h] = p]

-----------------------------------------------------------------------------
(* prepareISOs                                                             *)

\* Any step may also end with the error of its system call or request.
Fails(h) ==
  /\ \/ place[h] \in {"stat", "request", "open", "publish"}
     \/ place[h] = "verify" /\ Version(h).sha # 0
  /\ Goto(h, "failed")
  /\ UNCHANGED <<config, ver, fd, received, disk, overlapped, kills>>

Stat(h) ==
  /\ place[h] = "stat"
  /\ Goto(h, IF iso[NameOf(h)] # 0 THEN "verify" ELSE "request")
  /\ UNCHANGED <<config, ver, fd, received, disk, overlapped, kills>>

\* The server's header; there is no timeout.
Request(h) ==
  /\ place[h] = "request"
  /\ Goto(h, "open")
  /\ UNCHANGED <<config, ver, fd, received, disk, overlapped, kills>>

InUse == {iso[n] : n \in Names} \cup {part[n] : n \in Names}
           \cup {fd[h] : h \in Harnesses}

\* A file with neither a name nor a descriptor is gone.
Retain(contents) ==
  content' = [f \in Files |-> IF f \in InUse' THEN contents[f] ELSE Empty]

NewFile == CHOOSE f \in Files : f \notin InUse

\* os.OpenFile(O_CREATE|O_WRONLY|O_TRUNC)
OpenPart(h) ==
  /\ place[h] = "open"
  /\ Goto(h, "copy")
  /\ LET old == part[NameOf(h)]
         file == IF old # 0 THEN old ELSE NewFile
     IN  /\ fd' = [fd EXCEPT ![h] = file]
         /\ part' = [part EXCEPT ![NameOf(h)] = file]
         /\ UNCHANGED <<iso, replaced>>
         /\ Retain([content EXCEPT ![file] = Empty])
  /\ overlapped' = (overlapped \/ \E g \in Harnesses :
                      place[g] \in Downloading /\ NameOf(g) = NameOf(h))
  /\ UNCHANGED <<config, ver, received, kills>>

\* io.Copy: the next bytes, at this descriptor's own offset.
Receive(h) ==
  /\ place[h] = "copy" /\ received[h] < Chunks
  /\ received' = [received EXCEPT ![h] = @ + 1]
  /\ content' = [content EXCEPT ![fd[h]][received[h] + 1] = Version(h).source]
  /\ UNCHANGED <<config, place, ver, fd, iso, part, replaced, overlapped, kills>>

\* Mutant: an early end of the body counts as its end.
CopyEndsEarly(h) == TRUE

\* The body has come to its end.
CopyIsWhole(h) == received[h] = Chunks

Close(h) ==
  /\ place[h] = "copy" /\ CopyIsWhole(h)
  /\ Goto(h, "publish")
  /\ fd' = [fd EXCEPT ![h] = 0] /\ received' = [received EXCEPT ![h] = 0]
  /\ UNCHANGED <<config, ver, iso, part, replaced, overlapped, kills>>
  /\ Retain(content)

\* The connection breaks, the context is done, or a write or the Close fails:
\* the .part is removed by its name.
CopyFails(h) ==
  /\ place[h] = "copy"
  /\ Goto(h, "failed")
  /\ fd' = [fd EXCEPT ![h] = 0] /\ received' = [received EXCEPT ![h] = 0]
  /\ part' = [part EXCEPT ![NameOf(h)] = 0]
  /\ UNCHANGED <<config, ver, iso, replaced, overlapped, kills>>
  /\ Retain(content)

\* os.Rename, of whatever has the name now.
Publish(h) ==
  /\ place[h] = "publish"
  /\ LET name == NameOf(h) IN
       IF part[name] = 0 THEN Goto(h, "failed") /\ UNCHANGED <<iso, part, replaced>>
       ELSE /\ Goto(h, "verify")
            /\ iso' = [iso EXCEPT ![name] = part[name]]
            /\ part' = [part EXCEPT ![name] = 0]
            /\ replaced' = IF iso[name] # 0 /\ content[iso[name]] # content[part[name]]
                             THEN replaced \cup {name} ELSE replaced
  /\ UNCHANGED <<config, ver, fd, received, overlapped, kills>>
  /\ Retain(content)

\* Mutant: the digest decides only whether there is a warning.
MatchesAnything(h) == TRUE

\* verifySHA256, where there is a SHA256.
Matches(h) ==
  Version(h).sha # 0 => content[iso[NameOf(h)]] = Whole(Version(h).sha)

Verify(h) ==
  /\ place[h] = "verify"
  /\ IF Matches(h) /\ ver[h] < Len(config[h])
       THEN Goto(h, "stat") /\ ver' = [ver EXCEPT ![h] = @ + 1]
       ELSE Goto(h, IF Matches(h) THEN "ready" ELSE "failed") /\ UNCHANGED ver
  /\ UNCHANGED <<config, fd, received, disk, overlapped, kills>>

\* The process is killed and the harness started again.
Kill(h) ==
  /\ place[h] \notin Idle /\ kills < MaxKills
  /\ kills' = kills + 1
  /\ Goto(h, "stat")
  /\ ver' = [ver EXCEPT ![h] = 1]
  /\ fd' = [fd EXCEPT ![h] = 0]
  /\ received' = [received EXCEPT ![h] = 0]
  /\ UNCHANGED <<config, iso, part, replaced, overlapped>>
  /\ Retain(content)

-----------------------------------------------------------------------------

Init ==
  /\ config \in [Harnesses -> Configs]
  /\ place = [h \in Harnesses |-> "stat"]
  /\ ver = [h \in Harnesses |-> 1]
  /\ fd = [h \in Harnesses |-> 0] /\ received = [h \in Harnesses |-> 0]
  /\ iso = [n \in Names |-> 0] /\ part = [n \in Names |-> 0]
  /\ content = [f \in Files |-> Empty] /\ replaced = {}
  /\ overlapped = FALSE /\ kills = 0

\* What goes on without an answer of the server.
Proceed(h) ==
  Stat(h) \/ OpenPart(h) \/ Close(h) \/ Publish(h) \/ Verify(h)

Step(h) ==
  Proceed(h) \/ Fails(h) \/ Request(h) \/ Receive(h) \/ CopyFails(h)

\* Bound: the cache is not followed any further.
Forget ==
  /\ config' = [h \in Harnesses |-> CHOOSE c \in Configs : TRUE]
  /\ place' = [h \in Harnesses |-> "ready"]
  /\ ver' = [h \in Harnesses |-> 1]
  /\ fd' = [h \in Harnesses |-> 0] /\ received' = [h \in Harnesses |-> 0]
  /\ iso' = [n \in Names |-> 0] /\ part' = [n \in Names |-> 0]
  /\ content' = [f \in Files |-> Empty] /\ replaced' = {}
  /\ overlapped' = FALSE /\ kills' = 0

-----------------------------------------------------------------------------

\* Of the versions of one file name a harness downloads the first only.
First(h, v) == \A u \in 1..(v - 1) : config[h][u].name # config[h][v].name

\* Where the harnesses would download the ISO of a file name from.
SourcesOf(n) ==
  {s \in Sources : \E h \in Harnesses : \E v \in DOMAIN config[h] :
     First(h, v) /\ config[h][v].name = n /\ config[h][v].source = s}

\* Two harnesses list different ISOs under one file name.
Disputed(n) == \E s, t \in SourcesOf(n) : s # t
=============================================================================
