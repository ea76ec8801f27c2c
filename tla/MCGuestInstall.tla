--------------------------- MODULE MCGuestInstall ---------------------------
(* An archive for OfflinePackages: a program, the data it needs for every  *)
(* architecture, and a file of an architecture that is not supported; boot *)
(* lines, and storage actions in every order for GuestInstall.             *)
EXTENDS GuestInstall

MCDebs == {"prog", "data", "old"}
MCArch == [prog |-> "amd64", data |-> "all", old |-> "i386"]
MCDepends == [prog |-> {"data"}, data |-> {}, old |-> {}]

\* As on Ubuntu's ISOs, without ---, unattended already, and remastered before.
MCBootLines ==
  {<<"---">>, <<"quiet">>, <<"autoinstall", "---", "quiet">>,
   <<"autoinstall", "ds=nocloud", "console=tty0", "console=ttyS0", "---">>}
MCGrubEdits == {{"quiet"}, {"console=tty0", "quiet", "console=ttyS0"}}

\* A disk with two partitions that may carry the flag, one of them formatted.
StorageActions(gpt, flags, fat, mount) ==
  {[type |-> "disk", id |-> "disk", of |-> "", esp |-> gpt],
   [type |-> "partition", id |-> "p1", of |-> "disk", esp |-> "p1" \in flags],
   [type |-> "partition", id |-> "p2", of |-> "disk", esp |-> "p2" \in flags],
   [type |-> "format", id |-> "fs", of |-> "p1", esp |-> fat],
   [type |-> "mount", id |-> "mnt", of |-> mount, esp |-> TRUE]}
Orders(S) == {s \in [1 .. 5 -> S] : \A i, j \in 1 .. 5 : i # j => s[i] # s[j]}
MCStorageConfigs ==
  UNION {Orders(StorageActions(gpt, flags, fat, mount)) :
           gpt \in BOOLEAN, flags \in SUBSET {"p1", "p2"}, fat \in BOOLEAN,
           mount \in {"fs", "p1", "p2"}}
=============================================================================
