---------------------------- MODULE MCRemoteCrud ----------------------------
(***************************************************************************)
(* Instances of RemoteCrud for TLC.                                        *)
(***************************************************************************)
EXTENDS RemoteCrud

\* Every field once with a value of its own, and a change of one field
\* with two that the wire cannot carry.
MCConfigs ==
  {[url |-> "u", title |-> "t", comment |-> "c", homepage |-> "h", defaultBranch |-> "b",
    gpgKeyData |-> "k", subset |-> "floss", collectionId |-> "i", filter |-> "f",
    priority |-> 5, gpgVerify |-> FALSE, disabled |-> TRUE, noDeps |-> TRUE],
   [filter |-> "", title |-> "t2", priority |-> -1]}

MCFiles ==
  {Unusable, [url |-> "u3", description |-> "d", gpgKeyData |-> "k3"],
   [url |-> "", gpgKeyData |-> ""]}

\* Two rows, every field with a value of its own.
TwoRows(t) ==
  [i \in 1..2 |-> [f \in {Layouts[t][j][1] : j \in DOMAIN Layouts[t]} |-> f \o ToString(i)]]

\* What no read tells of is empty.
MCLibrary ==
  [apps |-> [i \in 1..2 |-> [TwoRows("apps")[i] EXCEPT !.appDataIcon = "",
                               !.kind = IF i = 1 THEN "runtime" ELSE "app"]],
   updates |-> [i \in 1..2 |-> [TwoRows("updates")[i] EXCEPT !.collectionId = ""]],
   running |-> TwoRows("running"), installations |-> TwoRows("installations"),
   arches |-> <<[text |-> "x86_64"], [text |-> "i386"]>>,
   version |-> <<[text |-> "1.15.8"]>>, defaultArch |-> <<[text |-> "x86_64"]>>]

Offered(kind, name, arch, sockets) ==
  [TwoRows("remoteApps")[1] EXCEPT !.kind = kind, !.name = name, !.arch = arch]
    @@ [sockets |-> sockets]

Socket(name, withheld) == [name |-> name, withheld |-> withheld]

\* An app for X11, one that is withheld Wayland, one of another architecture
\* and one that asks for both; a runtime.
MCRemoteRefs ==
  <<Offered("app", "a", "x86_64", <<Socket("x11", FALSE)>>),
    Offered("app", "b", "x86_64", <<Socket("wayland", TRUE)>>),
    Offered("runtime", "r", "x86_64", <<>>),
    Offered("app", "d", "aarch64", <<Socket("wayland", FALSE)>>),
    Offered("app", "e", "x86_64", <<Socket("fallback-x11", FALSE), Socket("wayland", FALSE)>>)>>

\* One group that is no permission, one without keys, one that is absent.
MCKeyfile ==
  [g \in {"Application", "Context", "Session Bus Policy", "Environment"} |->
    CASE g = "Application" -> <<<<"name", "a">>>>
      [] g = "Context" -> <<<<"shared", "network;ipc;">>, <<"sockets", "wayland;">>>>
      [] g = "Session Bus Policy" -> <<<<"org.a", "talk">>>>
      [] OTHER -> <<>>]
=============================================================================
