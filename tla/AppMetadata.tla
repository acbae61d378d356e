----------------------------- MODULE AppMetadata -----------------------------
(***************************************************************************)
(* What the metadata of an app says: native/src/app_metadata.cpp, and the  *)
(* permissions that native/src/installation_reader.cpp reads from it.      *)
(*                                                                         *)
(* A keyfile is a function from its groups to their keys, in order.        *)
(***************************************************************************)
EXTENDS Integers, FiniteSets, Sequences, SequencesExt

\* Of the rows told those at some places, in the order they are told.
Filtered(told, places) ==
  [k \in 1..Cardinality(places) |->
    told[CHOOSE i \in places : Cardinality({j \in places : j <= i}) = k]]

(***************************************************************************)
(* The sockets an app asks for: the entries of [Context] sockets=, without *)
(* the leading "!" of those withheld.  An app without metadata, with one   *)
(* that does not parse or without the key asks for none.                   *)
(***************************************************************************)
RequestsSocket(sockets, socket) ==
  \E i \in DOMAIN sockets : sockets[i] = [name |-> socket, withheld |-> FALSE]

(***************************************************************************)
(* The extensions that have to be there when the app is installed.         *)
(***************************************************************************)

\* Any of the branches will do; the first is the one to install.
Branches(group, appBranch) ==
  LET named == {i \in DOMAIN group.versions : group.versions[i] # ""}
  IN  IF named # {} THEN Filtered(group.versions, named)
      ELSE <<IF group.version # "" THEN group.version ELSE appBranch>>

\* groups: the groups "Extension <id>".
RequiredExtensions(groups, appBranch) ==
  LET required == Filtered(groups,
                    {i \in DOMAIN groups : /\ groups[i].id # "" /\ ~groups[i].noAutodownload
                                           /\ ~groups[i].subdirectories})
  IN  [i \in DOMAIN required |->
        [id |-> required[i].id, branches |-> Branches(required[i], appBranch)]]

(***************************************************************************)
(* The permissions: every key of four groups.                              *)
(***************************************************************************)
EntriesOf(keyfile, section) ==
  LET keys == IF section \in DOMAIN keyfile THEN keyfile[section] ELSE <<>>
  IN  [k \in DOMAIN keys |-> [section |-> section, key |-> keys[k][1], value |-> keys[k][2]]]

Entries(keyfile) ==
  EntriesOf(keyfile, "Context") \o EntriesOf(keyfile, "Session Bus Policy")
    \o EntriesOf(keyfile, "System Bus Policy") \o EntriesOf(keyfile, "Environment")

=============================================================================
