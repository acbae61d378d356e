----------------------------- MODULE RemoteCrud -----------------------------
(***************************************************************************)
(* Configuring remotes: lib/src/remote_manager.dart over                   *)
(* native/src/user_remote_bridge.cpp; and the reads of an installation,    *)
(* its remotes among them: lib/src/installation.dart over                  *)
(* native/src/installation_reader.cpp.  All of it crosses the wire         *)
(* (module Wire).                                                          *)
(*                                                                         *)
(* The native half of a call runs on the isolate that makes it, but other  *)
(* isolates and programs configure the same installation, so calls         *)
(* interleave between two calls of libflatpak; the isolate handles the     *)
(* frames of a call later, one by one.                                     *)
(*                                                                         *)
(* A configuration is a function from the fields that are not null to      *)
(* their values.                                                           *)
(*                                                                         *)
(* External: the remotes of libflatpak.  add_remote, modify_remote and     *)
(* remove_remote are atomic; they write the settings that were set on the  *)
(* remote object and keep the others; any of them may fail.                *)
(***************************************************************************)
EXTENDS Wire, AppMetadata

CONSTANTS
  Calls,        \* calls of managers and installations
  Names,        \* names of remotes
  Configs,      \* configurations that callers pass to add() and modify()
  Files,        \* .flatpakrepo files: what they say, or Unusable
  Unusable,     \* a file that cannot be read or parsed
  Library,      \* what libflatpak has in its tables besides the remotes
  RemoteRefs,   \* the refs every remote offers, and the sockets they ask for
  Keyfile       \* the metadata of an app, installed or offered

VARIABLES
  remotes,  \* the configured remotes: name -> settings
  pc,       \* where each call is
  req,      \* its method and arguments
  frames,   \* the frames in its port
  rows,     \* what the isolate has decoded of them
  result,   \* how its future has completed
  wrote,    \* history: the settings it has written
  saw       \* history: the rows libflatpak has told it

vars == <<remotes, pc, req, frames, rows, result, wrote, saw>>

-----------------------------------------------------------------------------
(***************************************************************************)
(* From the caller's configuration to the settings on the remote object.   *)
(***************************************************************************)

Flags == {"gpgVerify", "disabled", "noDeps"}
Texts == {"url", "title", "comment", "description", "homepage", "defaultBranch",
          "gpgKeyData", "subset", "collectionId", "filter"}
Settings == (Texts \ {"subset"}) \union Flags \union {"priority"}

\* FlatpakRemoteConfig has no description, and of a file no key is a flag.
\* What libflatpak tells are lists, get_version() and get_default_arch() tell
\* one text, and a socket is withheld or not.
ASSUME RemoteAssumption ==
  /\ \A cfg \in Configs :
       /\ DOMAIN cfg \subseteq (Texts \ {"description"}) \union Flags \union {"priority"}
       /\ \A f \in DOMAIN cfg \intersect Flags : cfg[f] \in BOOLEAN
       /\ "priority" \in DOMAIN cfg => cfg.priority \in Int
  /\ \A file \in Files \ {Unusable} : DOMAIN file \subseteq Texts \ {"subset"}
  /\ IsFiniteSet(Names)
  /\ \A table \in {"apps", "updates", "running", "arches", "installations",
                   "version", "defaultArch"} :
       Library[table] \in Seq(ToSet(Library[table]))
  /\ Len(Library.version) = 1 /\ Len(Library.defaultArch) = 1
  /\ RemoteRefs \in Seq(ToSet(RemoteRefs))
  /\ \A ref \in ToSet(RemoteRefs) :
       ref.sockets \in Seq([name : STRING, withheld : BOOLEAN])
  /\ \A group \in DOMAIN Keyfile : Keyfile[group] \in Seq(ToSet(Keyfile[group]))

\* null and empty text are the same on the wire; so are "unset" and subset none.
Unset(f) == IF f \in Texts THEN "" ELSE -1

EncodeConfig(cfg) ==
  BinaryWrite(EncodedConfig, [f \in Texts \union Flags \union {"priority"} |->
    IF f \notin DOMAIN cfg THEN Unset(f)
    ELSE CASE f = "subset" /\ cfg[f] = "none" -> ""
           [] f \in Flags -> IF cfg[f] THEN 1 ELSE 0
           [] OTHER -> cfg[f]])

\* Slip: an unset number or flag is a value like any other.
AppliedUnset(cfg) ==
  [f \in {t \in DOMAIN cfg \ {"subset"} : t \in Texts => cfg[t] # ""} |->
    IF f \in Flags THEN cfg[f] # 0 ELSE cfg[f]]

\* apply_config(): the settings put on the remote object; there is no setter
\* for the subset.
Applied(cfg) ==
  [f \in {t \in DOMAIN cfg \ {"subset"} : IF t \in Texts THEN cfg[t] # "" ELSE cfg[t] >= 0} |->
    IF f \in Flags THEN cfg[f] # 0 ELSE cfg[f]]

\* What the native side puts on the remote for a configuration of the caller.
ChangesOf(cfg) ==
  Applied(ReadBinary(RemoteConfig, EncodeConfig(cfg),
            [f \in Texts \union Flags \union {"priority"} |-> Unset(f)]))

\* What a .flatpakrepo file says: every key it has, and a key that decodes to
\* nothing is no key.
ChangesOfFile(file) ==
  LET keys == {k \in DOMAIN file : k = "gpgKeyData" => file[k] # ""}
      verified == IF "gpgKeyData" \in keys THEN {"gpgVerify"} ELSE {}
  IN  [k \in keys \union verified |-> IF k \in keys THEN file[k] ELSE TRUE]

-----------------------------------------------------------------------------
(***************************************************************************)
(* What can be read: the layout of the rows, and how they are decoded.     *)
(***************************************************************************)

Layouts ==
  [remotes |-> FlatpakRemoteInfo, apps |-> InstalledApp, remoteApps |-> FpRef,
   updates |-> FpRef, permissions |-> FpMetadataEntry, metadata |-> FpMetadataEntry,
   running |-> FpInstance, installations |-> FpInstallationInfo,
   arches |-> Text, version |-> Text, defaultArch |-> Text]

Decoders ==
  [remotes |-> DecodedRemote, apps |-> DecodedInstalledApp, remoteApps |-> DecodedRef,
   updates |-> DecodedRef, permissions |-> DecodedMetadataEntry,
   metadata |-> DecodedRemoteMetadata, running |-> DecodedInstance,
   installations |-> DecodedInstallationInfo,
   arches |-> DecodedText, version |-> DecodedText, defaultArch |-> DecodedText]

-----------------------------------------------------------------------------
(***************************************************************************)
(* The methods.                                                            *)
(***************************************************************************)

Enable == [disabled |-> FALSE]
Disable == [disabled |-> TRUE]
SetPriority(p) == [priority |-> p]
ModifySubset(s) == [subset |-> s]

\* A remote manager's.
ManagerRequests ==
  [op : {"add"}, name : Names, cfg : Configs, ifNotExists : BOOLEAN]
    \union [op : {"addFromFile"}, name : Names, file : Files, ifNotExists : BOOLEAN]
    \union [op : {"modify"}, name : Names,
            cfg : Configs \union {Enable, Disable, SetPriority(0), ModifySubset("none")}]
    \union [op : {"remove"}, name : Names, force : BOOLEAN]
    \union [op : {"update"}, name : Names]

\* An installation's, about refs and remotes.  listRemoteApps() filters.
Listings ==
  [op : {"list"}, table : {"remotes", "updates", "permissions"}]
    \union [op : {"list"}, table : {"apps"}, runtimes : BOOLEAN]
    \union [op : {"list"}, table : {"remoteApps"}, name : Names,
            arch : {"", "x86_64"}, runtimes : BOOLEAN, wayland : BOOLEAN]
    \union [op : {"first"}, table : {"remotes", "metadata"}, name : Names]

\* And about the host.
Introspection ==
  [op : {"list"}, table : {"running", "arches", "installations"}]
    \union [op : {"last"}, table : {"version", "defaultArch"}]

ReaderRequests == Listings \union Introspection

Requests == ManagerRequests \union ReaderRequests

NoRequest == [op |-> "none"]

\* External: a new remote of libflatpak.
NewRemote ==
  [f \in Settings |->
    CASE f \in Texts -> "" [] f = "priority" -> 1 [] OTHER -> f = "gpgVerify"]

TypeOK ==
  /\ DOMAIN remotes \subseteq Names
  /\ \A n \in DOMAIN remotes :
       /\ DOMAIN remotes[n] = Settings
       /\ \A f \in Flags : remotes[n][f] \in BOOLEAN
       /\ remotes[n].priority \in Nat
  /\ pc \in [Calls -> {"idle", "called", "got", "disabling", "removing", "posted", "done"}]
  /\ req \in [Calls -> Requests \union {NoRequest}]
  /\ result \in [Calls -> {"none", "ok", "error"}]
  /\ wrote \in [Calls -> SUBSET (Settings \union {"all"})]
  /\ \A c \in Calls :
       /\ pc[c] = "idle" <=> req[c] = NoRequest
       /\ pc[c] = "posted" <=> frames[c] # <<>>
       /\ pc[c] = "done" => result[c] # "none"

Init ==
  /\ remotes \in {<<>>} \union [Names -> {NewRemote}]
  /\ pc = [c \in Calls |-> "idle"]
  /\ req = [c \in Calls |-> NoRequest]
  /\ frames = [c \in Calls |-> <<>>]
  /\ rows = [c \in Calls |-> <<>>]
  /\ result = [c \in Calls |-> "none"]
  /\ wrote = [c \in Calls |-> {}]
  /\ saw = [c \in Calls |-> <<>>]

Name(c) == req[c].name
Exists(c) == Name(c) \in DOMAIN remotes
InCall(c, place, ops) == pc[c] = place /\ req[c].op \in ops

Ok == [tag |-> "sentinel"]
Error == [tag |-> "error"]
Row(layout, row) == [tag |-> "row", payload |-> Write(layout, row)]

\* Frames are posted, the last of which answers the call.
Post(c, posted) ==
  /\ pc' = [pc EXCEPT ![c] = "posted"]
  /\ frames' = [frames EXCEPT ![c] = posted]
  /\ UNCHANGED <<req, rows, result>>

Goto(c, place) ==
  /\ pc' = [pc EXCEPT ![c] = place]
  /\ UNCHANGED <<req, frames, rows, result>>

Written(settings, changes) ==
  [f \in Settings |-> IF f \in DOMAIN changes THEN changes[f] ELSE settings[f]]

\* External: settings are written to a remote.
Commit(c, settings, changes) ==
  /\ remotes' = [n \in DOMAIN remotes \union {Name(c)} |->
       IF n = Name(c) THEN Written(settings, changes) ELSE remotes[n]]
  /\ wrote' = [wrote EXCEPT ![c] = @ \union DOMAIN changes]
  /\ UNCHANGED saw

Unwritten == UNCHANGED <<remotes, wrote, saw>>

-----------------------------------------------------------------------------
Called(c, r) ==
  /\ pc[c] = "idle"
  /\ req' = [req EXCEPT ![c] = r]
  /\ pc' = [pc EXCEPT ![c] = "called"]
  /\ UNCHANGED <<remotes, frames, rows, result, wrote, saw>>

\* FlatpakRemoteManager
CallManager(c) == \E r \in ManagerRequests : Called(c, r)

\* FlatpakInstallation, by way of flatpak_reader_*
CallReader(c) == \E r \in ReaderRequests : Called(c, r)

\* The reads that ask libflatpak for what may not be there.
Fallible == DOMAIN Layouts \ {"running", "arches", "version", "defaultArch"}

\* External: a call of libflatpak fails: no permission, no network, refs
\* installed from the remote, a disk that is full.
LibraryFails(c) ==
  /\ \/ InCall(c, "called", {"add", "addFromFile", "update"})
     \/ InCall(c, "called", {"list", "first"}) /\ req[c].table \in Fallible
     \/ InCall(c, "got", {"modify"})
     \/ InCall(c, "removing", {"remove"})
  /\ Post(c, <<Error>>)
  /\ Unwritten

FileUnusable(c) ==
  /\ InCall(c, "called", {"addFromFile"})
  /\ req[c].file = Unusable
  /\ Post(c, <<Error>>)
  /\ Unwritten

AddExists(c) ==
  /\ InCall(c, "called", {"add", "addFromFile"})
  /\ req[c].op = "addFromFile" => req[c].file # Unusable
  /\ Exists(c)
  /\ Post(c, <<IF req[c].ifNotExists THEN Ok ELSE Error>>)
  /\ Unwritten

Adds(c) ==
  /\ InCall(c, "called", {"add", "addFromFile"})
  /\ req[c].op = "addFromFile" => req[c].file # Unusable
  /\ ~Exists(c)
  /\ Commit(c, NewRemote,
       IF req[c].op = "add" THEN ChangesOf(req[c].cfg) ELSE ChangesOfFile(req[c].file))
  /\ Post(c, <<Ok>>)

\* Slip: a remote that is not there is left without an answer.
ModifyGetsSilently(c) ==
  /\ InCall(c, "called", {"modify"})
  /\ Exists(c)
  /\ Goto(c, "got")
  /\ Unwritten

\* get_remote_by_name()
ModifyGets(c) ==
  /\ InCall(c, "called", {"modify"})
  /\ IF Exists(c) THEN Goto(c, "got") ELSE Post(c, <<Error>>)
  /\ Unwritten

\* modify_remote(), which fails when the remote has gone in the meantime.
ModifyCommits(c) ==
  /\ InCall(c, "got", {"modify"})
  /\ IF Exists(c)
     THEN Commit(c, remotes[Name(c)], ChangesOf(req[c].cfg)) /\ Post(c, <<Ok>>)
     ELSE Unwritten /\ Post(c, <<Error>>)

\* Forced: the remote is disabled first.
RemoveGets(c) ==
  /\ InCall(c, "called", {"remove"})
  /\ Goto(c, IF req[c].force /\ Exists(c) THEN "disabling" ELSE "removing")
  /\ Unwritten

\* Whether it could be disabled is ignored.
RemoveDisables(c) ==
  /\ InCall(c, "disabling", {"remove"})
  /\ \/ Exists(c) /\ Commit(c, remotes[Name(c)], Disable)
     \/ Unwritten
  /\ Goto(c, "removing")

\* Slip: the answer is that of the first step.
RemoveRemovesBlindly(c) ==
  /\ InCall(c, "removing", {"remove"})
  /\ remotes' = [n \in DOMAIN remotes \ {Name(c)} |-> remotes[n]]
  /\ wrote' = [wrote EXCEPT ![c] = IF Exists(c) THEN @ \union {"all"} ELSE @]
  /\ UNCHANGED saw
  /\ Post(c, <<IF "disabled" \in wrote[c] \/ ~req[c].force THEN Ok ELSE Error>>)

RemoveRemoves(c) ==
  /\ InCall(c, "removing", {"remove"})
  /\ IF Exists(c)
     THEN /\ remotes' = [n \in DOMAIN remotes \ {Name(c)} |-> remotes[n]]
          /\ wrote' = [wrote EXCEPT ![c] = @ \union {"all"}]
          /\ UNCHANGED saw
          /\ Post(c, <<Ok>>)
     ELSE Unwritten /\ Post(c, <<Error>>)

Updates(c) ==
  /\ InCall(c, "called", {"update"})
  /\ Post(c, <<IF Exists(c) THEN Ok ELSE Error>>)
  /\ Unwritten

\* What libflatpak tells of a remote; the subset cannot be asked for.
RemoteRow(n) ==
  [name |-> n, subset |-> "", remoteType |-> 0]
    @@ [f \in Settings \ {"gpgKeyData"} |-> remotes[n][f]]

Reads(c, op, table) == InCall(c, "called", {op}) /\ req[c].table = table

RowFrames(table, passed) == [i \in DOMAIN passed |-> Row(Layouts[table], passed[i])] \o <<Ok>>

\* The rows at these places of what libflatpak tells are posted.
TellSome(c, told, places) ==
  /\ Post(c, RowFrames(req[c].table, Filtered(told, places)))
  /\ saw' = [saw EXCEPT ![c] = told]
  /\ UNCHANGED <<remotes, wrote>>

Tell(c, told) == TellSome(c, told, DOMAIN told)

Refuse(c) == Post(c, <<Error>>) /\ Unwritten

\* get_remote_info()
Reports(c) ==
  /\ Reads(c, "first", "remotes")
  /\ IF Exists(c) THEN Tell(c, <<RemoteRow(Name(c))>>) ELSE Refuse(c)

\* list_remotes()
ListsRemotes(c) ==
  /\ Reads(c, "list", "remotes")
  /\ LET order == SetToSeq(DOMAIN remotes)
     IN  Tell(c, [i \in DOMAIN order |-> RemoteRow(order[i])])

\* list_apps()
ListsApps(c) ==
  /\ Reads(c, "list", "apps")
  /\ TellSome(c, Library.apps,
       {i \in DOMAIN Library.apps : req[c].runtimes \/ Library.apps[i].kind = "app"})

\* Slip: the filter on the socket is applied to runtimes, too.
PassesAnyKind(r, ref) ==
  /\ r.runtimes \/ ref.kind = "app"
  /\ r.arch # "" => ref.arch = r.arch
  /\ r.wayland => RequestsSocket(ref.sockets, "wayland")

\* Which refs listRemoteApps() has: runtimes only when asked for, and of the
\* apps, if so asked, only those that ask for the socket.
PassesFilter(r, ref) ==
  /\ r.runtimes \/ ref.kind = "app"
  /\ r.arch # "" => ref.arch = r.arch
  /\ r.wayland /\ ref.kind = "app" => RequestsSocket(ref.sockets, "wayland")

\* list_remote_apps()
ListsRemoteApps(c) ==
  /\ Reads(c, "list", "remoteApps")
  /\ IF Exists(c)
     THEN TellSome(c, RemoteRefs,
            {i \in DOMAIN RemoteRefs : PassesFilter(req[c], RemoteRefs[i])})
     ELSE Refuse(c)

\* get_permissions() posts the entries one by one.
ListsPermissions(c) == Reads(c, "list", "permissions") /\ Tell(c, Entries(Keyfile))

\* check_updates()
ListsUpdates(c) == Reads(c, "list", "updates") /\ Tell(c, Library.updates)

\* fetch_remote_metadata() posts them in one frame.
FetchesMetadata(c) ==
  /\ Reads(c, "first", "metadata")
  /\ IF Exists(c)
     THEN /\ Post(c, <<[tag |-> "row", payload |-> WriteVector(FpMetadataEntry, Entries(Keyfile))], Ok>>)
          /\ saw' = [saw EXCEPT ![c] = Entries(Keyfile)]
          /\ UNCHANGED <<remotes, wrote>>
     ELSE Refuse(c)

\* list_running()
ListsRunning(c) == Reads(c, "list", "running") /\ Tell(c, Library.running)

\* get_version(), get_default_arch()
TellsText(c) ==
  /\ InCall(c, "called", {"last"})
  /\ Tell(c, Library[req[c].table])

\* get_supported_arches()
ListsArches(c) == Reads(c, "list", "arches") /\ Tell(c, Library.arches)

\* list_system_installations()
ListsInstallations(c) ==
  Reads(c, "list", "installations") /\ Tell(c, Library.installations)

-----------------------------------------------------------------------------
(***************************************************************************)
(* The isolate handles a frame.  A list is complete with the sentinel, the *)
(* answer of getRemoteInfo() and fetchRemoteMetadata() with the first      *)
(* frame, that of _readSingleString() is the last text; an error and the   *)
(* sentinel close the port.                                                *)
(***************************************************************************)

Decoded(c, payload) ==
  LET decoder == Decoders[req[c].table]
  IN  IF req[c].table = "metadata" THEN BinaryReadVector(decoder, payload)
      ELSE <<BinaryRead(decoder, payload)>>

DeliverRow(c) ==
  /\ pc[c] = "posted" /\ Head(frames[c]).tag = "row"
  /\ LET decoded == Decoded(c, Head(frames[c]).payload)
     IN  rows' = [rows EXCEPT ![c] = CASE req[c].op = "list" -> @ \o decoded
                                       [] req[c].op = "last" -> decoded
                                       [] req[c].op = "first" -> IF result[c] = "none" THEN decoded ELSE @]
  /\ result' = [result EXCEPT ![c] = IF req[c].op = "first" THEN "ok" ELSE @]
  /\ frames' = [frames EXCEPT ![c] = Tail(@)]
  /\ UNCHANGED <<remotes, pc, req, wrote, saw>>

\* _listenForResult() and the listeners like it.
DeliverEnd(c) ==
  /\ pc[c] = "posted" /\ Head(frames[c]).tag # "row"
  /\ result' = [result EXCEPT ![c] =
       IF @ # "none" THEN @
       ELSE IF Head(frames[c]) = Error THEN "error"
       ELSE IF req[c].op = "first" THEN @ ELSE "ok"]
  /\ pc' = [pc EXCEPT ![c] = "done"]
  /\ frames' = [frames EXCEPT ![c] = <<>>]
  /\ UNCHANGED <<remotes, req, rows, wrote, saw>>

-----------------------------------------------------------------------------
Reader(c) ==
  \/ Reports(c) \/ ListsRemotes(c) \/ ListsApps(c) \/ ListsRemoteApps(c)
  \/ ListsPermissions(c) \/ ListsUpdates(c) \/ FetchesMetadata(c)
  \/ ListsRunning(c) \/ TellsText(c) \/ ListsArches(c) \/ ListsInstallations(c)

Native(c) ==
  \/ LibraryFails(c) \/ FileUnusable(c) \/ AddExists(c) \/ Adds(c)
  \/ ModifyGets(c) \/ ModifyCommits(c)
  \/ RemoveGets(c) \/ RemoveDisables(c) \/ RemoveRemoves(c)
  \/ Updates(c) \/ Reader(c)

Deliver(c) == DeliverRow(c) \/ DeliverEnd(c)

Next ==
  \E c \in Calls : CallManager(c) \/ CallReader(c) \/ Native(c) \/ Deliver(c)

(***************************************************************************)
(* Fairness: a call that has begun goes on, and the isolate handles its    *)
(* frames.  Nobody need call.                                              *)
(***************************************************************************)
Safety == Init /\ [][Next]_vars

Spec == Safety /\ \A c \in Calls : WF_vars(Native(c)) /\ WF_vars(Deliver(c))

-----------------------------------------------------------------------------
(***************************************************************************)
(* What must hold.                                                         *)
(***************************************************************************)

\* The fields of a configuration that the wire and apply_config() can carry:
\* no empty text, no negative priority, no subset.
Expressible(cfg) ==
  {f \in DOMAIN cfg \intersect Settings :
    (f \in Texts => cfg[f] # "") /\ (f = "priority" => cfg[f] >= 0)}

Took(c, changed) ==
  \A f \in Settings :
    remotes'[Name(c)][f] = IF f \in changed THEN req[c].cfg[f]
                           ELSE IF Exists(c) THEN remotes[Name(c)][f] ELSE NewRemote[f]

\* A configuration arrives as it was meant: when add() or modify() writes,
\* the fields of the caller have the caller's values and every other setting
\* keeps the value it has at that moment, whatever others have written since
\* the remote was looked up (encodeRemoteConfig(), apply_config()).
ConfigTakesEffect ==
  [][\A c \in Calls :
       wrote'[c] # wrote[c] /\ req[c].op \in {"add", "modify"}
         => Took(c, Expressible(req[c].cfg))]_vars

\* A call whose future fails has changed nothing, but for a forced removal,
\* which may leave the remote disabled (flatpak_user_remote_remove()); one
\* that removed the remote has succeeded.
FailureChangesNothing ==
  \A c \in Calls :
    result[c] = "error" => wrote[c] \subseteq IF req[c].op = "remove" THEN {"disabled"} ELSE {}

\* The places of the rows asked for among those told.
Wanted(r, told) ==
  {i \in DOMAIN told :
    LET ref == told[i]
        app == ref.kind = "app"
    IN  CASE r.table = "apps" -> app \/ r.runtimes
          [] r.table = "remoteApps" ->
               /\ r.arch \in {"", ref.arch}
               /\ IF app THEN r.wayland => "wayland" \in {e.name : e \in
                               {ref.sockets[k] : k \in {j \in DOMAIN ref.sockets : ~ref.sockets[j].withheld}}}
                  ELSE r.runtimes
          [] OTHER -> TRUE}

\* A read that succeeds returns what libflatpak told at one moment of the
\* call: every row the caller asked for, once and in order, every field under
\* its own name, however the frames are handled and whatever changes in the
\* meantime (the listeners of FlatpakInstallation, GlazeCodec, the filters of
\* list_apps() and list_remote_apps()).
ReadsAreFaithful ==
  \A c \in Calls :
    result[c] = "ok" /\ req[c].op \in {"list", "first", "last"} =>
      LET wanted == Wanted(req[c], saw[c])
      IN  /\ Len(rows[c]) = Cardinality(wanted)
          /\ \A i \in wanted :
               LET row == rows[c][Cardinality({j \in wanted : j <= i})]
                   fields == {Layouts[req[c].table][k][1] : k \in DOMAIN Layouts[req[c].table]}
               IN  DOMAIN row = fields /\ \A f \in fields : row[f] = saw[c][i][f]

\* Every future completes (_listenForResult(), flatpak_user_remote_*, the
\* listeners of FlatpakInstallation).
EveryCallSettles == \A c \in Calls : pc[c] = "called" ~> result[c] # "none"

=============================================================================
