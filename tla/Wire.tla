-------------------------------- MODULE Wire --------------------------------
(***************************************************************************)
(* The payloads between the bridge and the isolate.  A struct is written   *)
(* as its fields in a fixed order, without names or types                  *)
(* (native/include/glaze_meta.h), and read by code that has the order of   *)
(* its own (lib/src/ffi/codec.dart).  Here a layout is a sequence of       *)
(* <<field, type>>, a payload a sequence of <<type, value>>, and reading a *)
(* field as another type than it was written with yields "garbage".        *)
(***************************************************************************)
EXTENDS Integers, SequencesExt

Fields(type, names) == [i \in DOMAIN names |-> <<names[i], type>>]

Strings(names) == Fields("string", names)

\* Writer: the fields in declaration order.
Write(layout, record) ==
  [i \in DOMAIN layout |-> <<layout[i][2], record[layout[i][1]]>>]

\* Reader: each field where the reader's own order has it.
Read(layout, wire) ==
  [f \in {layout[i][1] : i \in DOMAIN layout} |->
    LET i == CHOOSE j \in DOMAIN layout : layout[j][1] = f
    IN  IF i \in DOMAIN wire /\ wire[i][1] = layout[i][2] THEN wire[i][2] ELSE "garbage"]

\* write_binary() of a vector: its length, then its elements.
WriteVector(layout, records) ==
  <<<<"u64", Len(records)>>>>
    \o [i \in 1..(Len(records) * Len(layout)) |->
          Write(layout, records[(i - 1) \div Len(layout) + 1])[((i - 1) % Len(layout)) + 1]]

\* A configuration that ends too early is none at all: read_binary() answers
\* false and leaves the caller's value alone.
ReadBinary(layout, wire, default) ==
  IF Len(wire) < Len(layout) THEN default ELSE Read(layout, wire)

\* _BinaryWriter and _BinaryReader: of each type the same bytes.
BinaryWrite(layout, record) == Write(layout, record)
BinaryRead(layout, wire) == Read(layout, wire)

BinaryReadVector(layout, wire) ==
  [i \in 1..wire[1][2] |-> BinaryRead(layout, SubSeq(wire, 2 + (i - 1) * Len(layout), 1 + i * Len(layout)))]

-----------------------------------------------------------------------------
(***************************************************************************)
(* The structs of native/include/flatpak_types.h, in the order of          *)
(* glz::meta<T>::fields.                                                   *)
(***************************************************************************)

FpRef == Strings(<<"kind", "name", "arch", "branch", "commit", "collectionId">>)

InstalledApp ==
  FpRef \o Strings(<<"origin", "latestCommit", "installedPath">>)
    \o <<<<"installedSize", "u64">>>>
    \o Fields("bool", <<"isCurrentArch", "endOfLife">>)
    \o Strings(<<"endOfLifeRebase", "appDataName", "appDataSummary", "appDataVersion",
                 "appDataIcon">>)

FlatpakRemoteInfo ==
  Strings(<<"name", "url", "title", "comment", "description", "homepage",
            "defaultBranch", "subset", "collectionId", "filter">>)
    \o <<<<"remoteType", "i32">>>>
    \o Fields("bool", <<"disabled", "gpgVerify", "noDeps">>)
    \o <<<<"priority", "i32">>>>

RemoteConfig ==
  Strings(<<"url", "title", "comment", "homepage", "defaultBranch">>)
    \o <<<<"gpgKeyData", "bytes">>>>
    \o Strings(<<"subset", "collectionId", "filter">>)
    \o <<<<"priority", "i32">>>>
    \o Fields("i8", <<"gpgVerify", "disabled", "noDeps">>)

FpInstance ==
  Strings(<<"appId", "instanceId", "arch", "branch", "commit", "runtime">>)
    \o <<<<"pid", "i32">>, <<"childPid", "i32">>, <<"isRunning", "bool">>>>

FpInstallationInfo ==
  Strings(<<"id", "displayName", "path">>)
    \o <<<<"isUser", "bool">>, <<"priority", "i32">>>>

FpMetadataEntry == Strings(<<"section", "key", "value">>)

TransactionProgress ==
  Strings(<<"op", "ref">>)
    \o <<<<"progress", "u32">>, <<"bytesTransferred", "u64">>, <<"bytesTotal", "u64">>,
         <<"status", "string">>>>

\* Errors and texts: a length of four bytes, and the bytes.
Text == <<<<"text", "text">>>>

-----------------------------------------------------------------------------
(***************************************************************************)
(* The same structs as GlazeCodec reads and writes them.                   *)
(***************************************************************************)

DecodedRef == Strings(<<"kind", "name", "arch", "branch", "commit", "collectionId">>)

DecodedInstalledApp ==
  DecodedRef \o Strings(<<"origin", "latestCommit", "installedPath">>)
    \o <<<<"installedSize", "u64">>, <<"isCurrentArch", "bool">>, <<"endOfLife", "bool">>>>
    \o Strings(<<"endOfLifeRebase", "appDataName", "appDataSummary", "appDataVersion",
                 "appDataIcon">>)

DecodedRemote ==
  Strings(<<"name", "url", "title", "comment", "description", "homepage",
            "defaultBranch", "subset", "collectionId", "filter">>)
    \o <<<<"remoteType", "i32">>, <<"disabled", "bool">>, <<"gpgVerify", "bool">>,
         <<"noDeps", "bool">>, <<"priority", "i32">>>>

\* Slip: a text in front of another.
EncodedConfigMoved ==
  Strings(<<"url", "title", "comment", "homepage", "defaultBranch">>)
    \o <<<<"gpgKeyData", "bytes">>>> \o Strings(<<"subset", "filter", "collectionId">>)
    \o <<<<"priority", "i32">>, <<"gpgVerify", "i8">>, <<"disabled", "i8">>,
         <<"noDeps", "i8">>>>

EncodedConfig ==
  Strings(<<"url", "title", "comment", "homepage", "defaultBranch">>)
    \o <<<<"gpgKeyData", "bytes">>>> \o Strings(<<"subset", "collectionId", "filter">>)
    \o <<<<"priority", "i32">>, <<"gpgVerify", "i8">>, <<"disabled", "i8">>,
         <<"noDeps", "i8">>>>

DecodedInstance ==
  Strings(<<"appId", "instanceId", "arch", "branch", "commit", "runtime">>)
    \o Fields("i32", <<"pid", "childPid">>) \o <<<<"isRunning", "bool">>>>

DecodedInstallationInfo ==
  Strings(<<"id", "displayName", "path">>)
    \o <<<<"isUser", "bool">>, <<"priority", "i32">>>>

DecodedMetadataEntry == Strings(<<"section", "key", "value">>)

\* decodeRemoteMetadata(): all the entries in one frame.
DecodedRemoteMetadata == Strings(<<"section", "key", "value">>)

DecodedTransactionProgress ==
  Strings(<<"op", "ref">>)
    \o <<<<"progress", "u32">>>> \o Fields("u64", <<"bytesTransferred", "bytesTotal">>)
    \o Strings(<<"status">>)

\* decodeError()
DecodedText == <<<<"text", "text">>>>

=============================================================================
