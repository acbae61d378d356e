---------------------------- MODULE CatalogCache ----------------------------
(***************************************************************************)
(* Lookups in the AppStream catalog of one remote: the memo of open        *)
(* databases in lib/src/appstream/catalog.dart and the stamp of            *)
(* lib/src/appstream/catalog_cache.dart that tells whether the database on *)
(* disk was built from the catalog flatpak has downloaded.                 *)
(*                                                                         *)
(* A synchronous turn of the isolate is one action; an await ends it.      *)
(* Callbacks of a future run in the order they were registered.  An open   *)
(* (_buildAndOpen) is named by the lookup that started it.                 *)
(*                                                                         *)
(* External: flatpak replaces the catalog; appstream_dart parses it into   *)
(* the database, and a query on a handle that is closed before it has      *)
(* ended fails.                                                            *)
(***************************************************************************)
EXTENDS Integers, FiniteSets

CONSTANTS
  NumLookups,        \* bound: calls of componentDetail()
  MaxChanges,        \* bound: changes of the catalog
  MaxCrashes,        \* bound: crashes of the process
  Reverts,           \* may an earlier catalog come back?
  ChangeDuringBuild, \* may the catalog change while it is parsed?
  CloseWhileBusy     \* may close() or refresh() come while a lookup runs?

ASSUME CatalogAssumption ==
  /\ {NumLookups, MaxChanges, MaxCrashes} \subseteq Nat
  /\ {Reverts, ChangeDuringBuild, CloseWhileBusy} \subseteq BOOLEAN

VARIABLES
  source,      \* version of the catalog on disk, 0 if there is none
  newest,      \* the last version there was
  changes,     \* changes so far
  db,          \* the database file: what it was built from, and all of it?
  stamp,       \* version in the stamp file, 0 if missing or truncated
  memo,        \* _openDatabases[key]
  build,       \* where each _buildAndOpen is
  superseded,  \* the open it replaces
  handle,      \* the CatalogDatabase it gave
  closing,     \* opens that close() still has to close
  lookup,      \* where each lookup is
  uses,        \* the open it awaits or queries
  seen,        \* history: catalogs there were since the lookup began
  crashes      \* crashes so far

catalog == <<source, newest, changes>>
disk == <<db, stamp>>
opens == <<build, superseded, handle>>
queries == <<lookup, uses>>
vars == <<catalog, disk, memo, opens, closing, queries, seen, crashes>>

\* Numbered in the order they are made; 0 is none.
Lookups == 1..NumLookups
None == 0

Versions == 0..MaxChanges + 1
Files == [data : Versions, whole : BOOLEAN]
Absent == [data |-> 0, whole |-> FALSE]

\* A handle answers from the file that was there when it was opened.
Handles == [state : {"none", "open", "closed"}, file : Files]
NoHandle == [state |-> "none", file |-> Absent]

TypeOK ==
  /\ source \in Versions /\ newest \in Versions
  /\ changes \in 0..MaxChanges
  /\ db \in Files
  /\ stamp \in Versions
  /\ memo \in Lookups \union {None}
  /\ build \in [Lookups -> {"none", "waiting", "superseding", "reading", "parsing",
                            "parsed", "opening", "open", "failed"}]
  /\ superseded \in [Lookups -> Lookups \union {None}]
  /\ handle \in [Lookups -> Handles]
  /\ closing \in SUBSET Lookups
  /\ lookup \in [Lookups -> {"idle", "waiting", "querying", "found", "absent",
                             "closed", "failed", "lost"}]
  /\ uses \in [Lookups -> Lookups \union {None}]
  /\ seen \in [Lookups -> SUBSET Versions]
  /\ crashes \in 0..MaxCrashes

\* The cache directory outlives the process, so any database may be there
\* that an earlier run has built from this catalog, or none.
Init ==
  /\ source = 1 /\ newest = 1 /\ changes = 0
  /\ \/ db = Absent /\ stamp = 0
     \/ db = [data |-> 1, whole |-> TRUE] /\ stamp = 1
  /\ memo = None
  /\ build = [b \in Lookups |-> "none"]
  /\ superseded = [b \in Lookups |-> None]
  /\ handle = [b \in Lookups |-> NoHandle]
  /\ closing = {}
  /\ lookup = [l \in Lookups |-> "idle"]
  /\ uses = [l \in Lookups |-> None]
  /\ seen = [l \in Lookups |-> {}]
  /\ crashes = 0

\* Slip: a database that exists will do.
NeedsRebuildIfMissing == db = Absent

\* catalogNeedsRebuild(): no database, no usable stamp, no catalog to compare
\* with, or a stamp of another one.
NeedsRebuild == db = Absent \/ stamp = 0 \/ stamp # source


Running == {b \in Lookups :
              build[b] \in {"waiting", "superseding", "reading", "parsing", "parsed", "opening"}}
Builders == {b \in Lookups : build[b] \in {"reading", "parsing", "parsed"}}
Asking == {l \in Lookups : lookup[l] \in {"waiting", "querying"}}
Settled(b) == build[b] \in {"open", "failed"}

\* Those awaiting an open before anybody replaces or closes it have been told.
AllTold(b) == \A l \in Lookups : ~(lookup[l] = "waiting" /\ uses[l] = b)

-----------------------------------------------------------------------------
\* External: flatpak deploys another catalog or removes it, in refresh() or on
\* behalf of another program.
SourceChanges ==
  /\ changes < MaxChanges
  /\ ChangeDuringBuild \/ Builders = {}
  /\ changes' = changes + 1
  /\ \/ source' = newest + 1 /\ newest' = newest + 1
     \/ /\ source' \in IF Reverts THEN 0..newest ELSE {0}
        /\ source' # source
        /\ UNCHANGED newest
  /\ seen' = [l \in Lookups |-> IF l \in Asking THEN seen[l] \union {source'} ELSE seen[l]]
  /\ UNCHANGED <<disk, memo, opens, closing, queries, crashes>>

-----------------------------------------------------------------------------
(***************************************************************************)
(* _openCatalog(): one turn, up to and including the memo.                 *)
(***************************************************************************)

Called(l) == lookup[l] = "idle" /\ \A k \in 1..(l - 1) : lookup[k] # "idle"

\* What _buildAndOpen does once nothing is left to replace.
Proceeded == IF NeedsRebuild THEN "reading" ELSE "opening"

LookupAbsent(l) ==
  /\ Called(l)
  /\ source = 0
  /\ lookup' = [lookup EXCEPT ![l] = "absent"]
  /\ UNCHANGED <<catalog, disk, memo, opens, closing, uses, seen, crashes>>

LookupJoins(l) ==
  /\ Called(l)
  /\ source # 0 /\ memo # None /\ ~NeedsRebuild
  /\ lookup' = [lookup EXCEPT ![l] = "waiting"]
  /\ uses' = [uses EXCEPT ![l] = memo]
  /\ seen' = [seen EXCEPT ![l] = {source}]
  /\ UNCHANGED <<catalog, disk, memo, opens, closing, crashes>>

LookupOpens(l) ==
  /\ Called(l)
  /\ source # 0
  /\ memo = None \/ NeedsRebuild
  /\ build' = [build EXCEPT ![l] = IF memo = None THEN Proceeded ELSE "waiting"]
  /\ superseded' = [superseded EXCEPT ![l] = memo]
  /\ memo' = l
  /\ lookup' = [lookup EXCEPT ![l] = "waiting"]
  /\ uses' = [uses EXCEPT ![l] = l]
  /\ seen' = [seen EXCEPT ![l] = {source}]
  /\ UNCHANGED <<catalog, disk, handle, closing, crashes>>

-----------------------------------------------------------------------------
(***************************************************************************)
(* _buildAndOpen()                                                         *)
(***************************************************************************)

Closed(b) == [handle EXCEPT ![b].state = IF @ = "open" THEN "closed" ELSE @]

\* Await the open to replace; close its handle if it has one.
Supersede(b) ==
  /\ build[b] = "waiting"
  /\ Settled(superseded[b]) /\ AllTold(superseded[b])
  /\ handle' = Closed(superseded[b])
  /\ build' = [build EXCEPT
       ![b] = IF build[superseded[b]] = "open" THEN "superseding" ELSE Proceeded]
  /\ UNCHANGED <<catalog, disk, memo, superseded, closing, queries, seen, crashes>>

\* close() of the replaced handle has returned.
Superseded(b) ==
  /\ build[b] = "superseding"
  /\ build' = [build EXCEPT ![b] = Proceeded]
  /\ UNCHANGED <<catalog, disk, memo, superseded, handle, closing, queries, seen, crashes>>

\* The catalog is decompressed, the old database deleted and the parse begun.
BuildReads(b) ==
  /\ build[b] = "reading"
  /\ source # 0
  /\ db' = [data |-> source, whole |-> FALSE]
  /\ build' = [build EXCEPT ![b] = "parsing"]
  /\ UNCHANGED <<catalog, stamp, memo, superseded, handle, closing, queries, seen, crashes>>

\* ParseDone.
BuildParsed(b) ==
  /\ build[b] = "parsing"
  /\ db' = [db EXCEPT !.whole = TRUE]
  /\ build' = [build EXCEPT ![b] = "parsed"]
  /\ UNCHANGED <<catalog, stamp, memo, superseded, handle, closing, queries, seen, crashes>>

\* stampCatalogSource(): of the catalog that is there now; errors are ignored.
BuildStamps(b) ==
  /\ build[b] = "parsed"
  /\ stamp' = IF source = 0 THEN stamp ELSE source
  /\ build' = [build EXCEPT ![b] = "opening"]
  /\ UNCHANGED <<catalog, db, memo, superseded, handle, closing, queries, seen, crashes>>

BuildOpens(b) ==
  /\ build[b] = "opening"
  /\ build' = [build EXCEPT ![b] = "open"]
  /\ handle' = [handle EXCEPT ![b] = [state |-> "open", file |-> db]]
  /\ UNCHANGED <<catalog, disk, memo, superseded, closing, queries, seen, crashes>>

\* Slip: a failed open evicts whatever is memoised.
BuildFailsEvictingAny(b) ==
  /\ build[b] \in {"reading", "parsing", "opening"}
  /\ build' = [build EXCEPT ![b] = "failed"]
  /\ memo' = None
  /\ UNCHANGED <<catalog, disk, superseded, handle, closing, queries, seen, crashes>>

\* Slip: a failed open is told to nobody.
BuildFailsSilently(b) ==
  /\ build[b] \in {"reading", "parsing", "opening"}
  /\ build' = [build EXCEPT ![b] = "none"]
  /\ memo' = IF memo = b THEN None ELSE memo
  /\ UNCHANGED <<catalog, disk, superseded, handle, closing, queries, seen, crashes>>

\* A parse may end before it has created the file.
Leftovers(b) == IF build[b] = "parsing" THEN {db, Absent} ELSE {db}

\* Decompressing, ParseFailed or opening.  The eviction is the first callback
\* of the failed future; it spares a newer entry.
BuildFails(b) ==
  /\ build[b] \in {"reading", "parsing", "opening"}
  /\ build' = [build EXCEPT ![b] = "failed"]
  /\ memo' = IF memo = b THEN None ELSE memo
  /\ db' \in Leftovers(b)
  /\ UNCHANGED <<catalog, stamp, superseded, handle, closing, queries, seen, crashes>>

-----------------------------------------------------------------------------
(***************************************************************************)
(* componentDetail() behind _openCatalog()                                 *)
(***************************************************************************)

LookupTold(l) ==
  /\ lookup[l] = "waiting"
  /\ Settled(uses[l])
  /\ lookup' = [lookup EXCEPT ![l] = IF build[uses[l]] = "open" THEN "querying" ELSE "failed"]
  /\ UNCHANGED <<catalog, disk, memo, opens, closing, uses, seen, crashes>>

LookupEnds(l) ==
  /\ lookup[l] = "querying"
  /\ lookup' = [lookup EXCEPT
       ![l] = IF handle[uses[l]].state = "open" THEN "found" ELSE "closed"]
  /\ UNCHANGED <<catalog, disk, memo, opens, closing, uses, seen, crashes>>

-----------------------------------------------------------------------------
(***************************************************************************)
(* close(), which refresh() calls too once the catalog has been replaced.  *)
(***************************************************************************)

\* Slip: an empty memo is closed too.
CloseEmpty ==
  /\ CloseWhileBusy \/ Asking \union Running = {}
  /\ closing' = closing \union {memo}
  /\ memo' = None
  /\ UNCHANGED <<catalog, disk, opens, queries, seen, crashes>>

Close ==
  /\ memo # None
  /\ CloseWhileBusy \/ Asking \union Running = {}
  /\ closing' = closing \union {memo}
  /\ memo' = None
  /\ UNCHANGED <<catalog, disk, opens, queries, seen, crashes>>

CloseHandle(b) ==
  /\ b \in closing
  /\ Settled(b) /\ AllTold(b)
  /\ handle' = Closed(b)
  /\ closing' = closing \ {b}
  /\ UNCHANGED <<catalog, disk, memo, build, superseded, queries, seen, crashes>>

-----------------------------------------------------------------------------
\* The process dies and is started again: the files stay as they are, but a
\* stamp that was being written may be truncated.
Crash ==
  /\ crashes < MaxCrashes
  /\ crashes' = crashes + 1
  /\ stamp' \in {stamp} \union {0 : b \in {x \in Lookups : build[x] = "parsed"}}
  /\ memo' = None
  /\ closing' = {}
  /\ build' = [b \in Lookups |-> "none"]
  /\ superseded' = [b \in Lookups |-> None]
  /\ handle' = [b \in Lookups |-> NoHandle]
  /\ lookup' = [l \in Lookups |-> IF lookup[l] = "idle" THEN "idle" ELSE "lost"]
  /\ uses' = [l \in Lookups |-> None]
  /\ seen' = [l \in Lookups |-> {}]
  /\ db' \in UNION {Leftovers(b) : b \in Lookups}
  /\ UNCHANGED catalog

Isolate(l) ==
  \/ Supersede(l) \/ Superseded(l)
  \/ BuildReads(l) \/ BuildParsed(l) \/ BuildStamps(l) \/ BuildOpens(l) \/ BuildFails(l)
  \/ LookupTold(l) \/ LookupEnds(l) \/ CloseHandle(l)

Next ==
  \/ SourceChanges
  \/ \E l \in Lookups :
       LookupAbsent(l) \/ LookupJoins(l) \/ LookupOpens(l) \/ Isolate(l)
  \/ Close
  \/ Crash

(***************************************************************************)
(* Fairness: what the isolate has begun goes on.  Nobody need ask for      *)
(* anything, and the catalog need not change.                              *)
(***************************************************************************)
Fairness == \A l \in Lookups : WF_vars(Isolate(l))

Safety == Init /\ [][Next]_vars

Spec == Safety /\ Fairness

-----------------------------------------------------------------------------
(***************************************************************************)
(* What must hold.                                                         *)
(***************************************************************************)

\* What the memo of in-flight opens is for: no build deletes the database
\* another one is parsing into (_openDatabases, _openCatalog()).  It holds
\* while nobody closes the cache during a lookup (CloseWhileBusy).
SingleWriter == Cardinality(Builders) <= 1

\* A lookup answers from a complete database, built from a catalog that was
\* current at some moment of the lookup: neither a stale database nor one left
\* half built by a failed parse or a crash is taken for current
\* (catalogNeedsRebuild(), stampCatalogSource()).  It needs the catalog to hold
\* still while it is parsed (ChangeDuringBuild) and not to come back (Reverts).
AnswerIsCurrent ==
  \A l \in Lookups :
    lookup[l] = "found" =>
      /\ handle[uses[l]].file.whole
      /\ handle[uses[l]].file.data \in seen[l]

\* Every lookup is answered, also when the open it joined is replaced or fails.
LookupReturns == \A l \in Lookups : lookup[l] = "waiting" ~> l \notin Asking

\* Only close() and refresh() close a handle that a lookup holds: lookups of
\* one catalog share it (_openDatabases, close()).  Stated for callers that do
\* not close while a lookup runs.
LookupsShareHandle == \A l \in Lookups : lookup[l] # "closed"

=============================================================================
