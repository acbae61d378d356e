------------------------- MODULE CatalogCacheProofs -------------------------
(***************************************************************************)
(* Proofs about CatalogCache for any number of lookups, changes of the     *)
(* catalog and crashes: type correctness, SingleWriter, AnswerIsCurrent.   *)
(* The last two are stated where they hold, as the model says: nobody      *)
(* closes the cache during a lookup, and for AnswerIsCurrent the catalog   *)
(* holds still while it is parsed and does not come back.                  *)
(***************************************************************************)
EXTENDS CatalogCache, FiniteSetTheorems, TLAPS

USE CatalogAssumption

-----------------------------------------------------------------------------
(***************************************************************************)
(* The types.                                                              *)
(***************************************************************************)

\* Versions are numbered as they come.
Numbered == newest <= changes + 1 /\ source <= newest /\ stamp <= newest

Typed == TypeOK /\ Numbered

LEMMA Counts == MaxChanges \in Nat /\ MaxCrashes \in Nat /\ NumLookups \in Nat
  OBVIOUS

LEMMA NoHandleTyped == Absent \in Files /\ NoHandle \in Handles
  BY Counts DEF Absent, Files, Versions, NoHandle, Handles

LEMMA InitTyped == Init => Typed
<1> SUFFICES ASSUME Init PROVE Typed
  OBVIOUS
<1>1. /\ source \in Versions /\ newest \in Versions /\ stamp \in Versions
      /\ changes \in 0..MaxChanges /\ crashes \in 0..MaxCrashes
  BY Counts DEF Init, Versions
<1>2. db \in Files
  <2>1. [data |-> 1, whole |-> TRUE] \in Files
    BY Counts DEF Files, Versions
  <2> QED
    BY <2>1, NoHandleTyped DEF Init
<1>3. handle \in [Lookups -> Handles]
  BY NoHandleTyped DEF Init
<1>4. Numbered
  BY Counts DEF Init, Numbered
<1> QED
  BY <1>1, <1>2, <1>3, <1>4 DEF Init, Typed, TypeOK, None

LEMMA ProceededTyped == Proceeded \in {"reading", "opening"}
  BY DEF Proceeded

LEMMA ClosedTyped ==
  ASSUME Typed, NEW b
  PROVE  Closed(b) \in [Lookups -> Handles]
<1>1. handle \in [Lookups -> Handles]
  BY DEF Typed, TypeOK
<1>2. CASE b \in Lookups
  <2> DEFINE state == IF handle[b].state = "open" THEN "closed" ELSE handle[b].state
  <2>1. state \in {"none", "open", "closed"} /\ handle[b].file \in Files
    BY <1>1, <1>2 DEF Handles
  <2>2. [handle[b] EXCEPT !.state = state] \in Handles
    BY <1>1, <1>2, <2>1 DEF Handles
  <2>3. Closed(b) = [handle EXCEPT ![b] = [handle[b] EXCEPT !.state = state]]
    BY <1>1, <1>2 DEF Closed, Handles
  <2> HIDE DEF state
  <2> QED
    BY <1>1, <2>2, <2>3
<1>3. CASE b \notin Lookups
  BY <1>1, <1>3 DEF Closed
<1> QED
  BY <1>2, <1>3

LEMMA LeftoversTyped ==
  ASSUME Typed, NEW b
  PROVE  Leftovers(b) \subseteq Files
  BY NoHandleTyped DEF Typed, TypeOK, Leftovers

LEMMA NextTyped == Typed /\ [Next]_vars => Typed'
<1> SUFFICES ASSUME Typed, [Next]_vars PROVE Typed'
  OBVIOUS
<1> USE DEF Typed, TypeOK, Numbered, catalog, disk, opens, queries, None
<1>1. CASE SourceChanges
  <2>1. source' \in Versions /\ newest' \in Versions /\ changes' \in 0..MaxChanges
    BY <1>1 DEF SourceChanges, Versions
  <2>2. Numbered'
    BY <1>1 DEF SourceChanges, Versions
  <2>3. seen' \in [Lookups -> SUBSET Versions]
    BY <1>1, <2>1 DEF SourceChanges
  <2> QED
    BY <1>1, <2>1, <2>2, <2>3 DEF SourceChanges
<1>2. ASSUME NEW l \in Lookups, LookupAbsent(l) PROVE Typed'
  BY <1>2 DEF LookupAbsent
<1>3. ASSUME NEW l \in Lookups, LookupJoins(l) PROVE Typed'
  BY <1>3 DEF LookupJoins
<1>4. ASSUME NEW l \in Lookups, LookupOpens(l) PROVE Typed'
  BY <1>4, ProceededTyped DEF LookupOpens
<1>5. ASSUME NEW b \in Lookups, Supersede(b) PROVE Typed'
  BY <1>5, ProceededTyped, ClosedTyped DEF Supersede
<1>6. ASSUME NEW b \in Lookups, Superseded(b) PROVE Typed'
  BY <1>6, ProceededTyped DEF Superseded
<1>7. ASSUME NEW b \in Lookups, BuildReads(b) PROVE Typed'
  BY <1>7 DEF BuildReads, Files
<1>8. ASSUME NEW b \in Lookups, BuildParsed(b) PROVE Typed'
  BY <1>8 DEF BuildParsed, Files
<1>9. ASSUME NEW b \in Lookups, BuildStamps(b) PROVE Typed'
  BY <1>9 DEF BuildStamps
<1>10. ASSUME NEW b \in Lookups, BuildOpens(b) PROVE Typed'
  BY <1>10 DEF BuildOpens, Handles
<1>11. ASSUME NEW b \in Lookups, BuildFails(b) PROVE Typed'
  BY <1>11, LeftoversTyped DEF BuildFails
<1>12. ASSUME NEW l \in Lookups, LookupTold(l) \/ LookupEnds(l) PROVE Typed'
  BY <1>12 DEF LookupTold, LookupEnds
<1>13. CASE Close
  BY <1>13 DEF Close
<1>14. ASSUME NEW b \in Lookups, CloseHandle(b) PROVE Typed'
  BY <1>14, ClosedTyped DEF CloseHandle
<1>15. CASE Crash
  <2>1. db' \in Files
    BY <1>15, LeftoversTyped DEF Crash
  <2>2. stamp' \in Versions /\ stamp' <= newest
    BY <1>15 DEF Crash, Versions
  <2> QED
    BY <1>15, <2>1, <2>2 DEF Crash, Handles, NoHandle, Absent, Files, Versions
<1>16. CASE UNCHANGED vars
  BY <1>16 DEF vars
<1> QED
  BY <1>1, <1>2, <1>3, <1>4, <1>5, <1>6, <1>7, <1>8, <1>9, <1>10, <1>11, <1>12, <1>13,
     <1>14, <1>15, <1>16 DEF Next, Isolate

\* Every variable of the cache keeps its type, whatever may happen to it (the
\* three permissions of the constants).
THEOREM TypeCorrect == Safety => []TypeOK
<1>1. Typed => TypeOK
  BY DEF Typed
<1> QED
  BY <1>1, InitTyped, NextTyped, PTL DEF Safety

-----------------------------------------------------------------------------
(***************************************************************************)
(* One build at a time.                                                    *)
(***************************************************************************)

\* Lookups are called in the order of their numbers, and open what they name.
CalledInOrder ==
  /\ \A k, l \in Lookups : k < l /\ lookup[k] = "idle" => lookup[l] = "idle"
  /\ \A b \in Lookups : build[b] # "none" \/ b = memo => lookup[b] # "idle"

\* The memo is the newest open that may still run; those before it are settled
\* first, one after the other, each waiting for the one it replaces.
MemoIsNewest == \A b \in Running : b <= memo

OldestRuns == \A b, c \in Running : b < c => build[c] = "waiting"

SettledAreOlder == \A b \in Running, c \in Lookups : Settled(c) => c < b

WaitsForPrevious ==
  \A b \in Lookups : build[b] = "waiting" =>
    superseded[b] # None /\ \A c \in Running : c < b => c <= superseded[b]

Queued ==
  Typed /\ CalledInOrder /\ MemoIsNewest /\ OldestRuns /\ SettledAreOlder /\ WaitsForPrevious

LEMMA InitQueued == Init => Queued
<1> SUFFICES ASSUME Init PROVE Queued
  OBVIOUS
<1>1. Typed
  BY InitTyped
<1> QED
  BY <1>1 DEF Init, Queued, CalledInOrder, MemoIsNewest, OldestRuns, SettledAreOlder,
              WaitsForPrevious, Running, Settled, None, Lookups

LEMMA NextQueued == Queued /\ ~CloseWhileBusy /\ [Next]_vars => Queued'
<1> SUFFICES ASSUME Queued, ~CloseWhileBusy, [Next]_vars PROVE Queued'
  OBVIOUS
<1>t. Typed'
  BY NextTyped DEF Queued
<1>a. /\ memo \in Lookups \union {0}
      /\ build \in [Lookups -> {"none", "waiting", "superseding", "reading", "parsing",
                               "parsed", "opening", "open", "failed"}]
      /\ superseded \in [Lookups -> Lookups \union {0}]
      /\ lookup \in [Lookups -> {"idle", "waiting", "querying", "found", "absent",
                                "closed", "failed", "lost"}]
      /\ Lookups \subseteq Nat \ {0}
  BY Counts DEF Queued, Typed, TypeOK, None, Lookups
<1>u. CASE UNCHANGED <<memo, build, superseded, lookup>>
  BY <1>t, <1>u DEF Queued, CalledInOrder, MemoIsNewest, OldestRuns, SettledAreOlder,
                    WaitsForPrevious, Running, Settled
<1> USE DEF CalledInOrder, MemoIsNewest, OldestRuns, SettledAreOlder, WaitsForPrevious, None
<1>1. ASSUME NEW l \in Lookups, LookupAbsent(l) PROVE Queued'
  <2>1. UNCHANGED <<memo, build, superseded>> /\ lookup' = [lookup EXCEPT ![l] = "absent"]
    BY <1>1 DEF LookupAbsent, opens
  <2>2. CalledInOrder'
    BY <1>1, <1>a, <2>1 DEF Queued, LookupAbsent, Called, Lookups
  <2> QED
    BY <1>t, <2>1, <2>2 DEF Queued, Running, Settled
<1>2. ASSUME NEW l \in Lookups, LookupJoins(l) PROVE Queued'
  <2>1. UNCHANGED <<memo, build, superseded>> /\ lookup' = [lookup EXCEPT ![l] = "waiting"]
    BY <1>2 DEF LookupJoins, opens
  <2>2. CalledInOrder'
    BY <1>2, <1>a, <2>1 DEF Queued, LookupJoins, Called, Lookups
  <2> QED
    BY <1>t, <2>1, <2>2 DEF Queued, Running, Settled
<1>3. ASSUME NEW l \in Lookups, LookupOpens(l) PROVE Queued'
  <2>1. /\ build' = [build EXCEPT ![l] = IF memo = 0 THEN Proceeded ELSE "waiting"]
        /\ superseded' = [superseded EXCEPT ![l] = memo]
        /\ memo' = l
        /\ lookup' = [lookup EXCEPT ![l] = "waiting"]
    BY <1>3 DEF LookupOpens
  <2>2. \A b \in Lookups : build[b] # "none" \/ b = memo => b < l
    BY <1>3, <1>a DEF Queued, LookupOpens, Called
  <2>3. build[l] = "none" /\ memo < l
    BY <1>a, <2>2 DEF Lookups
  <2>4. CalledInOrder'
    BY <1>3, <1>a, <2>1 DEF Queued, LookupOpens, Called, Lookups
  <2>5. MemoIsNewest' /\ SettledAreOlder'
    BY <1>a, <2>1, <2>2, <2>3, ProceededTyped DEF Queued, Running, Settled
  <2>6. OldestRuns'
    BY <1>a, <2>1, <2>2, <2>3, ProceededTyped DEF Queued, Running
  <2>7. WaitsForPrevious'
    BY <1>a, <2>1, <2>2, <2>3, ProceededTyped DEF Queued, Running
  <2> QED
    BY <1>t, <2>4, <2>5, <2>6, <2>7 DEF Queued
<1>4. ASSUME NEW b \in Running, \A c \in Running : b <= c,
             NEW s \in {"superseding", "reading", "parsing", "parsed", "opening"},
             build' = [build EXCEPT ![b] = s], UNCHANGED <<memo, superseded, lookup>>
      PROVE  Queued'
  <2>1. Running' = Running
    BY <1>4, <1>a DEF Running
  <2>2. CalledInOrder' /\ MemoIsNewest' /\ SettledAreOlder'
    BY <1>4, <1>a, <2>1 DEF Queued, Running, Settled
  <2>3. OldestRuns' /\ WaitsForPrevious'
    BY <1>4, <1>a, <2>1 DEF Queued, Running
  <2> QED
    BY <1>t, <2>2, <2>3 DEF Queued
<1>5. ASSUME NEW b \in Running, build[b] # "waiting"
      PROVE  \A c \in Running : b <= c
  BY <1>5, <1>a DEF Queued, Running
<1>6. ASSUME NEW b \in Running, build[b] # "waiting", NEW s \in {"open", "failed"},
             build' = [build EXCEPT ![b] = s], UNCHANGED <<superseded, lookup>>,
             memo' = memo \/ (memo = b /\ memo' = 0)
      PROVE  Queued'
  <2>1. Running' = Running \ {b}
    BY <1>6, <1>a DEF Running
  <2>2. CalledInOrder' /\ SettledAreOlder'
    BY <1>5, <1>6, <1>a, <2>1 DEF Queued, Running, Settled
  <2>3. MemoIsNewest'
    BY <1>5, <1>6, <1>a, <2>1 DEF Queued, Running
  <2>4. OldestRuns' /\ WaitsForPrevious'
    BY <1>6, <1>a, <2>1 DEF Queued, Running
  <2> QED
    BY <1>t, <2>2, <2>3, <2>4 DEF Queued
<1>7. ASSUME NEW b \in Lookups, Supersede(b) PROVE Queued'
  <2>1. b \in Running /\ superseded[b] \in Lookups
    BY <1>7, <1>a DEF Supersede, Queued, Running
  <2>2. \A c \in Running : b <= c
    <3> SUFFICES ASSUME NEW c \in Running, ~(b <= c) PROVE FALSE
      OBVIOUS
    <3>1. b \in Nat /\ c \in Nat /\ superseded[b] \in Nat
      BY <1>a, <2>1 DEF Running
    <3>2. c <= superseded[b]
      BY <1>7, <3>1 DEF Supersede, Queued
    <3>3. superseded[b] < c
      BY <1>7, <2>1 DEF Supersede, Queued
    <3> QED
      BY <3>1, <3>2, <3>3
  <2> QED
    BY <1>4, <1>7, <2>1, <2>2, ProceededTyped DEF Supersede, queries
<1>8. ASSUME NEW b \in Lookups,
             Superseded(b) \/ BuildReads(b) \/ BuildParsed(b) \/ BuildStamps(b)
      PROVE  Queued'
  <2>1. b \in Running /\ build[b] # "waiting"
    BY <1>8 DEF Running, Superseded, BuildReads, BuildParsed, BuildStamps
  <2> QED
    BY <1>4, <1>5, <1>8, <2>1, ProceededTyped
      DEF Superseded, BuildReads, BuildParsed, BuildStamps, queries
<1>9. ASSUME NEW b \in Lookups, BuildOpens(b) \/ BuildFails(b) PROVE Queued'
  <2>1. b \in Running /\ build[b] # "waiting"
    BY <1>9 DEF Running, BuildOpens, BuildFails
  <2>2. /\ UNCHANGED <<superseded, lookup>>
        /\ memo' = memo \/ (memo = b /\ memo' = 0)
    <3>1. CASE BuildOpens(b)
      BY <3>1 DEF BuildOpens, queries
    <3>2. CASE BuildFails(b)
      BY <3>2 DEF BuildFails, queries
    <3> QED
      BY <1>9, <3>1, <3>2
  <2>3. \E s \in {"open", "failed"} : build' = [build EXCEPT ![b] = s]
    <3>1. CASE BuildOpens(b)
      <4> WITNESS "open" \in {"open", "failed"}
      <4> QED
        BY <3>1 DEF BuildOpens
    <3>2. CASE BuildFails(b)
      <4> WITNESS "failed" \in {"open", "failed"}
      <4> QED
        BY <3>2 DEF BuildFails
    <3> QED
      BY <1>9, <3>1, <3>2
  <2>4. PICK s \in {"open", "failed"} : build' = [build EXCEPT ![b] = s]
    BY <2>3
  <2> QED
    BY <1>6, <2>1, <2>2, <2>4, Zenon
<1>10. ASSUME NEW l \in Lookups, LookupTold(l) \/ LookupEnds(l) PROVE Queued'
  <2>1. /\ UNCHANGED <<memo, build, superseded>>
        /\ lookup[l] # "idle"
        /\ \E s \in {"querying", "failed", "found", "closed"} :
              lookup' = [lookup EXCEPT ![l] = s]
    BY <1>10 DEF LookupTold, LookupEnds, opens
  <2>2. CalledInOrder'
    BY <1>a, <2>1 DEF Queued
  <2> QED
    BY <1>t, <2>1, <2>2 DEF Queued, Running, Settled
<1>11. CASE Close
  <2>1. memo' = 0 /\ UNCHANGED <<build, superseded, lookup>> /\ Running = {}
    BY <1>11 DEF Close, opens, queries
  <2>2. CalledInOrder'
    BY <1>a, <2>1 DEF Queued
  <2> QED
    BY <1>t, <1>a, <2>1, <2>2 DEF Queued, Running, Settled
<1>12. CASE Crash
  <2>1. /\ memo' = 0 /\ \A b \in Lookups : build'[b] = "none"
        /\ \A l \in Lookups : lookup'[l] = "idle" <=> lookup[l] = "idle"
    BY <1>12 DEF Crash
  <2>2. CalledInOrder'
    BY <1>a, <2>1 DEF Queued
  <2> QED
    BY <1>t, <2>1, <2>2 DEF Queued, Running, Settled
<1>13. CASE SourceChanges
  BY <1>13, <1>u DEF SourceChanges, opens, queries
<1>14. ASSUME NEW b \in Lookups, CloseHandle(b) PROVE Queued'
  BY <1>14, <1>u DEF CloseHandle, queries
<1>15. CASE UNCHANGED vars
  BY <1>15, <1>u DEF vars, opens, queries
<1> QED
  BY <1>1, <1>2, <1>3, <1>7, <1>8, <1>9, <1>10, <1>11, <1>12, <1>13, <1>14, <1>15
    DEF Next, Isolate

LEMMA QueuedMeansSingle == Queued => SingleWriter
<1> SUFFICES ASSUME Queued PROVE SingleWriter
  OBVIOUS
<1>1. \A b, c \in Builders : b = c
  BY DEF Queued, OldestRuns, Builders, Running, Lookups
<1>2. CASE Builders = {}
  BY <1>2, FS_EmptySet DEF SingleWriter
<1>3. CASE Builders # {}
  <2>1. PICK b : b \in Builders
    BY <1>3
  <2>2. Builders = {b}
    BY <1>1, <2>1
  <2>3. Cardinality({b}) = 1
    BY FS_Singleton
  <2> QED
    BY <2>2, <2>3 DEF SingleWriter
<1> QED
  BY <1>2, <1>3

\* As long as nobody closes the cache during a lookup, at most one build has the
\* database in hand, however many lookups ask for it, whatever the catalog does
\* and wherever the process crashes (_openCatalog(), _buildAndOpen()).
THEOREM OneBuildAtATime == ~CloseWhileBusy => (Safety => []SingleWriter)
<1> SUFFICES ASSUME ~CloseWhileBusy PROVE Safety => []SingleWriter
  OBVIOUS
<1>1. Queued /\ [Next]_vars => Queued'
  BY NextQueued
<1> QED
  BY <1>1, InitQueued, QueuedMeansSingle, PTL DEF Safety

-----------------------------------------------------------------------------
(***************************************************************************)
(* The database that is opened.                                            *)
(***************************************************************************)

\* A stamp of the catalog that is there vouches for the database.
StampVouches == stamp # 0 /\ stamp = source => db = [data |-> source, whole |-> TRUE]

\* While the database is being replaced, the stamp is of another catalog.
StampIsStale ==
  \A b \in Lookups : build[b] \in {"reading", "parsing"} => stamp = 0 \/ stamp # source

ParsesSource ==
  \A b \in Lookups :
    /\ build[b] = "parsing" => source # 0 /\ db.data = source
    /\ build[b] = "parsed" => source # 0 /\ db = [data |-> source, whole |-> TRUE]

\* A lookup that is not answered has seen the catalog that is there.
SeesSource == \A l \in Asking : source \in seen[l]

\* What a lookup uses has been begun, and is open when it is told.
UsesOpen ==
  /\ memo # None => build[memo] # "none"
  /\ \A l \in Lookups :
       /\ lookup[l] \in {"waiting", "querying", "found"} =>
            uses[l] # None /\ build[uses[l]] # "none"
       /\ lookup[l] \in {"querying", "found"} => build[uses[l]] = "open"

\* What is about to be opened, or is open, is whole and current for all who use it.
OpensCurrent ==
  \A b \in Lookups : build[b] = "opening" =>
    db.whole /\ \A l \in Lookups : lookup[l] = "waiting" /\ uses[l] = b => db.data \in seen[l]

OpenIsCurrent ==
  \A b \in Lookups : build[b] = "open" =>
    /\ handle[b].file.whole
    /\ \A l \in Lookups : lookup[l] \in {"waiting", "querying", "found"} /\ uses[l] = b =>
         handle[b].file.data \in seen[l]

\* The memoised open answers from the database that is there.
MemoHasFile == memo # None /\ build[memo] = "open" => handle[memo].file = db

Current ==
  /\ StampVouches /\ StampIsStale /\ ParsesSource /\ SeesSource /\ UsesOpen
  /\ OpensCurrent /\ OpenIsCurrent /\ MemoHasFile
LEMMA InitCurrent == Init => Current
  BY DEF Init, Current, StampVouches, StampIsStale, ParsesSource, SeesSource, UsesOpen,
         OpensCurrent, OpenIsCurrent, MemoHasFile, Asking, None

\* What decides whether to build decides right: a build is begun only while the
\* stamp is stale, and skipped only for the database of the catalog that is there.
LEMMA RebuildsIffStale ==
  ASSUME StampVouches
  PROVE  /\ Proceeded = "reading" => stamp = 0 \/ stamp # source
         /\ Proceeded = "opening" => db = [data |-> source, whole |-> TRUE]
         /\ ~NeedsRebuild => db = [data |-> source, whole |-> TRUE]
  BY DEF StampVouches, Proceeded, NeedsRebuild, Absent

LEMMA ClosedKeepsFiles ==
  ASSUME Typed, NEW b, NEW c \in Lookups
  PROVE  Closed(b)[c].file = handle[c].file
<1>1. handle \in [Lookups -> Handles]
  BY DEF Typed, TypeOK
<1>2. CASE c = b
  <2>1. DOMAIN handle[c] = {"state", "file"}
    BY <1>1 DEF Handles
  <2> QED
    BY <1>1, <1>2, <2>1 DEF Closed
<1>3. CASE c # b
  BY <1>1, <1>3 DEF Closed
<1> QED
  BY <1>2, <1>3

\* While one open has the database in hand, nobody else has, and the memo is not
\* an open that ended before.
LEMMA AloneAtWork ==
  ASSUME Queued, NEW b \in Lookups,
         build[b] \in {"superseding", "reading", "parsing", "parsed", "opening"}
  PROVE  /\ \A c \in Lookups \ {b} : build[c] \in {"none", "waiting", "open", "failed"}
         /\ memo # None => build[memo] # "open"
<1> USE DEF Queued, Typed, TypeOK, Running, None
<1>1. b \in Running
  OBVIOUS
<1>2. \A c \in Lookups \ {b} : build[c] \in {"none", "waiting", "open", "failed"}
  BY <1>1 DEF OldestRuns, Lookups
<1>3. memo # None => build[memo] # "open"
  BY <1>1 DEF MemoIsNewest, SettledAreOlder, Settled, Lookups
<1> QED
  BY <1>2, <1>3
StandsStill == ~Reverts /\ ~ChangeDuringBuild /\ ~CloseWhileBusy

LEMMA NextCurrent == StandsStill /\ Queued /\ Current /\ [Next]_vars => Current'
<1> SUFFICES ASSUME StandsStill, Queued, Current, [Next]_vars PROVE Current'
  OBVIOUS
<1>t. /\ Typed
      /\ \A b \in Lookups : build[b] # "none" \/ b = memo => lookup[b] # "idle"
  BY DEF Queued, CalledInOrder
<1>a. /\ memo \in Lookups \union {0}
      /\ source \in Nat /\ newest \in Nat /\ stamp \in Nat
      /\ source <= newest /\ stamp <= newest
      /\ db \in Files /\ \A f \in Files : DOMAIN f = {"data", "whole"}
      /\ build \in [Lookups -> {"none", "waiting", "superseding", "reading", "parsing",
                               "parsed", "opening", "open", "failed"}]
      /\ superseded \in [Lookups -> Lookups \union {0}]
      /\ uses \in [Lookups -> Lookups \union {0}]
      /\ handle \in [Lookups -> Handles]
      /\ seen \in [Lookups -> SUBSET Versions]
      /\ lookup \in [Lookups -> {"idle", "waiting", "querying", "found", "absent",
                                "closed", "failed", "lost"}]
      /\ 0 \notin Lookups
  BY <1>t, Counts DEF Typed, TypeOK, Numbered, None, Lookups, Versions, Files
<1> USE DEF StampVouches, StampIsStale, ParsesSource, SeesSource, UsesOpen, OpensCurrent,
            OpenIsCurrent, MemoHasFile, Asking, None
<1>1. CASE SourceChanges
  <2>1. /\ UNCHANGED <<db, stamp, memo, build, superseded, handle, lookup, uses>>
        /\ \A b \in Lookups : build[b] \notin {"reading", "parsing", "parsed"}
    BY <1>1 DEF SourceChanges, StandsStill, Builders, disk, opens, queries
  <2>2. source' = 0 \/ source' > stamp
    BY <1>1, <1>a DEF SourceChanges, StandsStill
  <2>3. /\ \A l \in Lookups : seen[l] \subseteq seen'[l]
        /\ \A l \in Lookups : lookup[l] \in {"waiting", "querying"} => source' \in seen'[l]
    BY <1>1, <1>a DEF SourceChanges
  <2> QED
    BY <1>a, <2>1, <2>2, <2>3 DEF Current
<1>2. ASSUME NEW l \in Lookups, LookupAbsent(l) PROVE Current'
  BY <1>2, <1>a DEF Current, LookupAbsent, Called, catalog, disk, opens
<1>3. ASSUME NEW l \in Lookups, LookupJoins(l) PROVE Current'
  <2>1. db = [data |-> source, whole |-> TRUE]
    BY <1>3, RebuildsIffStale DEF Current, LookupJoins
  <2> QED
    BY <1>3, <1>a, <2>1 DEF Current, LookupJoins, Called, catalog, disk, opens
<1>4. ASSUME NEW l \in Lookups, LookupOpens(l) PROVE Current'
  <2>1. /\ build[l] = "none" /\ memo # l
        /\ \A k \in Lookups : lookup[k] \in {"waiting", "querying", "found"} => uses[k] # l
    BY <1>4, <1>t, <1>a DEF Current, LookupOpens, Called
  <2>2. /\ UNCHANGED <<source, db, stamp, handle>>
        /\ build' = [build EXCEPT ![l] = IF memo = 0 THEN Proceeded ELSE "waiting"]
        /\ memo' = l
        /\ lookup' = [lookup EXCEPT ![l] = "waiting"]
        /\ uses' = [uses EXCEPT ![l] = l]
        /\ seen' = [seen EXCEPT ![l] = {source}]
    BY <1>4 DEF LookupOpens, catalog, disk
  <2>3. StampVouches' /\ StampIsStale' /\ ParsesSource' /\ SeesSource'
    BY <1>a, <2>1, <2>2, RebuildsIffStale, ProceededTyped DEF Current
  <2>4. UsesOpen' /\ OpenIsCurrent' /\ MemoHasFile'
    BY <1>a, <2>1, <2>2, ProceededTyped DEF Current
  <2>5. OpensCurrent'
    BY <1>a, <2>1, <2>2, RebuildsIffStale, ProceededTyped DEF Current
  <2> QED
    BY <2>3, <2>4, <2>5 DEF Current
<1>5. ASSUME NEW b \in Lookups, build[b] \in {"waiting", "superseding"},
             UNCHANGED <<source, db, stamp, memo, lookup, uses, seen>>,
             \A c \in Lookups : handle'[c].file = handle[c].file,
             build' = [build EXCEPT ![b] = "superseding"]
               \/ build' = [build EXCEPT ![b] = Proceeded]
      PROVE  Current'
  BY <1>5, <1>a, RebuildsIffStale, ProceededTyped DEF Current
<1>6. ASSUME NEW b \in Lookups, Supersede(b) PROVE Current'
  BY <1>5, <1>6, <1>t, ClosedKeepsFiles DEF Supersede, catalog, disk, queries
<1>7. ASSUME NEW b \in Lookups, Superseded(b) PROVE Current'
  BY <1>5, <1>7 DEF Superseded, catalog, disk, queries
<1>8. ASSUME NEW b \in Lookups, BuildReads(b) PROVE Current'
  <2>1. /\ \A c \in Lookups \ {b} : build[c] \in {"none", "waiting", "open", "failed"}
        /\ memo # 0 => build[memo] # "open"
    BY <1>8, AloneAtWork DEF BuildReads
  <2> QED
    BY <1>8, <1>a, <2>1 DEF Current, BuildReads, catalog, queries
<1>9. ASSUME NEW b \in Lookups, BuildParsed(b) PROVE Current'
  <2>1. /\ \A c \in Lookups \ {b} : build[c] \in {"none", "waiting", "open", "failed"}
        /\ memo # 0 => build[memo] # "open"
    BY <1>9, AloneAtWork DEF BuildParsed
  <2>2. db' = [data |-> source, whole |-> TRUE]
    BY <1>9, <1>a DEF Current, BuildParsed, Files
  <2>3. /\ build' = [build EXCEPT ![b] = "parsed"] /\ source # 0
        /\ UNCHANGED <<source, stamp, memo, superseded, handle, lookup, uses, seen>>
    BY <1>9 DEF Current, BuildParsed, catalog, queries
  <2>4. StampVouches' /\ StampIsStale' /\ ParsesSource' /\ SeesSource'
    BY <1>a, <2>1, <2>2, <2>3 DEF Current
  <2>5. UsesOpen' /\ OpensCurrent' /\ OpenIsCurrent' /\ MemoHasFile'
    BY <1>9, <1>a, <2>1, <2>3 DEF Current, BuildParsed
  <2> QED
    BY <2>4, <2>5 DEF Current
<1>10. ASSUME NEW b \in Lookups, BuildStamps(b) PROVE Current'
  <2>1. \A c \in Lookups \ {b} : build[c] \in {"none", "waiting", "open", "failed"}
    BY <1>10, AloneAtWork DEF BuildStamps
  <2> QED
    BY <1>10, <1>a, <2>1 DEF Current, BuildStamps, catalog, queries
<1>11. ASSUME NEW b \in Lookups, BuildOpens(b) PROVE Current'
  BY <1>11, <1>a DEF Current, BuildOpens, catalog, disk, queries
<1>12. ASSUME NEW b \in Lookups, BuildFails(b) PROVE Current'
  <2>1. /\ \A c \in Lookups \ {b} : build[c] \in {"none", "waiting", "open", "failed"}
        /\ memo # 0 => build[memo] # "open"
    BY <1>12, AloneAtWork DEF BuildFails
  <2>2. db' = db \/ (build[b] = "parsing" /\ db' = Absent)
    BY <1>12 DEF BuildFails, Leftovers
  <2> QED
    BY <1>12, <1>a, <2>1, <2>2 DEF Current, BuildFails, catalog, queries
<1>13. ASSUME NEW l \in Lookups, LookupTold(l) PROVE Current'
  BY <1>13, <1>a DEF Current, LookupTold, Settled, catalog, disk, opens
<1>14. ASSUME NEW l \in Lookups, LookupEnds(l) PROVE Current'
  BY <1>14, <1>a DEF Current, LookupEnds, catalog, disk, opens
<1>15. CASE Close
  BY <1>15, <1>a DEF Current, Close, catalog, disk, opens, queries
<1>16. ASSUME NEW b \in Lookups, CloseHandle(b) PROVE Current'
  <2>1. \A c \in Lookups : handle'[c].file = handle[c].file
    BY <1>16, <1>t, ClosedKeepsFiles DEF CloseHandle
  <2> QED
    BY <1>16, <1>a, <2>1 DEF Current, CloseHandle, catalog, disk, queries
<1>17. CASE Crash
  <2>1. db' = db \/ \E b \in Lookups : build[b] = "parsing" /\ db' = Absent
    BY <1>17 DEF Crash, Leftovers
  <2>2. stamp' = stamp \/ stamp' = 0
    BY <1>17 DEF Crash
  <2>3. StampVouches'
    BY <1>17, <1>a, <2>1, <2>2 DEF Current, Crash, catalog
  <2> QED
    BY <1>17, <2>3 DEF Current, Crash
<1>18. CASE UNCHANGED vars
  BY <1>18 DEF Current, vars, catalog, disk, opens, queries
<1> QED
  BY <1>1, <1>2, <1>3, <1>4, <1>6, <1>7, <1>8, <1>9, <1>10, <1>11, <1>12, <1>13, <1>14,
     <1>15, <1>16, <1>17, <1>18 DEF Next, Isolate

LEMMA CurrentMeansAnswered == Typed /\ Current => AnswerIsCurrent
  BY DEF Typed, TypeOK, Current, UsesOpen, OpenIsCurrent, AnswerIsCurrent, None

\* As long as nobody closes the cache during a lookup, and the catalog holds still
\* while it is parsed and does not come back, every lookup answers from a complete
\* database of a catalog that was current during the lookup, whatever builds fail
\* and wherever the process crashes (catalogNeedsRebuild(), stampCatalogSource(),
\* _openCatalog()).
THEOREM LookupsAnswerCurrent == StandsStill => (Safety => []AnswerIsCurrent)
<1> SUFFICES ASSUME StandsStill PROVE Safety => []AnswerIsCurrent
  OBVIOUS
<1>1. Queued /\ [Next]_vars => Queued'
  BY NextQueued DEF StandsStill
<1>2. Queued /\ Current /\ [Next]_vars => Current'
  BY NextCurrent
<1>3. Queued /\ Current => AnswerIsCurrent
  BY CurrentMeansAnswered DEF Queued
<1> QED
  BY <1>1, <1>2, <1>3, InitQueued, InitCurrent, PTL DEF Safety
=============================================================================
