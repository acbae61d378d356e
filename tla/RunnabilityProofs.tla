-------------------------- MODULE RunnabilityProofs --------------------------
(***************************************************************************)
(* Proofs about Runnability for every set of calls, refs, runtimes,        *)
(* extensions and registrations: type correctness, and AnswersWitnessed.   *)
(***************************************************************************)
EXTENDS Runnability, FiniteSetTheorems, SequenceTheorems, TLAPS

-----------------------------------------------------------------------------
(***************************************************************************)
(* What is filtered.                                                       *)
(***************************************************************************)

\* How many of the places come up to this one.
Rank(places, i) == Cardinality({j \in places : j <= i})

LEMMA Ranked ==
  ASSUME NEW n \in Nat, NEW places \in SUBSET (1..n)
  PROVE  /\ Cardinality(places) \in Nat
         /\ \A i \in places : Rank(places, i) \in 1..Cardinality(places)
         /\ \A i, j \in places : i < j => Rank(places, i) # Rank(places, j)
<1> DEFINE upTo(i) == {j \in places : j <= i}
<1>0. IsFiniteSet(1..n)
  BY FS_Interval
<1>1. IsFiniteSet(places)
  BY <1>0, FS_Subset
<1>2. \A i \in places : IsFiniteSet(upTo(i)) /\ Cardinality(upTo(i)) <= Cardinality(places)
  <2> SUFFICES ASSUME NEW i \in places
               PROVE  IsFiniteSet(upTo(i)) /\ Cardinality(upTo(i)) <= Cardinality(places)
    OBVIOUS
  <2>1. upTo(i) \in SUBSET places
    OBVIOUS
  <2> QED
    BY <1>1, <2>1, FS_Subset
<1>3. ASSUME NEW i \in places PROVE Rank(places, i) \in 1..Cardinality(places)
  <2>1. i \in upTo(i) /\ Rank(places, i) = Cardinality(upTo(i))
    BY DEF Rank
  <2> HIDE DEF upTo
  <2>2. Cardinality(upTo(i)) \in Nat /\ Cardinality(upTo(i)) # 0
    BY <1>2, <2>1, FS_CardinalityType, FS_EmptySet
  <2> QED
    BY <1>1, <1>2, <2>1, <2>2, FS_CardinalityType
<1>4. ASSUME NEW i \in places, NEW j \in places, i < j, Rank(places, i) = Rank(places, j)
      PROVE  FALSE
  <2>0. i \in Int /\ j \in Int /\ \A k \in places : k \in Int
    OBVIOUS
  <2>1. \A k \in upTo(i) : k \in places /\ k <= j
    BY <1>4, <2>0
  <2>2. upTo(i) \in SUBSET upTo(j) /\ j \in upTo(j) /\ j \notin upTo(i)
    <3>1. upTo(i) \subseteq upTo(j)
      BY <2>1
    <3> QED
      BY <1>4, <2>0, <3>1
  <2>3. IsFiniteSet(upTo(j)) /\ Cardinality(upTo(i)) = Cardinality(upTo(j))
    BY <1>2, <1>4 DEF Rank
  <2> HIDE DEF upTo
  <2> QED
    BY <2>2, <2>3, FS_Subset
<1> QED
  BY <1>1, <1>3, <1>4, FS_CardinalityType

\* Every rank is that of a place.
LEMMA RanksTaken ==
  ASSUME NEW n \in Nat, NEW places \in SUBSET (1..n), NEW k \in 1..Cardinality(places)
  PROVE  \E i \in places : Rank(places, i) = k
<1> DEFINE m == Cardinality(places)
           f == [i \in places |-> Rank(places, i)]
<1>1. m \in Nat /\ f \in [places -> 1..m]
  BY Ranked
<1>2. \A i, j \in places : f[i] = f[j] => i = j
  <2>1. \A i, j \in places : i < j \/ j < i \/ i = j
    OBVIOUS
  <2>2. \A i, j \in places : Rank(places, i) = Rank(places, j) => i = j
    BY <2>1, Ranked
  <2> QED
    BY <2>2
<1>3. IsFiniteSet(1..m) /\ Cardinality(1..m) = m
  BY <1>1, FS_Interval
<1> HIDE DEF f
<1>4. f \in Injection(places, 1..m)
  BY <1>1, <1>2 DEF Injection, IsInjective
<1>5. f \in Surjection(places, 1..m)
  BY <1>3, <1>4, FS_Injection
<1>6. \E i \in places : f[i] = k
  BY <1>5 DEF Surjection
<1> QED
  BY <1>6 DEF f

\* The rows at the places, and no others.
LEMMA FilteredIs ==
  ASSUME NEW S, NEW list \in Seq(S), NEW places \in SUBSET DOMAIN list
  PROVE  /\ Cardinality(places) \in Nat
         /\ Filtered(list, places) \in Seq({list[i] : i \in places})
         /\ Len(Filtered(list, places)) = Cardinality(places)
         /\ ToSet(Filtered(list, places)) = {list[i] : i \in places}
<1> DEFINE n == Len(list)
           m == Cardinality(places)
           At(k) == CHOOSE i \in places : Rank(places, i) = k
           passed == Filtered(list, places)
<1>1. n \in Nat /\ places \in SUBSET (1..n)
  OBVIOUS
<1>2. passed = [k \in 1..m |-> list[At(k)]]
  BY DEF Filtered, Rank
<1> HIDE DEF n, passed
<1>3. m \in Nat
  BY <1>1, Ranked
<1>4. \A k \in 1..m : At(k) \in places /\ Rank(places, At(k)) = k
  BY <1>1, RanksTaken
<1>5. ASSUME NEW i \in places
      PROVE  Rank(places, i) \in 1..m /\ At(Rank(places, i)) = i
  <2>1. Rank(places, i) \in 1..m
    BY <1>1, Ranked
  <2>2. At(Rank(places, i)) \in places /\ Rank(places, At(Rank(places, i))) = Rank(places, i)
    BY <1>4, <2>1
  <2>3. \A j \in places : j < i \/ i < j \/ i = j
    BY <1>1
  <2> HIDE DEF At
  <2> QED
    BY <1>1, <2>1, <2>2, <2>3, Ranked
<1> HIDE DEF At, m
<1>6. \A k \in 1..m : passed[k] \in {list[i] : i \in places}
  BY <1>2, <1>4
<1>7. passed \in Seq({list[i] : i \in places}) /\ Len(passed) = m
  BY <1>2, <1>3, <1>6
<1>8. {passed[k] : k \in 1..m} = {list[i] : i \in places}
  <2>1. \A i \in places : passed[Rank(places, i)] = list[i]
    BY <1>2, <1>5
  <2> QED
    BY <1>5, <1>6, <2>1
<1>9. ToSet(passed) = {passed[k] : k \in 1..m}
  BY <1>2 DEF ToSet
<1> QED
  BY <1>3, <1>7, <1>8, <1>9 DEF passed, m

-----------------------------------------------------------------------------
(***************************************************************************)
(* The types, and what a call has been told by the place it has reached.   *)
(***************************************************************************)

Moments ==
  [runs : SUBSET Arches, fails : SUBSET Arches, there : SUBSET Runtimes,
   missing : SUBSET Runtimes]

Placed(c) ==
  /\ pc[c] = "idle" => hint[c] = NoHint
  /\ pc[c] \in {"installed", "needed", "info", "install"} => runtime[c] # Null
  /\ pc[c] \in {"extensionsInfo", "extend"} => missing[c] # <<>>

Typed ==
  /\ TypeOK
  /\ missing \in [Calls -> Seq(Runtimes)]
  /\ past \in [Calls -> Moments] /\ steady \in [Calls -> BOOLEAN]
  /\ \A c \in Calls : Placed(c)

\* What the cache may answer the kernel executed at some moment since it was
\* last empty.
Cached == Truth(handlers) \in kernels /\ (cache.fresh => cache.arches \in kernels)

\* checkRunnable() and listApplications(): what is known of the ref meant.
Checked(c) ==
  /\ pc[c] = "list" => rows[c] = installed
  /\ pc[c] \in {"app", "runtime", "installed"} => told[c] = Selected(hint[c])
  /\ pc[c] \in {"runtime", "installed"} =>
       told[c] # NoRef /\ told[c].arch \in past[c].runs /\ runtime[c] = Declares[told[c]]
  /\ pc[c] = "installed" =>
       runtime[c] \in IF present[c] THEN past[c].there ELSE past[c].missing

\* ensureRuntime(): the runtime is the one that the current ref declares.
Ensured(c) ==
  /\ Provisions(c) => hint[c] = NoHint
  /\ pc[c] = "ensure" => runtime[c] = IF current = NoRef THEN Null ELSE Declares[current]
  /\ pc[c] \in {"needed", "info", "install"} =>
       current # NoRef /\ runtime[c] = Declares[current]
  /\ pc[c] = "needed" /\ present[c] => runtime[c] \in past[c].there

\* installExtensions(): what the current ref needs has been there, or is still
\* to be installed.
Extended(c) ==
  /\ pc[c] \in {"extensions", "extensionsInfo", "extend"} =>
       /\ told[c] = current
       /\ current # NoRef =>
            \A g \in Needs(current) : \E b \in Acceptable(g, current) :
              ExtensionRef(current, g.id, b) \in past[c].there \union ToSet(missing[c])
  /\ pc[c] \in {"extensionsInfo", "extend"} => current # NoRef

Answered(c) ==
  VerdictWitnessed(c) /\ ListWitnessed(c) /\ EnsureInstalls(c) /\ ExtensionsInstalled(c)

Witnessed(c) == steady[c] => Checked(c) /\ Ensured(c) /\ Extended(c) /\ Answered(c)

Faithful == Cached /\ \A c \in Calls : Witnessed(c)

Inv == Typed /\ Faithful

-----------------------------------------------------------------------------
(***************************************************************************)
(* Which ref is meant.                                                     *)
(***************************************************************************)

LEMMA RefsAre ==
  ASSUME NEW r \in Refs
  PROVE  /\ r = [arch |-> r.arch, branch |-> r.branch]
         /\ r.arch # Null /\ r.branch # Null /\ r # NoRef
         /\ r.arch \in Arches
  BY RefsAssumption DEF Arches

\* The first of some refs is one of them.
LEMMA FirstIsListed ==
  ASSUME NEW refs \in SUBSET Refs
  PROVE  IF refs = {} THEN FirstListed(refs) = NoRef ELSE FirstListed(refs) \in refs
<1> DEFINE places == {i \in DOMAIN Listing : Listing[i] \in refs}
<1>1. places \in SUBSET DOMAIN Listing
  OBVIOUS
<1>2. Listing \in Seq(Refs) /\ refs \subseteq {Listing[i] : i \in DOMAIN Listing}
  BY RefsAssumption DEF ToSet
<1>3. refs # {} => places # {}
  BY <1>2
<1>4. /\ Cardinality(places) \in Nat
      /\ Filtered(Listing, places) \in Seq({Listing[i] : i \in places})
      /\ Len(Filtered(Listing, places)) = Cardinality(places)
  BY <1>1, <1>2, FilteredIs
<1>5. ASSUME refs # {} PROVE Filtered(Listing, places)[1] \in refs
  <2>1. IsFiniteSet(DOMAIN Listing)
    <3>1. Len(Listing) \in Nat /\ DOMAIN Listing = 1..Len(Listing)
      BY <1>2
    <3>2. IsFiniteSet(1..Len(Listing))
      BY <3>1, FS_Interval
    <3> QED
      BY <3>1, <3>2
  <2>2. IsFiniteSet(places)
    BY <1>1, <2>1, FS_Subset
  <2>3. Cardinality(places) # 0
    BY <1>3, <1>5, <2>2, FS_EmptySet
  <2>4. 1 \in 1..Len(Filtered(Listing, places))
    BY <1>4, <2>3
  <2>5. Filtered(Listing, places)[1] \in {Listing[i] : i \in places}
    BY <1>4, <2>4, ElementOfSeq
  <2> QED
    BY <2>5
<1> QED
  BY <1>5 DEF FirstListed

\* The refs of the app as libflatpak keeps them.
Kept == installed \subseteq Refs /\ current \in IF installed = {} THEN {NoRef} ELSE installed

LEMMA SelectedIs ==
  ASSUME Kept, NEW h
  PROVE  Selected(h) \in installed \union {NoRef}
<1> DEFINE matches == {r \in installed : Matches(r, h)}
<1>1. FirstListed(matches) \in installed \union {NoRef}
  <2>1. matches \in SUBSET Refs /\ matches \subseteq installed
    BY DEF Kept
  <2> QED
    BY <2>1, FirstIsListed
<1> QED
  BY <1>1 DEF Selected, Kept

\* What is read with no hint is the current ref.
LEMMA SelectedCurrent == Kept => Selected(NoHint) = current
  BY DEF Selected, NoHint, Kept

\* What checkRunnable() reads about is what launch() starts.
LEMMA SelectedLaunches ==
  ASSUME Kept, NEW h \in Hints, ~BranchOnly(h)
  PROVE  LaunchTarget(h) = Selected(h)
<1> DEFINE matches == {r \in installed : Matches(r, h)}
<1>1. matches \in SUBSET Refs
  BY DEF Kept
<1>2. CASE h.arch # Null /\ h.branch # Null
  <2> DEFINE exact == [arch |-> h.arch, branch |-> h.branch]
  <2>1. matches = {r \in installed : r = exact}
    BY <1>2, RefsAre DEF Kept, Matches
  <2>2. LaunchTarget(h) = FirstListed(matches)
    BY <1>2 DEF LaunchTarget
  <2>3. Selected(h) = IF exact \in installed THEN exact ELSE NoRef
    BY <1>2 DEF Selected
  <2> QED
    BY <1>1, <2>1, <2>2, <2>3, FirstIsListed
<1>3. CASE h.arch # Null /\ h.branch = Null
  BY <1>3 DEF LaunchTarget, Selected
<1>4. CASE h.arch = Null /\ h.branch = Null
  <2>1. matches = installed
    BY <1>4 DEF Matches
  <2>2. Selected(h) = current
    BY <1>4 DEF Selected
  <2>3. CASE installed = {}
    <3>1. current = NoRef /\ current \notin matches
      BY <2>1, <2>3 DEF Kept
    <3>2. LaunchTarget(h) = FirstListed({})
      BY <1>4, <2>1, <2>3 DEF LaunchTarget
    <3> QED
      BY <2>2, <3>1, <3>2, FirstIsListed
  <2>4. CASE installed # {}
    BY <1>4, <2>1, <2>2, <2>4 DEF LaunchTarget, Kept
  <2> QED
    BY <2>3, <2>4
<1> QED
  BY <1>2, <1>3, <1>4 DEF BranchOnly

-----------------------------------------------------------------------------
(***************************************************************************)
(* What can run.                                                           *)
(***************************************************************************)

LEMMA MachinesApart ==
  /\ Null \notin DOMAIN Machines
  /\ \A a, b \in DOMAIN Machines : a # b => Machines[a] \intersect Machines[b] = {}
  BY DEF Machines, Null

LEMMA ArchIs ==
  ASSUME NEW m
  PROVE  /\ FlatpakArchFor(m) # Null <=> \E a \in DOMAIN Machines : m \in Machines[a]
         /\ \A a \in DOMAIN Machines : FlatpakArchFor(m) = a <=> m \in Machines[a]
<1>1. CASE \E a \in DOMAIN Machines : m \in Machines[a]
  <2>1. FlatpakArchFor(m) \in DOMAIN Machines /\ m \in Machines[FlatpakArchFor(m)]
    BY <1>1 DEF FlatpakArchFor
  <2> QED
    BY <1>1, <2>1, MachinesApart
<1>2. CASE \A a \in DOMAIN Machines : m \notin Machines[a]
  <2>1. FlatpakArchFor(m) = Null
    BY <1>2 DEF FlatpakArchFor
  <2> QED
    BY <1>2, <2>1, MachinesApart
<1> QED
  BY <1>1, <1>2

\* What the scan of the registrations finds is what the kernel executes.
LEMMA ScanIsTrue ==
  ASSUME NEW regs
  PROVE  Executable(regs) = Truth(regs) /\ Truth(regs) \subseteq DOMAIN Machines
<1> DEFINE usable == {r \in regs : r.enabled /\ r.fixBinary /\ r.exists}
           by(r, a) == \/ r.name \in Machines[a]
                       \/ /\ r.interpreter \in Machines[a]
                          /\ \A b \in DOMAIN Machines : r.name \notin Machines[b]
<1>1. ASSUME NEW r
      PROVE  /\ ArchForHandler(r) \in DOMAIN Machines \union {Null}
             /\ \A a \in DOMAIN Machines : ArchForHandler(r) = a <=> by(r, a)
  <2>1. CASE \E a \in DOMAIN Machines : r.name \in Machines[a]
    <3>1. ArchForHandler(r) = FlatpakArchFor(r.name)
      BY <2>1, ArchIs DEF ArchForHandler
    <3> QED
      BY <2>1, <3>1, ArchIs
  <2>2. CASE \A a \in DOMAIN Machines : r.name \notin Machines[a]
    <3>1. ArchForHandler(r) = FlatpakArchFor(r.interpreter)
      BY <2>2, ArchIs DEF ArchForHandler
    <3>2. FlatpakArchFor(r.interpreter) \in DOMAIN Machines \union {Null}
      BY ArchIs
    <3> QED
      BY <2>2, <3>1, <3>2, ArchIs
  <2> QED
    BY <2>1, <2>2
<1>2. Executable(regs) = {ArchForHandler(r) : r \in usable} \ {Null}
  BY DEF Executable, KernelExecutableArches
<1>3. Truth(regs) = {a \in DOMAIN Machines : \E r \in usable : by(r, a)}
  BY DEF Truth
<1> HIDE DEF by, usable
<1> QED
  BY <1>1, <1>2, <1>3, MachinesApart

\* What isRunnableArch() says is what can run.
LEMMA RunnableIs ==
  ASSUME policy \in Policies, NEW arch, NEW kernel
  PROVE  IsRunnableArch(arch, policy, Host, kernel) <=> Runs(arch, kernel)
<1>1. arch \in CompatibleArches(Host) <=>
        \/ arch = Host
        \/ <<Host, arch>> \in {<<"x86_64", "i386">>, <<"aarch64", "arm">>}
  BY DEF CompatibleArches
<1>2. CASE Host = Null
  BY <1>2 DEF IsRunnableArch, CandidateArches, Runs
<1>3. CASE Host # Null
  <2>1. policy \in {"native", "compatible", "emulated"}
    BY DEF Policies
  <2>2. CASE policy = "native"
    BY <1>3, <2>2 DEF IsRunnableArch, CandidateArches, Runs
  <2>3. CASE policy = "compatible"
    BY <1>1, <1>3, <2>3 DEF IsRunnableArch, CandidateArches, Runs
  <2>4. CASE policy = "emulated"
    BY <1>1, <1>3, <2>4 DEF IsRunnableArch, CandidateArches, Runs
  <2> QED
    BY <2>1, <2>2, <2>3, <2>4
<1> QED
  BY <1>2, <1>3

\* By what the kernel executed at some moment since the cache was last empty.
LEMMA CanRunIs ==
  ASSUME policy \in Policies, Cached, NEW arch
  PROVE  \E k \in kernels : CanRunArch(arch) <=> Runs(arch, k)
<1>1. ExecutableArches \in kernels
  BY ScanIsTrue DEF ExecutableArches, Cached
<1>2. CanRunArch(arch) <=> Runs(arch, ExecutableArches)
  BY RunnableIs DEF CanRunArch
<1> QED
  BY <1>1, <1>2

-----------------------------------------------------------------------------
(***************************************************************************)
(* Which extensions are missing.                                           *)
(***************************************************************************)

Groups ==
  [id : STRING, noAutodownload : BOOLEAN, subdirectories : BOOLEAN,
   versions : Seq(STRING), version : STRING]

\* Any of the branches will do, and there is a first.
LEMMA BranchesAre ==
  ASSUME NEW r, NEW g \in Groups
  PROVE  /\ ToSet(Branches(g, r.branch)) = Acceptable(g, r)
         /\ Branches(g, r.branch)[1] \in Acceptable(g, r)
<1> DEFINE named == {i \in DOMAIN g.versions : g.versions[i] # ""}
<1>1. g.versions \in Seq(STRING)
  BY DEF Groups
<1>2. {g.versions[i] : i \in named} = ToSet(g.versions) \ {""}
  BY DEF ToSet
<1>3. CASE named # {}
  <2> DEFINE kept == Filtered(g.versions, named)
  <2>1. Branches(g, r.branch) = kept
    BY <1>3 DEF Branches
  <2>2. /\ kept \in Seq({g.versions[i] : i \in named})
        /\ ToSet(kept) = {g.versions[i] : i \in named}
    BY <1>1, FilteredIs
  <2>3. Acceptable(g, r) = {g.versions[i] : i \in named} /\ Acceptable(g, r) # {}
    BY <1>2, <1>3 DEF Acceptable
  <2> HIDE DEF kept, named
  <2>4. kept \in Seq(Acceptable(g, r)) /\ ToSet(kept) # {}
    BY <2>2, <2>3
  <2>5. 1 \in DOMAIN kept
    BY <2>4 DEF ToSet
  <2>6. kept[1] \in ToSet(kept)
    BY <2>5 DEF ToSet
  <2> QED
    BY <2>1, <2>2, <2>3, <2>6
<1>4. CASE named = {}
  <2>1. ToSet(g.versions) \ {""} = {}
    BY <1>2, <1>4
  <2>2. Acceptable(g, r) = IF g.version = "" THEN {r.branch} ELSE {g.version}
    BY <2>1 DEF Acceptable
  <2>3. Branches(g, r.branch) = <<IF g.version # "" THEN g.version ELSE r.branch>>
    BY <1>4 DEF Branches
  <2>4. \A x : ToSet(<<x>>) = {x} /\ <<x>>[1] = x
    BY DEF ToSet
  <2> QED
    BY <2>2, <2>3, <2>4
<1> QED
  BY <1>3, <1>4

\* required_extensions() keeps what the author means to be installed.
LEMMA RequiredAre ==
  ASSUME NEW r \in Refs
  PROVE  LET required == RequiredExtensions(Extensions[r], r.branch)
         IN  /\ required \in Seq(ToSet(required))
             /\ ToSet(required) =
                  {[id |-> g.id, branches |-> Branches(g, r.branch)] : g \in Needs(r)}
<1> DEFINE groups == Extensions[r]
           places == {i \in DOMAIN groups : /\ groups[i].id # "" /\ ~groups[i].noAutodownload
                                            /\ ~groups[i].subdirectories}
           kept == Filtered(groups, places)
           Entry(g) == [id |-> g.id, branches |-> Branches(g, r.branch)]
<1>1. groups \in Seq(Groups)
  BY RuntimesAssumption DEF Groups
<1>2. {groups[i] : i \in places} = Needs(r)
  BY DEF Needs, ToSet
<1>3. kept \in Seq(Needs(r)) /\ ToSet(kept) = Needs(r)
  BY <1>1, <1>2, FilteredIs
<1>4. RequiredExtensions(groups, r.branch) = [i \in DOMAIN kept |-> Entry(kept[i])]
  BY DEF RequiredExtensions
<1> HIDE DEF groups, kept, Entry
<1>5. /\ [i \in DOMAIN kept |-> Entry(kept[i])] \in Seq({Entry(g) : g \in ToSet(kept)})
      /\ ToSet([i \in DOMAIN kept |-> Entry(kept[i])]) = {Entry(g) : g \in ToSet(kept)}
  BY <1>3 DEF ToSet
<1> QED
  BY <1>3, <1>4, <1>5 DEF groups, Entry

\* list_missing_extensions() passes over nothing that is needed and not there.
LEMMA MissingAre ==
  ASSUME NEW r \in Refs
  PROVE  /\ MissingExtensions(r) \in Seq(Runtimes)
         /\ \A g \in Needs(r) : \E b \in Acceptable(g, r) :
              ExtensionRef(r, g.id, b) \in runtimes \union ToSet(MissingExtensions(r))
<1> DEFINE required == RequiredExtensions(Extensions[r], r.branch)
           Absent(e) == \A b \in ToSet(e.branches) : ~RefIsInstalled(ExtensionRef(r, e.id, b))
           places == {i \in DOMAIN required : Absent(required[i])}
           absent == Filtered(required, places)
           First(e) == ExtensionRef(r, e.id, e.branches[1])
<1>1. /\ required \in Seq(ToSet(required))
      /\ ToSet(required) = {[id |-> g.id, branches |-> Branches(g, r.branch)] : g \in Needs(r)}
  BY RequiredAre
<1>2. \A e \in ToSet(required) : First(e) \in Runtimes
  BY RuntimesAssumption
<1>3. MissingExtensions(r) = [i \in DOMAIN absent |-> First(absent[i])]
  BY DEF MissingExtensions
<1>4. \A g \in Needs(r) : g \in Groups
  <2>1. Extensions[r] \in Seq(Groups)
    BY RuntimesAssumption DEF Groups
  <2> DEFINE groups == Extensions[r]
  <2>2. \A i \in DOMAIN groups : groups[i] \in Groups
    BY <2>1, ElementOfSeq
  <2> QED
    BY <2>2 DEF Needs, ToSet
<1> HIDE DEF required, Absent
<1>5. {required[i] : i \in places} = {e \in ToSet(required) : Absent(e)}
  BY DEF ToSet
<1>6. /\ absent \in Seq({e \in ToSet(required) : Absent(e)})
      /\ ToSet(absent) = {e \in ToSet(required) : Absent(e)}
  <2>1. places \in SUBSET DOMAIN required
    OBVIOUS
  <2> HIDE DEF places
  <2>2. absent \in Seq({required[i] : i \in places}) /\ ToSet(absent) = {required[i] : i \in places}
    BY <1>1, <2>1, FilteredIs
  <2> QED
    BY <1>5, <2>2
<1> HIDE DEF absent, places, First
<1>7. /\ MissingExtensions(r) \in Seq({First(e) : e \in ToSet(absent)})
      /\ ToSet(MissingExtensions(r)) = {First(e) : e \in ToSet(absent)}
  BY <1>3, <1>6 DEF ToSet
<1>8. MissingExtensions(r) \in Seq(Runtimes)
  BY <1>2, <1>6, <1>7
<1>9. ASSUME NEW g \in Needs(r)
      PROVE  \E b \in Acceptable(g, r) :
               ExtensionRef(r, g.id, b) \in runtimes \union ToSet(MissingExtensions(r))
  <2> DEFINE e == [id |-> g.id, branches |-> Branches(g, r.branch)]
  <2>1. e \in ToSet(required)
    BY <1>1
  <2>2. ToSet(e.branches) = Acceptable(g, r) /\ e.branches[1] \in Acceptable(g, r)
    BY <1>4, BranchesAre
  <2>3. CASE Absent(e)
    <3>1. First(e) \in ToSet(MissingExtensions(r))
      BY <1>6, <1>7, <2>1, <2>3
    <3> QED
      BY <2>2, <3>1 DEF First
  <2>4. CASE ~Absent(e)
    BY <2>2, <2>4 DEF Absent, RefIsInstalled
  <2> QED
    BY <2>3, <2>4
<1> QED
  BY <1>8, <1>9

-----------------------------------------------------------------------------
(***************************************************************************)
(* Steps.                                                                  *)
(***************************************************************************)

\* A step of a call, the first one included.
CallStep(d) ==
  \/ \E h \in Hints : CheckRunnable(d, h)
  \/ ListApplications(d) \/ EnsureRuntime(d) \/ InstallExtensions(d) \/ Step(d)

\* What is a call's own.
Local(d) ==
  /\ pc' = [pc EXCEPT ![d] = pc'[d]]
  /\ hint' = [hint EXCEPT ![d] = hint'[d]]
  /\ told' = [told EXCEPT ![d] = told'[d]]
  /\ rows' = [rows EXCEPT ![d] = rows'[d]]
  /\ runtime' = [runtime EXCEPT ![d] = runtime'[d]]
  /\ present' = [present EXCEPT ![d] = present'[d]]
  /\ missing' = [missing EXCEPT ![d] = missing'[d]]
  /\ verdict' = [verdict EXCEPT ![d] = verdict'[d]]

\* A call changes neither the refs nor what can run.
SameHost ==
  /\ UNCHANGED <<installed, current, handlers, policy, kernels, changes>>
  /\ UNCHANGED cache \/ Consult

LEMMA InitTyped == Init => Typed
<1> SUFFICES ASSUME Init PROVE Typed
  OBVIOUS
<1> USE DEF Init
<1>1. NoHint \in Hints
  BY DEF NoHint, Hints
<1>2. NoMoment \in Moments
  BY DEF NoMoment, Moments
<1>3. \A c \in Calls : ToSet(missing[c]) \subseteq Runtimes /\ <<>> \in Seq(Runtimes)
  BY DEF ToSet
<1>4. TypeOK
  <2>1. changes \in 0..MaxChanges
    BY RefsAssumption
  <2>2. cache \in [arches : SUBSET DOMAIN Machines, fresh : BOOLEAN]
    OBVIOUS
  <2>3. policy \in Policies
    BY DEF Policies
  <2> QED
    BY <1>1, <1>3, <2>1, <2>2, <2>3 DEF TypeOK, Places
<1>5. \A c \in Calls : Placed(c)
  BY DEF Placed
<1> QED
  BY <1>2, <1>3, <1>4, <1>5 DEF Typed

\* The history keeps its type.
LEMMA WitnessTyped ==
  ASSUME Typed, Witness, runtimes' \subseteq Runtimes
  PROVE  past' \in [Calls -> Moments] /\ steady' \in [Calls -> BOOLEAN]
<1>1. Moment' \in Moments
  BY DEF Moment, Moments
<1>2. ASSUME NEW m \in Moments
      PROVE  [f \in DOMAIN NoMoment |-> m[f] \union Moment'[f]] \in Moments
  <2>1. DOMAIN NoMoment = {"runs", "fails", "there", "missing"}
    BY DEF NoMoment
  <2> QED
    BY <1>1, <2>1 DEF Moments
<1>3. past' \in [Calls -> Moments]
  BY <1>2 DEF Witness, Typed
<1>4. steady' \in [Calls -> BOOLEAN]
  BY DEF Witness, Typed
<1> QED
  BY <1>3, <1>4

\* The types of what the steps write.
LEMMA WritesTyped ==
  ASSUME Typed
  PROVE  /\ Kept
         /\ \A h : Selected(h) \in Refs \union {NoRef}
         /\ \A r \in Refs : Declares[r] \in Runtimes \union {Null}
         /\ Consult => cache' \in [arches : SUBSET DOMAIN Machines, fresh : BOOLEAN]
<1>1. Kept
  BY DEF Typed, TypeOK, Kept
<1>2. \A h : Selected(h) \in Refs \union {NoRef}
  BY <1>1, SelectedIs DEF Kept
<1>3. \A r \in Refs : Declares[r] \in Runtimes \union {Null}
  BY RuntimesAssumption
<1>4. ExecutableArches \subseteq DOMAIN Machines
  BY ScanIsTrue DEF ExecutableArches, Typed, TypeOK
<1>5. Consult => cache' \in [arches : SUBSET DOMAIN Machines, fresh : BOOLEAN]
  BY <1>4 DEF Consult
<1> QED
  BY <1>1, <1>2, <1>3, <1>5

\* A step of a call is its own, and changes nothing that another may look at.
LEMMA CallStays ==
  ASSUME NEW d \in Calls, CallStep(d), Typed
  PROVE  SameHost /\ Local(d)
<1> USE DEF SameHost, Local, env, calls, lacking, Goto, Complete, Typed, TypeOK
<1>1. ASSUME NEW h \in Hints, CheckRunnable(d, h)
      PROVE  SameHost /\ Local(d)
  BY <1>1 DEF CheckRunnable, ReadApp
<1>2. CASE ListApplications(d)
  BY <1>2 DEF ListApplications
<1>3. CASE EnsureRuntime(d)
  BY <1>3 DEF EnsureRuntime, ReadRuntime
<1>4. CASE InstallExtensions(d)
  BY <1>4 DEF InstallExtensions, ReadMissing
<1>5. CASE AppNotFound(d)
  BY <1>5 DEF AppNotFound
<1>6. CASE AppOfOtherArch(d)
  BY <1>6 DEF AppOfOtherArch
<1>7. CASE AppFound(d)
  BY <1>7 DEF AppFound, ReadRuntime
<1>8. CASE RuntimeUnknown(d)
  BY <1>8 DEF RuntimeUnknown
<1>9. CASE RuntimeKnown(d)
  BY <1>9 DEF RuntimeKnown, ReadInstalled
<1>10. CASE InstalledKnown(d)
  BY <1>10 DEF InstalledKnown
<1>11. CASE ListArrives(d)
  BY <1>11 DEF ListArrives
<1>12. CASE EnsureKnows(d)
  BY <1>12 DEF EnsureKnows, ReadInstalled
<1>13. CASE EnsureNeeds(d)
  BY <1>13 DEF EnsureNeeds, ReadApp
<1>14. CASE EnsureSubmits(d)
  BY <1>14 DEF EnsureSubmits
<1>15. CASE InstallEnds(d)
  BY <1>15 DEF InstallEnds
<1>16. CASE ExtensionsKnown(d)
  BY <1>16 DEF ExtensionsKnown, ReadApp
<1>17. CASE ExtensionsSubmit(d)
  BY <1>17 DEF ExtensionsSubmit
<1>18. CASE ExtensionInstalled(d)
  BY <1>18 DEF ExtensionInstalled
<1>19. CASE ExtensionFails(d)
  BY <1>19 DEF ExtensionFails
<1> QED
  BY <1>1, <1>2, <1>3, <1>4, <1>5, <1>6, <1>7, <1>8, <1>9, <1>10, <1>11, <1>12, <1>13,
     <1>14, <1>15, <1>16, <1>17, <1>18, <1>19 DEF CallStep, Step

\* The types of what one call has.
Verdicts ==
  {"open", "none", "architecture", "runtimeMissing", "notInstalled", "ready", "extended",
   "listed", "failed"}

OwnTyped(d) ==
  /\ pc[d] \in Places /\ hint[d] \in Hints /\ told[d] \in Refs \union {NoRef}
  /\ rows[d] \in SUBSET Refs /\ runtime[d] \in Runtimes \union {Null} /\ present[d] \in BOOLEAN
  /\ missing[d] \in Seq(Runtimes) /\ verdict[d] \in Verdicts
  /\ pc[d] = "done" <=> verdict[d] # "open"
  /\ Placed(d)

LEMMA OwnIsTyped ==
  ASSUME Typed, NEW d \in Calls
  PROVE  OwnTyped(d)
  BY DEF Typed, TypeOK, OwnTyped, Verdicts

LEMMA LocalTyped ==
  ASSUME Typed, NEW d \in Calls, SameHost, Local(d), OwnTyped(d)', runtimes' \subseteq Runtimes,
         Witness
  PROVE  Typed'
<1>1. cache' \in [arches : SUBSET DOMAIN Machines, fresh : BOOLEAN]
  BY WritesTyped DEF SameHost, Typed, TypeOK
<1>2. /\ pc' \in [Calls -> Places] /\ hint' \in [Calls -> Hints]
      /\ told' \in [Calls -> Refs \union {NoRef}] /\ rows' \in [Calls -> SUBSET Refs]
  BY DEF Local, OwnTyped, Typed, TypeOK
<1>3. /\ runtime' \in [Calls -> Runtimes \union {Null}] /\ present' \in [Calls -> BOOLEAN]
      /\ missing' \in [Calls -> Seq(Runtimes)] /\ verdict' \in [Calls -> Verdicts]
  BY DEF Local, OwnTyped, Typed, TypeOK, Verdicts
<1>4. ASSUME NEW c \in Calls
      PROVE  (pc'[c] = "done" <=> verdict'[c] # "open") /\ Placed(c)'
  BY DEF Local, OwnTyped, Typed, TypeOK, Placed
<1>5. ASSUME NEW c \in Calls
      PROVE  ToSet(missing'[c]) \subseteq Runtimes
  BY <1>3 DEF ToSet
<1>6. TypeOK'
  BY <1>1, <1>2, <1>3, <1>4, <1>5 DEF SameHost, Typed, TypeOK, Verdicts
<1> QED
  BY <1>3, <1>4, <1>6, WitnessTyped DEF Typed

LEMMA StepTyped ==
  ASSUME Typed, NEW d \in Calls, CallStep(d)
  PROVE  OwnTyped(d)' /\ runtimes' \subseteq Runtimes
<1>0. /\ OwnTyped(d) /\ Local(d) /\ runtimes \subseteq Runtimes
      /\ \A h : Selected(h) \in Refs \union {NoRef}
      /\ \A r \in Refs : Declares[r] \in Runtimes \union {Null}
  BY OwnIsTyped, CallStays, WritesTyped DEF Typed, TypeOK
<1>typed. /\ pc \in [Calls -> Places] /\ hint \in [Calls -> Hints]
      /\ told \in [Calls -> Refs \union {NoRef}] /\ rows \in [Calls -> SUBSET Refs]
      /\ runtime \in [Calls -> Runtimes \union {Null}] /\ present \in [Calls -> BOOLEAN]
      /\ missing \in [Calls -> Seq(Runtimes)] /\ verdict \in [Calls -> Verdicts]
  BY DEF Typed, TypeOK, Verdicts
<1> USE DEF OwnTyped, Placed, Places, Verdicts, env, lacking, Goto, Complete, ResolveRunnability
<1>1. ASSUME NEW h \in Hints, CheckRunnable(d, h)
      PROVE  OwnTyped(d)' /\ runtimes' \subseteq Runtimes
  BY <1>0, <1>typed, <1>1 DEF CheckRunnable, ReadApp
<1>2. CASE ListApplications(d)
  BY <1>0, <1>typed, <1>2 DEF ListApplications, Typed, TypeOK
<1>3. CASE EnsureRuntime(d)
  BY <1>0, <1>typed, <1>3 DEF EnsureRuntime, ReadRuntime
<1>4. CASE InstallExtensions(d)
  <2>1. \A r \in Refs : MissingExtensions(r) \in Seq(Runtimes)
    BY MissingAre
  <2>2. <<>> \in Seq(Runtimes)
    OBVIOUS
  <2>3. missing'[d] \in Seq(Runtimes) /\ told'[d] \in Refs \union {NoRef}
    BY <1>0, <1>typed, <1>4, <2>1, <2>2 DEF InstallExtensions, ReadMissing
  <2> QED
    BY <1>0, <1>typed, <1>4, <2>3 DEF InstallExtensions
<1>5. CASE AppNotFound(d)
  BY <1>0, <1>typed, <1>5 DEF AppNotFound
<1>6. CASE AppOfOtherArch(d)
  BY <1>0, <1>typed, <1>6 DEF AppOfOtherArch
<1>7. CASE AppFound(d)
  BY <1>0, <1>typed, <1>7 DEF AppFound, ReadRuntime
<1>8. CASE RuntimeUnknown(d)
  BY <1>0, <1>typed, <1>8 DEF RuntimeUnknown
<1>9. CASE RuntimeKnown(d)
  BY <1>0, <1>typed, <1>9 DEF RuntimeKnown, ReadInstalled, RefIsInstalled
<1>10. CASE InstalledKnown(d)
  BY <1>0, <1>typed, <1>10 DEF InstalledKnown
<1>11. CASE ListArrives(d)
  BY <1>0, <1>typed, <1>11 DEF ListArrives
<1>12. CASE EnsureKnows(d)
  <2>1. CASE runtime[d] = Null
    BY <1>0, <1>typed, <1>12, <2>1 DEF EnsureKnows
  <2>2. CASE runtime[d] # Null
    BY <1>0, <1>typed, <1>12, <2>2 DEF EnsureKnows, ReadInstalled, RefIsInstalled
  <2> QED
    BY <2>1, <2>2
<1>13. CASE EnsureNeeds(d)
  <2>1. CASE present[d]
    BY <1>0, <1>typed, <1>13, <2>1 DEF EnsureNeeds
  <2>2. CASE ~present[d]
    BY <1>0, <1>typed, <1>13, <2>2 DEF EnsureNeeds, ReadApp
  <2> QED
    BY <2>1, <2>2
<1>14. CASE EnsureSubmits(d)
  BY <1>0, <1>typed, <1>14 DEF EnsureSubmits
<1>15. CASE InstallEnds(d)
  BY <1>0, <1>typed, <1>15 DEF InstallEnds
<1>16. CASE ExtensionsKnown(d)
  BY <1>0, <1>typed, <1>16 DEF ExtensionsKnown, ReadApp
<1>17. CASE ExtensionsSubmit(d)
  BY <1>0, <1>typed, <1>17 DEF ExtensionsSubmit
<1>18. CASE ExtensionInstalled(d)
  <2>1. pc[d] = "extend" /\ missing[d] # <<>> /\ missing[d] \in Seq(Runtimes)
    BY <1>0, <1>18 DEF ExtensionInstalled
  <2>2. /\ Head(missing[d]) \in Runtimes /\ Tail(missing[d]) \in Seq(Runtimes)
        /\ Len(Tail(missing[d])) = Len(missing[d]) - 1 /\ Len(missing[d]) \in Nat
    BY <2>1, HeadTailProperties
  <2>3. ASSUME Tail(missing[d]) = <<>> PROVE Len(missing[d]) = 1
    <3>1. \A s : s = <<>> => Len(s) = 0
      OBVIOUS
    <3>2. Len(Tail(missing[d])) = 0
      BY <2>3, <3>1
    <3> QED
      BY <2>2, <3>2
  <2>4. missing'[d] = Tail(missing[d])
    BY <1>typed, <1>18 DEF ExtensionInstalled
  <2> QED
    BY <1>0, <1>typed, <1>18, <2>1, <2>2, <2>3, <2>4 DEF ExtensionInstalled
<1>19. CASE ExtensionFails(d)
  BY <1>0, <1>typed, <1>19 DEF ExtensionFails
<1> QED
  BY <1>1, <1>2, <1>3, <1>4, <1>5, <1>6, <1>7, <1>8, <1>9, <1>10, <1>11, <1>12, <1>13,
     <1>14, <1>15, <1>16, <1>17, <1>18, <1>19 DEF CallStep, Step

\* What others do touches no call.
Other ==
  RefsChange \/ RuntimesChange \/ HandlersChange \/ SetArchPolicy \/ CacheExpires
    \/ AskCanRunArch \/ RefreshArchSupport

LEMMA OtherTyped ==
  ASSUME Typed, Other, Witness
  PROVE  Typed' /\ UNCHANGED calls
<1> USE DEF Change, env, Typed, TypeOK
<1>1. UNCHANGED calls
  BY DEF Other, RefsChange, RuntimesChange, HandlersChange, SetArchPolicy, CacheExpires,
         AskCanRunArch, RefreshArchSupport
<1>2. runtimes' \subseteq Runtimes
  BY DEF Other, RefsChange, RuntimesChange, HandlersChange, SetArchPolicy, CacheExpires,
         AskCanRunArch, RefreshArchSupport
<1>3. installed' \subseteq Refs /\ current' \in IF installed' = {} THEN {NoRef} ELSE installed'
  BY DEF Other, RefsChange, RuntimesChange, HandlersChange, SetArchPolicy, CacheExpires,
         AskCanRunArch, RefreshArchSupport
<1>4. handlers' \subseteq Registrations /\ policy' \in Policies
  BY DEF Other, RefsChange, RuntimesChange, HandlersChange, SetArchPolicy, CacheExpires,
         AskCanRunArch, RefreshArchSupport
<1>5. cache' \in [arches : SUBSET DOMAIN Machines, fresh : BOOLEAN]
  <2>1. CASE CacheExpires
    BY <2>1 DEF CacheExpires
  <2>2. CASE AskCanRunArch
    BY <2>2, WritesTyped DEF AskCanRunArch
  <2>3. CASE RefreshArchSupport
    BY <2>3 DEF RefreshArchSupport, Invalidate
  <2>4. CASE RefsChange \/ RuntimesChange \/ HandlersChange \/ SetArchPolicy
    BY <2>4 DEF RefsChange, RuntimesChange, HandlersChange, SetArchPolicy
  <2> QED
    BY <2>1, <2>2, <2>3, <2>4 DEF Other
<1>6. changes' \in 0..MaxChanges
  BY RefsAssumption
     DEF Other, RefsChange, RuntimesChange, HandlersChange, SetArchPolicy, CacheExpires,
         AskCanRunArch, RefreshArchSupport
<1>7. /\ pc' = pc /\ hint' = hint /\ told' = told /\ rows' = rows /\ runtime' = runtime
      /\ present' = present /\ missing' = missing /\ verdict' = verdict
  BY <1>1 DEF calls, lacking
<1>8. past' \in [Calls -> Moments] /\ steady' \in [Calls -> BOOLEAN]
  BY <1>2, WitnessTyped
<1>9. TypeOK'
  BY <1>2, <1>3, <1>4, <1>5, <1>6, <1>7
<1>10. \A c \in Calls : Placed(c)'
  BY <1>7 DEF Placed
<1> QED
  BY <1>1, <1>7, <1>8, <1>9, <1>10

LEMMA NextSteps == Next => Witness /\ (Other \/ \E d \in Calls : CallStep(d))
  BY DEF Next, Others, Other, CallStep

LEMMA NextTyped == Typed /\ [Next]_vars => Typed'
<1> SUFFICES ASSUME Typed, [Next]_vars PROVE Typed'
  OBVIOUS
<1>1. CASE Next
  <2>1. CASE Other
    BY <1>1, <2>1, NextSteps, OtherTyped
  <2>2. ASSUME NEW d \in Calls, CallStep(d) PROVE Typed'
    BY <1>1, <2>2, NextSteps, CallStays, StepTyped, LocalTyped
  <2> QED
    BY <1>1, <2>1, <2>2, NextSteps
<1>2. CASE UNCHANGED vars
  BY <1>2 DEF vars, env, calls, lacking, history, Typed, TypeOK, Placed
<1> QED
  BY <1>1, <1>2

\* The variables keep their types (the calls of checkRunnable(),
\* listApplications(), ensureRuntime() and installExtensions(), the cache).
THEOREM TypeCorrect == Spec => []TypeOK
<1>1. Typed => TypeOK
  BY DEF Typed
<1> QED
  BY <1>1, InitTyped, NextTyped, PTL DEF Spec

-----------------------------------------------------------------------------
(***************************************************************************)
(* The history of a call.                                                  *)
(***************************************************************************)

Same(c) ==
  /\ pc'[c] = pc[c] /\ hint'[c] = hint[c] /\ told'[c] = told[c] /\ rows'[c] = rows[c]
  /\ runtime'[c] = runtime[c] /\ present'[c] = present[c] /\ missing'[c] = missing[c]
  /\ verdict'[c] = verdict[c]

\* What held at some moment of a call goes on to have held.
LEMMA PastGrows ==
  ASSUME Typed, Witness, NEW c \in Calls
  PROVE  /\ past[c].runs \subseteq past'[c].runs /\ past[c].fails \subseteq past'[c].fails
         /\ past[c].there \subseteq past'[c].there /\ past[c].missing \subseteq past'[c].missing
         /\ steady'[c] =>
              steady[c] /\ (pc[c] = "idle" \/ (installed' = installed /\ current' = current))
<1>1. DOMAIN NoMoment = {"runs", "fails", "there", "missing"}
  BY DEF NoMoment
<1>2. past[c] \in Moments /\ steady[c] \in BOOLEAN
  BY DEF Typed
<1>3. /\ past'[c] = IF pc'[c] = "idle" \/ pc[c] = "done" THEN past[c]
                    ELSE [f \in DOMAIN NoMoment |-> past[c][f] \union Moment'[f]]
      /\ steady'[c] =
           (steady[c] /\ (pc[c] = "idle" \/ (installed' = installed /\ current' = current)))
  BY DEF Witness
<1>4. steady'[c] =>
        steady[c] /\ (pc[c] = "idle" \/ (installed' = installed /\ current' = current))
  BY <1>3
<1>5. CASE pc'[c] = "idle" \/ pc[c] = "done"
  BY <1>3, <1>4, <1>5
<1>6. CASE ~(pc'[c] = "idle" \/ pc[c] = "done")
  <2>1. past'[c] = [f \in DOMAIN NoMoment |-> past[c][f] \union Moment'[f]]
    BY <1>3, <1>6
  <2> QED
    BY <1>1, <1>2, <1>4, <2>1 DEF Moments
<1> QED
  BY <1>5, <1>6

\* What holds after a step of a call holds at some moment of it.
LEMMA StepWitnessed ==
  ASSUME Typed, Cached, SameHost, Witness, NEW d \in Calls, pc'[d] # "idle", pc[d] # "done"
  PROVE  /\ \A a \in Arches :
              IF CanRunArch(a) THEN a \in past'[d].runs ELSE a \in past'[d].fails
         /\ runtimes' \subseteq past'[d].there /\ Runtimes \ runtimes' \subseteq past'[d].missing
<1>1. DOMAIN NoMoment = {"runs", "fails", "there", "missing"}
  BY DEF NoMoment
<1>2. past'[d] = [f \in DOMAIN NoMoment |-> past[d][f] \union Moment'[f]]
  BY DEF Witness
<1>3. \A f \in DOMAIN NoMoment : Moment'[f] \subseteq past'[d][f]
  BY <1>2
<1>4. \A a, k : Runs(a, k)' <=> Runs(a, k)
  BY DEF Runs, SameHost
<1>5. /\ Moment'.runs = {a \in Arches : \E k \in kernels : Runs(a, k)}
      /\ Moment'.fails = {a \in Arches : \E k \in kernels : ~Runs(a, k)}
      /\ Moment'.there = runtimes' /\ Moment'.missing = Runtimes \ runtimes'
  <2>1. kernels' = kernels
    BY DEF SameHost
  <2> QED
    BY <1>4, <2>1 DEF Moment
<1>6. \A a \in Arches : IF CanRunArch(a) THEN a \in Moment'.runs ELSE a \in Moment'.fails
  <2>1. policy \in Policies
    BY DEF Typed, TypeOK
  <2> QED
    BY <1>5, <2>1, CanRunIs
<1> QED
  BY <1>1, <1>3, <1>5, <1>6

\* As long as the refs stay, so does the one meant.
LEMMA StillSelected ==
  ASSUME installed' = installed, current' = current, NEW c \in Calls, hint'[c] = hint[c]
  PROVE  /\ Selected(hint[c])' = Selected(hint[c])
         /\ LaunchTarget(hint[c])' = LaunchTarget(hint[c])
  BY DEF Selected, LaunchTarget, Matches

\* A call keeps what it has until its next step.
LEMMA SameWitnessed ==
  ASSUME Typed, Witness, NEW c \in Calls, Same(c), Witnessed(c)
  PROVE  Witnessed(c)'
<1> SUFFICES ASSUME steady'[c] PROVE (Checked(c) /\ Ensured(c) /\ Extended(c) /\ Answered(c))'
  BY DEF Witnessed
<1>1. /\ past[c].runs \subseteq past'[c].runs /\ past[c].fails \subseteq past'[c].fails
      /\ past[c].there \subseteq past'[c].there /\ past[c].missing \subseteq past'[c].missing
      /\ steady[c] /\ (pc[c] = "idle" \/ (installed' = installed /\ current' = current))
  BY PastGrows
<1>2. Checked(c) /\ Ensured(c) /\ Extended(c) /\ Answered(c)
  BY <1>1 DEF Witnessed
<1>3. (pc[c] = "done" <=> verdict[c] # "open") /\ Placed(c)
  BY DEF Typed, TypeOK
<1>4. CASE pc[c] = "idle"
  BY <1>3, <1>4
     DEF Same, Checked, Ensured, Extended, Answered, Provisions, VerdictWitnessed,
         ListWitnessed, EnsureInstalls, ExtensionsInstalled
<1>5. CASE installed' = installed /\ current' = current
  <2>0. /\ Selected(hint[c])' = Selected(hint[c])
        /\ LaunchTarget(hint[c])' = LaunchTarget(hint[c])
    BY <1>5, StillSelected DEF Same
  <2>1. Checked(c)'
    BY <1>1, <1>2, <1>5, <2>0 DEF Checked, Same
  <2>2. Ensured(c)'
    BY <1>1, <1>2, <1>5 DEF Ensured, Same, Provisions
  <2>3. Extended(c)'
    BY <1>1, <1>2, <1>5 DEF Extended, Same
  <2>4. VerdictWitnessed(c)'
    BY <1>1, <1>2, <1>5, <2>0 DEF Answered, VerdictWitnessed, Same
  <2>5. ListWitnessed(c)'
    BY <1>1, <1>2, <1>5 DEF Answered, ListWitnessed, Same
  <2>6. EnsureInstalls(c)'
    BY <1>1, <1>2, <1>5 DEF Answered, EnsureInstalls, Same
  <2>7. ExtensionsInstalled(c)'
    BY <1>1, <1>2, <1>5 DEF Answered, ExtensionsInstalled, Same
  <2> QED
    BY <2>1, <2>2, <2>3, <2>4, <2>5, <2>6, <2>7 DEF Answered
<1> QED
  BY <1>1, <1>4, <1>5

-----------------------------------------------------------------------------
(***************************************************************************)
(* Each step of a call.                                                    *)
(***************************************************************************)

\* What a call that has not answered has yet to show.
LEMMA OpenAnswers ==
  ASSUME NEW c \in Calls, verdict[c] = "open"
  PROVE  Answered(c)
  BY DEF Answered, VerdictWitnessed, ListWitnessed, EnsureInstalls, ExtensionsInstalled

\* What a step of a call d may rely on.
Stepping(d) ==
  /\ Typed /\ Typed' /\ Cached /\ Witness /\ SameHost
  /\ Witnessed(d) /\ steady'[d]

LEMMA SteppingFrom ==
  ASSUME NEW d \in Calls, Stepping(d), pc[d] # "done", pc'[d] # "idle"
  PROVE  /\ Checked(d) /\ Ensured(d) /\ Extended(d) /\ Answered(d) /\ Placed(d) /\ Kept
         /\ \A a \in Arches :
              IF CanRunArch(a) THEN a \in past'[d].runs ELSE a \in past'[d].fails
         /\ runtimes' \subseteq past'[d].there /\ Runtimes \ runtimes' \subseteq past'[d].missing
         /\ past[d].runs \subseteq past'[d].runs /\ past[d].fails \subseteq past'[d].fails
         /\ past[d].there \subseteq past'[d].there /\ past[d].missing \subseteq past'[d].missing
         /\ installed' = installed /\ current' = current
         /\ current # NoRef => current \in Refs
         /\ \A h : Selected(h) \in Refs \union {NoRef}
         /\ pc'[d] # "done" => Answered(d)'
<1>1. Kept /\ \A h : Selected(h) \in Refs \union {NoRef}
  BY WritesTyped DEF Stepping
<1>2. steady[d]
  BY PastGrows DEF Stepping
<1>3. pc'[d] # "done" => verdict'[d] = "open"
  BY DEF Stepping, Typed, TypeOK
<1>4. pc'[d] # "done" => Answered(d)'
  BY <1>3, OpenAnswers DEF Answered, VerdictWitnessed, ListWitnessed, EnsureInstalls, ExtensionsInstalled
<1>5. Placed(d)
  BY DEF Stepping, Typed
<1>6. installed' = installed /\ current' = current
  BY DEF Stepping, SameHost
<1>7. current # NoRef => current \in Refs
  BY <1>1 DEF Kept
<1> QED
  BY <1>1, <1>2, <1>4, <1>5, <1>6, <1>7, PastGrows, StepWitnessed DEF Stepping, Witnessed

\* The reads of checkRunnable().
LEMMA CheckRunnableKeeps ==
  ASSUME NEW d \in Calls, Stepping(d), NEW h \in Hints, CheckRunnable(d, h)
  PROVE  (Checked(d) /\ Ensured(d) /\ Extended(d) /\ Answered(d))'
<1> USE DEF Typed, TypeOK
<1>1. /\ pc[d] = "idle" /\ pc'[d] = "app" /\ hint'[d] = h /\ told'[d] = Selected(h)
  BY DEF Stepping, CheckRunnable, ReadApp, Goto
<1>2. installed' = installed /\ current' = current /\ Answered(d)'
  BY <1>1, SteppingFrom
<1>3. told'[d] = Selected(hint[d])'
  BY <1>1, <1>2 DEF Selected, Matches
<1> QED
  BY <1>1, <1>2, <1>3 DEF Checked, Ensured, Extended, Provisions

LEMMA AppNotFoundKeeps ==
  ASSUME NEW d \in Calls, Stepping(d), AppNotFound(d)
  PROVE  (Checked(d) /\ Ensured(d) /\ Extended(d) /\ Answered(d))'
<1>1. /\ pc[d] = "app" /\ pc'[d] = "done" /\ hint'[d] = hint[d] /\ told[d] = NoRef
      /\ verdict'[d] = "notInstalled"
  BY DEF Stepping, Typed, TypeOK, AppNotFound, Complete, ResolveRunnability
<1>2. Selected(hint[d]) = NoRef /\ Kept /\ installed' = installed /\ current' = current
  BY <1>1, SteppingFrom DEF Checked
<1>3. hint[d] \in Hints
  BY DEF Stepping, Typed, TypeOK
<1>4. ~BranchOnly(hint[d]) => LaunchTarget(hint[d])' = NoRef
  BY <1>1, <1>2, <1>3, SelectedLaunches, StillSelected
<1>5. VerdictWitnessed(d)'
  BY <1>1, <1>4 DEF VerdictWitnessed, BranchOnly
<1> QED
  BY <1>1, <1>5
     DEF Checked, Ensured, Extended, Provisions, Answered, ListWitnessed, EnsureInstalls,
         ExtensionsInstalled

LEMMA AppOfOtherArchKeeps ==
  ASSUME NEW d \in Calls, Stepping(d), AppOfOtherArch(d)
  PROVE  (Checked(d) /\ Ensured(d) /\ Extended(d) /\ Answered(d))'
<1>1. /\ pc[d] = "app" /\ pc'[d] = "done" /\ hint'[d] = hint[d] /\ told[d] # NoRef
      /\ verdict'[d] = "architecture" /\ ~CanRunArch(told[d].arch)
  BY DEF Stepping, Typed, TypeOK, AppOfOtherArch, Complete, ResolveRunnability
<1>2. /\ Selected(hint[d]) = told[d] /\ Kept /\ installed' = installed /\ current' = current
      /\ told[d] \in Refs
      /\ \A a \in Arches : ~CanRunArch(a) => a \in past'[d].fails
  BY <1>1, SteppingFrom DEF Checked
<1>3. hint[d] \in Hints
  BY DEF Stepping, Typed, TypeOK
<1>4. ~BranchOnly(hint[d]) => LaunchTarget(hint[d])' = told[d]
  BY <1>1, <1>2, <1>3, SelectedLaunches, StillSelected
<1>5. told[d].arch \in past'[d].fails
  BY <1>1, <1>2, RefsAre
<1>6. VerdictWitnessed(d)'
  BY <1>1, <1>4, <1>5 DEF VerdictWitnessed, BranchOnly
<1> QED
  BY <1>1, <1>6
     DEF Checked, Ensured, Extended, Provisions, Answered, ListWitnessed, EnsureInstalls,
         ExtensionsInstalled

LEMMA AppFoundKeeps ==
  ASSUME NEW d \in Calls, Stepping(d), AppFound(d)
  PROVE  (Checked(d) /\ Ensured(d) /\ Extended(d) /\ Answered(d))'
<1>1. /\ pc[d] = "app" /\ pc'[d] = "runtime" /\ hint'[d] = hint[d] /\ told'[d] = told[d]
      /\ told[d] # NoRef /\ CanRunArch(told[d].arch)
      /\ runtime'[d] = LET r == Selected(hint[d]) IN IF r = NoRef THEN Null ELSE Declares[r]
  BY DEF Stepping, Typed, TypeOK, AppFound, ReadRuntime, Goto
<1>2. /\ Selected(hint[d]) = told[d] /\ installed' = installed /\ current' = current
      /\ told[d] \in Refs /\ Answered(d)'
      /\ \A a \in Arches : CanRunArch(a) => a \in past'[d].runs
  BY <1>1, SteppingFrom DEF Checked
<1>3. Selected(hint[d])' = told[d]
  BY <1>1, <1>2, StillSelected
<1>4. told[d].arch \in past'[d].runs
  BY <1>1, <1>2, RefsAre
<1> QED
  BY <1>1, <1>2, <1>3, <1>4 DEF Checked, Ensured, Extended, Provisions

LEMMA RuntimeUnknownKeeps ==
  ASSUME NEW d \in Calls, Stepping(d), RuntimeUnknown(d)
  PROVE  (Checked(d) /\ Ensured(d) /\ Extended(d) /\ Answered(d))'
<1>1. /\ pc[d] = "runtime" /\ pc'[d] = "done" /\ hint'[d] = hint[d] /\ runtime[d] = Null
      /\ verdict'[d] = "none"
  BY DEF Stepping, Typed, TypeOK, RuntimeUnknown, Complete, ResolveRunnability
<1>2. /\ Selected(hint[d]) = told[d] /\ Kept /\ installed' = installed /\ current' = current
      /\ told[d] # NoRef /\ told[d].arch \in past'[d].runs /\ Declares[told[d]] = Null
  BY <1>1, SteppingFrom DEF Checked
<1>3. hint[d] \in Hints
  BY DEF Stepping, Typed, TypeOK
<1>4. ~BranchOnly(hint[d]) => LaunchTarget(hint[d])' = told[d]
  BY <1>1, <1>2, <1>3, SelectedLaunches, StillSelected
<1>5. VerdictWitnessed(d)'
  BY <1>1, <1>2, <1>4 DEF VerdictWitnessed, BranchOnly
<1> QED
  BY <1>1, <1>5
     DEF Checked, Ensured, Extended, Provisions, Answered, ListWitnessed, EnsureInstalls,
         ExtensionsInstalled

LEMMA RuntimeKnownKeeps ==
  ASSUME NEW d \in Calls, Stepping(d), RuntimeKnown(d)
  PROVE  (Checked(d) /\ Ensured(d) /\ Extended(d) /\ Answered(d))'
<1>1. /\ pc[d] = "runtime" /\ pc'[d] = "installed" /\ hint'[d] = hint[d] /\ told'[d] = told[d]
      /\ runtime'[d] = runtime[d] /\ runtime[d] # Null
      /\ present'[d] = (runtime[d] \in runtimes) /\ runtimes' = runtimes
      /\ runtime[d] \in Runtimes
  BY DEF Stepping, Typed, TypeOK, RuntimeKnown, ReadInstalled, RefIsInstalled, Goto, env
<1>2. /\ Selected(hint[d]) = told[d] /\ installed' = installed /\ current' = current
      /\ told[d] # NoRef /\ told[d].arch \in past'[d].runs /\ runtime[d] = Declares[told[d]]
      /\ Answered(d)'
      /\ runtimes' \subseteq past'[d].there /\ Runtimes \ runtimes' \subseteq past'[d].missing
  BY <1>1, SteppingFrom DEF Checked
<1>3. Selected(hint[d])' = told[d]
  BY <1>1, <1>2, StillSelected
<1>4. runtime'[d] \in IF present'[d] THEN past'[d].there ELSE past'[d].missing
  BY <1>1, <1>2
<1> QED
  BY <1>1, <1>2, <1>3, <1>4 DEF Checked, Ensured, Extended, Provisions

LEMMA InstalledKnownKeeps ==
  ASSUME NEW d \in Calls, Stepping(d), InstalledKnown(d)
  PROVE  (Checked(d) /\ Ensured(d) /\ Extended(d) /\ Answered(d))'
<1>1. /\ pc[d] = "installed" /\ pc'[d] = "done" /\ hint'[d] = hint[d]
      /\ verdict'[d] = IF runtime[d] # Null /\ ~present[d] THEN "runtimeMissing" ELSE "none"
  BY DEF Stepping, Typed, TypeOK, InstalledKnown, Complete, ResolveRunnability
<1>2. /\ Selected(hint[d]) = told[d] /\ Kept /\ installed' = installed /\ current' = current
      /\ told[d] # NoRef /\ told[d].arch \in past'[d].runs
      /\ runtime[d] = Declares[told[d]] /\ runtime[d] # Null
      /\ runtime[d] \in IF present[d] THEN past'[d].there ELSE past'[d].missing
  BY <1>1, SteppingFrom DEF Checked, Placed
<1>3. hint[d] \in Hints
  BY DEF Stepping, Typed, TypeOK
<1>4. ~BranchOnly(hint[d]) => LaunchTarget(hint[d])' = told[d]
  BY <1>1, <1>2, <1>3, SelectedLaunches, StillSelected
<1>5. VerdictWitnessed(d)'
  BY <1>1, <1>2, <1>4 DEF VerdictWitnessed, BranchOnly
<1> QED
  BY <1>1, <1>5
     DEF Checked, Ensured, Extended, Provisions, Answered, ListWitnessed, EnsureInstalls,
         ExtensionsInstalled

\* The reads of listApplications().
LEMMA ListApplicationsKeeps ==
  ASSUME NEW d \in Calls, Stepping(d), ListApplications(d)
  PROVE  (Checked(d) /\ Ensured(d) /\ Extended(d) /\ Answered(d))'
<1>1. pc[d] = "idle" /\ pc'[d] = "list" /\ rows'[d] = installed
  BY DEF Stepping, Typed, TypeOK, ListApplications, Goto
<1>2. installed' = installed /\ Answered(d)'
  BY <1>1, SteppingFrom
<1> QED
  BY <1>1, <1>2 DEF Checked, Ensured, Extended, Provisions

LEMMA ListArrivesKeeps ==
  ASSUME NEW d \in Calls, Stepping(d), ListArrives(d)
  PROVE  (Checked(d) /\ Ensured(d) /\ Extended(d) /\ Answered(d))'
<1>1. /\ pc[d] = "list" /\ pc'[d] = "done" /\ verdict'[d] = "listed"
      /\ rows'[d] = {r \in rows[d] : CanRunArch(r.arch)}
  BY DEF Stepping, Typed, TypeOK, ListArrives, Complete
<1>2. /\ rows[d] = installed /\ installed' = installed /\ installed \subseteq Refs
      /\ \A a \in Arches :
           IF CanRunArch(a) THEN a \in past'[d].runs ELSE a \in past'[d].fails
  BY <1>1, SteppingFrom DEF Checked, Kept
<1>3. \A r \in installed : r.arch \in IF r \in rows'[d] THEN past'[d].runs ELSE past'[d].fails
  BY <1>1, <1>2, RefsAre
<1>4. ListWitnessed(d)'
  BY <1>2, <1>3 DEF ListWitnessed
<1> QED
  BY <1>1, <1>4
     DEF Checked, Ensured, Extended, Provisions, Answered, VerdictWitnessed, EnsureInstalls,
         ExtensionsInstalled

\* The reads of ensureRuntime(), and its transaction.
LEMMA EnsureRuntimeKeeps ==
  ASSUME NEW d \in Calls, Stepping(d), EnsureRuntime(d)
  PROVE  (Checked(d) /\ Ensured(d) /\ Extended(d) /\ Answered(d))'
<1>1. /\ pc[d] = "idle" /\ pc'[d] = "ensure" /\ hint'[d] = hint[d]
      /\ runtime'[d] = LET r == Selected(hint[d]) IN IF r = NoRef THEN Null ELSE Declares[r]
  BY DEF Stepping, Typed, TypeOK, EnsureRuntime, ReadRuntime, Goto
<1>2. hint[d] = NoHint /\ current' = current /\ Answered(d)' /\ Kept
  BY <1>1, SteppingFrom DEF Placed
<1>3. runtime'[d] = IF current = NoRef THEN Null ELSE Declares[current]
  BY <1>1, <1>2, SelectedCurrent
<1> QED
  BY <1>1, <1>2, <1>3 DEF Checked, Ensured, Extended, Provisions, NoHint

LEMMA EnsureKnowsKeeps ==
  ASSUME NEW d \in Calls, Stepping(d), EnsureKnows(d)
  PROVE  (Checked(d) /\ Ensured(d) /\ Extended(d) /\ Answered(d))'
<1>1. pc[d] = "ensure" /\ hint'[d] = hint[d] /\ runtime'[d] = runtime[d] /\ runtimes' = runtimes
  BY DEF Stepping, Typed, TypeOK, EnsureKnows, env
<1>2. CASE runtime[d] = Null
  <2>1. pc'[d] = "done" /\ verdict'[d] = "failed"
    BY <1>2 DEF Stepping, Typed, TypeOK, EnsureKnows, Complete
  <2> QED
    BY <2>1
       DEF Checked, Ensured, Extended, Provisions, Answered, VerdictWitnessed, ListWitnessed,
           EnsureInstalls, ExtensionsInstalled
<1>3. CASE runtime[d] # Null
  <2>1. pc'[d] = "needed" /\ present'[d] = (runtime[d] \in runtimes)
    BY <1>3 DEF Stepping, Typed, TypeOK, EnsureKnows, ReadInstalled, RefIsInstalled, Goto
  <2>2. /\ hint[d] = NoHint /\ current' = current /\ Answered(d)'
        /\ runtime[d] = IF current = NoRef THEN Null ELSE Declares[current]
        /\ runtimes' \subseteq past'[d].there
    BY <1>1, <2>1, SteppingFrom DEF Ensured, Provisions
  <2> QED
    BY <1>1, <1>3, <2>1, <2>2 DEF Checked, Ensured, Extended, Provisions, NoHint
<1> QED
  BY <1>2, <1>3

LEMMA EnsureNeedsKeeps ==
  ASSUME NEW d \in Calls, Stepping(d), EnsureNeeds(d)
  PROVE  (Checked(d) /\ Ensured(d) /\ Extended(d) /\ Answered(d))'
<1>1. pc[d] = "needed" /\ hint'[d] = hint[d] /\ runtime'[d] = runtime[d]
  BY DEF Stepping, Typed, TypeOK, EnsureNeeds, lacking
<1>2. CASE present[d]
  <2>1. pc'[d] = "done" /\ verdict'[d] = "ready"
    BY <1>2 DEF Stepping, Typed, TypeOK, EnsureNeeds, Complete
  <2>2. /\ current # NoRef /\ runtime[d] = Declares[current] /\ runtime[d] \in past'[d].there
        /\ current' = current
    BY <1>1, <1>2, <2>1, SteppingFrom DEF Ensured
  <2>3. EnsureInstalls(d)'
    BY <2>2 DEF EnsureInstalls
  <2> QED
    BY <2>1, <2>3
       DEF Checked, Ensured, Extended, Provisions, Answered, VerdictWitnessed, ListWitnessed,
           ExtensionsInstalled
<1>3. CASE ~present[d]
  <2>1. pc'[d] = "info"
    BY <1>3 DEF Stepping, Typed, TypeOK, EnsureNeeds, Goto
  <2>2. /\ hint[d] = NoHint /\ current' = current /\ Answered(d)'
        /\ current # NoRef /\ runtime[d] = Declares[current]
    BY <1>1, <2>1, SteppingFrom DEF Ensured, Provisions
  <2> QED
    BY <1>1, <2>1, <2>2 DEF Checked, Ensured, Extended, Provisions, NoHint
<1> QED
  BY <1>2, <1>3 DEF Stepping, Typed, TypeOK

LEMMA EnsureSubmitsKeeps ==
  ASSUME NEW d \in Calls, Stepping(d), EnsureSubmits(d)
  PROVE  (Checked(d) /\ Ensured(d) /\ Extended(d) /\ Answered(d))'
<1>1. pc[d] = "info" /\ hint'[d] = hint[d] /\ runtime'[d] = runtime[d]
  BY DEF Stepping, Typed, TypeOK, EnsureSubmits, lacking
<1>2. CASE told[d] = NoRef
  <2>1. pc'[d] = "done" /\ verdict'[d] = "failed"
    BY <1>2 DEF Stepping, Typed, TypeOK, EnsureSubmits, Complete
  <2> QED
    BY <2>1
       DEF Checked, Ensured, Extended, Provisions, Answered, VerdictWitnessed, ListWitnessed,
           EnsureInstalls, ExtensionsInstalled
<1>3. CASE told[d] # NoRef
  <2>1. pc'[d] = "install"
    BY <1>3 DEF Stepping, Typed, TypeOK, EnsureSubmits, Goto
  <2>2. /\ hint[d] = NoHint /\ current' = current /\ Answered(d)'
        /\ current # NoRef /\ runtime[d] = Declares[current]
    BY <1>1, <2>1, SteppingFrom DEF Ensured, Provisions
  <2> QED
    BY <1>1, <2>1, <2>2 DEF Checked, Ensured, Extended, Provisions, NoHint
<1> QED
  BY <1>2, <1>3

LEMMA InstallEndsKeeps ==
  ASSUME NEW d \in Calls, Stepping(d), InstallEnds(d)
  PROVE  (Checked(d) /\ Ensured(d) /\ Extended(d) /\ Answered(d))'
<1>1. /\ pc[d] = "install" /\ pc'[d] = "done"
      /\ \/ verdict'[d] = "failed"
         \/ verdict'[d] = "ready" /\ runtimes' = runtimes \union {runtime[d]}
  BY DEF Stepping, Typed, TypeOK, InstallEnds, Complete
<1>2. /\ current # NoRef /\ runtime[d] = Declares[current] /\ current' = current
      /\ runtimes' \subseteq past'[d].there
  BY <1>1, SteppingFrom DEF Ensured
<1>3. EnsureInstalls(d)'
  BY <1>1, <1>2 DEF EnsureInstalls
<1> QED
  BY <1>1, <1>3
     DEF Checked, Ensured, Extended, Provisions, Answered, VerdictWitnessed, ListWitnessed,
         ExtensionsInstalled

\* What the ref that is current needs has been there or is still to be installed.
Provided(there, left) ==
  \A g \in Needs(current) : \E b \in Acceptable(g, current) :
    ExtensionRef(current, g.id, b) \in there \union left

LEMMA ProvidedMore ==
  ASSUME NEW t, NEW l, NEW u, NEW m, Provided(t, l), t \union l \subseteq u \union m
  PROVE  Provided(u, m)
  BY DEF Provided

\* A call that fails has shown nothing.
LEMMA FailedAnswers ==
  ASSUME NEW d \in Calls, pc'[d] = "done", verdict'[d] = "failed"
  PROVE  (Checked(d) /\ Ensured(d) /\ Extended(d) /\ Answered(d))'
  BY DEF Checked, Ensured, Extended, Provisions, Answered, VerdictWitnessed, ListWitnessed,
         EnsureInstalls, ExtensionsInstalled

\* One that succeeds has nothing left.
LEMMA ExtendedAnswers ==
  ASSUME NEW d \in Calls, pc'[d] = "done", verdict'[d] = "extended", current' = current,
         current # NoRef, Provided(past'[d].there, {})
  PROVE  (Checked(d) /\ Ensured(d) /\ Extended(d) /\ Answered(d))'
<1>1. ExtensionsInstalled(d)'
  BY DEF Provided, ExtensionsInstalled
<1> QED
  BY <1>1
     DEF Checked, Ensured, Extended, Provisions, Answered, VerdictWitnessed, ListWitnessed,
         EnsureInstalls

\* The first of some is installed, the others are left.
LEMMA SplitOff ==
  ASSUME NEW S, NEW list \in Seq(S), list # <<>>
  PROVE  /\ ToSet(list) \subseteq {Head(list)} \union ToSet(Tail(list))
         /\ Len(list) = 1 => ToSet(Tail(list)) = {}
<1> DEFINE n == Len(list)
           left == Tail(list)
<1>1. n \in Nat /\ DOMAIN list = 1..n /\ list[1] = Head(list)
  OBVIOUS
<1>2. /\ left \in Seq(S) /\ Len(left) = n - 1
      /\ \A i \in 1..Len(left) : left[i] = list[i + 1]
  BY HeadTailProperties
<1>3. Len(left) \in Nat /\ DOMAIN left = 1..Len(left)
  BY <1>2
<1> HIDE DEF n, left
<1>4. ASSUME NEW i \in 1..n PROVE list[i] \in {Head(list)} \union ToSet(left)
  <2>1. CASE i = 1
    BY <1>1, <2>1
  <2>2. CASE i # 1
    <3>1. i - 1 \in 1..Len(left) /\ (i - 1) + 1 = i
      BY <1>1, <1>2, <2>2
    <3>2. left[i - 1] = list[i]
      BY <1>2, <3>1
    <3> QED
      BY <1>3, <3>1, <3>2 DEF ToSet
  <2> QED
    BY <2>1, <2>2
<1>5. ToSet(list) \subseteq {Head(list)} \union ToSet(left)
  BY <1>1, <1>4 DEF ToSet
<1>6. n = 1 => ToSet(left) = {}
  BY <1>2, <1>3 DEF ToSet
<1> QED
  BY <1>5, <1>6 DEF n, left

\* The reads of installExtensions(), and its transactions.
LEMMA InstallExtensionsKeeps ==
  ASSUME NEW d \in Calls, Stepping(d), InstallExtensions(d)
  PROVE  (Checked(d) /\ Ensured(d) /\ Extended(d) /\ Answered(d))'
<1>1. /\ pc[d] = "idle" /\ pc'[d] = "extensions" /\ hint'[d] = hint[d] /\ runtimes' = runtimes
      /\ told'[d] = Selected(NoHint)
      /\ Selected(NoHint) # NoRef => missing'[d] = MissingExtensions(Selected(NoHint))
  BY DEF Stepping, Typed, TypeOK, InstallExtensions, ReadMissing, Goto, env
<1>2. /\ hint[d] = NoHint /\ current' = current /\ Answered(d)' /\ Kept
      /\ runtimes' \subseteq past'[d].there /\ (current # NoRef => current \in Refs)
  BY <1>1, SteppingFrom DEF Placed
<1>3. Selected(NoHint) = current
  BY <1>2, SelectedCurrent
<1>4. ASSUME current # NoRef PROVE Provided(past'[d].there, ToSet(missing'[d]))
  <2>1. Provided(runtimes, ToSet(MissingExtensions(current)))
    BY <1>2, <1>4, MissingAre DEF Provided
  <2> QED
    BY <1>1, <1>2, <1>3, <1>4, <2>1, ProvidedMore
<1> QED
  BY <1>1, <1>2, <1>3, <1>4 DEF Checked, Ensured, Extended, Provisions, Provided, NoHint

LEMMA ExtensionsKnownKeeps ==
  ASSUME NEW d \in Calls, Stepping(d), ExtensionsKnown(d)
  PROVE  (Checked(d) /\ Ensured(d) /\ Extended(d) /\ Answered(d))'
<1>1. /\ pc[d] = "extensions" /\ hint'[d] = hint[d] /\ missing'[d] = missing[d]
      /\ pc'[d] \in {"done", "extensionsInfo"}
  BY DEF Stepping, Typed, TypeOK, ExtensionsKnown, lacking, Complete, Goto
<1>2. /\ hint[d] = NoHint /\ current' = current /\ Kept /\ told[d] = current
      /\ current # NoRef => Provided(past[d].there, ToSet(missing[d]))
      /\ past[d].there \subseteq past'[d].there
      /\ pc'[d] # "done" => Answered(d)'
  BY <1>1, SteppingFrom DEF Ensured, Extended, Provisions, Provided
<1>3. CASE told[d] = NoRef
  <2>1. pc'[d] = "done" /\ verdict'[d] = "failed"
    BY <1>3 DEF Stepping, Typed, TypeOK, ExtensionsKnown, Complete
  <2> QED
    BY <2>1, FailedAnswers
<1>4. CASE told[d] # NoRef /\ missing[d] = <<>>
  <2>1. pc'[d] = "done" /\ verdict'[d] = "extended"
    BY <1>4 DEF Stepping, Typed, TypeOK, ExtensionsKnown, Complete
  <2>2. ToSet(missing[d]) = {}
    BY <1>4 DEF ToSet
  <2>3. Provided(past'[d].there, {})
    BY <1>2, <1>4, <2>2, ProvidedMore
  <2> QED
    BY <1>2, <1>4, <2>1, <2>3, ExtendedAnswers
<1>5. CASE told[d] # NoRef /\ missing[d] # <<>>
  <2>1. pc'[d] = "extensionsInfo" /\ told'[d] = Selected(NoHint)
    BY <1>5 DEF Stepping, Typed, TypeOK, ExtensionsKnown, ReadApp, Goto
  <2>2. told'[d] = current
    BY <1>2, <2>1, SelectedCurrent
  <2>3. Provided(past'[d].there, ToSet(missing'[d]))
    BY <1>1, <1>2, <1>5, ProvidedMore
  <2> QED
    BY <1>1, <1>2, <1>5, <2>1, <2>2, <2>3
       DEF Checked, Ensured, Extended, Provisions, Provided, NoHint
<1> QED
  BY <1>3, <1>4, <1>5

LEMMA ExtensionsSubmitKeeps ==
  ASSUME NEW d \in Calls, Stepping(d), ExtensionsSubmit(d)
  PROVE  (Checked(d) /\ Ensured(d) /\ Extended(d) /\ Answered(d))'
<1>1. /\ pc[d] = "extensionsInfo" /\ hint'[d] = hint[d] /\ missing'[d] = missing[d]
      /\ told'[d] = told[d]
      /\ \/ pc'[d] = "done" /\ verdict'[d] = "failed"
         \/ pc'[d] = "extend"
  BY DEF Stepping, Typed, TypeOK, ExtensionsSubmit, lacking, Complete, Goto
<1>2. CASE pc'[d] = "done" /\ verdict'[d] = "failed"
  BY <1>2, FailedAnswers
<1>3. CASE pc'[d] = "extend"
  <2>1. /\ hint[d] = NoHint /\ current' = current /\ told[d] = current /\ current # NoRef
        /\ Provided(past[d].there, ToSet(missing[d]))
        /\ past[d].there \subseteq past'[d].there /\ Answered(d)'
    BY <1>1, <1>3, SteppingFrom DEF Ensured, Extended, Provisions, Provided
  <2>2. Provided(past'[d].there, ToSet(missing'[d]))
    BY <1>1, <2>1, ProvidedMore
  <2> QED
    BY <1>1, <1>3, <2>1, <2>2 DEF Checked, Ensured, Extended, Provisions, Provided, NoHint
<1> QED
  BY <1>1, <1>2, <1>3

LEMMA ExtensionInstalledKeeps ==
  ASSUME NEW d \in Calls, Stepping(d), ExtensionInstalled(d)
  PROVE  (Checked(d) /\ Ensured(d) /\ Extended(d) /\ Answered(d))'
<1>1. /\ pc[d] = "extend" /\ hint'[d] = hint[d] /\ told'[d] = told[d]
      /\ missing'[d] = Tail(missing[d]) /\ runtimes' = runtimes \union {Head(missing[d])}
      /\ \/ pc'[d] = "done" /\ verdict'[d] = "extended" /\ Len(missing[d]) = 1
         \/ pc'[d] = "extend"
  BY DEF Stepping, Typed, TypeOK, ExtensionInstalled, Complete, Goto
<1>2. /\ hint[d] = NoHint /\ current' = current /\ told[d] = current /\ current # NoRef
      /\ Provided(past[d].there, ToSet(missing[d])) /\ missing[d] # <<>>
      /\ past[d].there \subseteq past'[d].there /\ runtimes' \subseteq past'[d].there
      /\ pc'[d] # "done" => Answered(d)'
  BY <1>1, SteppingFrom DEF Ensured, Extended, Provisions, Provided, Placed
<1>3. missing[d] \in Seq(Runtimes)
  BY DEF Stepping, Typed
<1>4. ToSet(missing[d]) \subseteq {Head(missing[d])} \union ToSet(Tail(missing[d]))
  BY <1>2, <1>3, SplitOff
<1>5. Provided(past'[d].there, ToSet(missing'[d]))
  BY <1>1, <1>2, <1>4, ProvidedMore
<1>6. CASE pc'[d] = "done" /\ verdict'[d] = "extended" /\ Len(missing[d]) = 1
  <2>1. ToSet(missing'[d]) = {}
    BY <1>1, <1>2, <1>3, <1>6, SplitOff
  <2> QED
    BY <1>2, <1>5, <1>6, <2>1, ExtendedAnswers
<1>7. CASE pc'[d] = "extend"
  BY <1>1, <1>2, <1>5, <1>7 DEF Checked, Ensured, Extended, Provisions, Provided, NoHint
<1> QED
  BY <1>1, <1>6, <1>7

-----------------------------------------------------------------------------
(***************************************************************************)
(* Nothing that a call answers was wrong throughout the call.              *)
(***************************************************************************)

LEMMA StepKeeps ==
  ASSUME NEW d \in Calls, Stepping(d), CallStep(d)
  PROVE  (Checked(d) /\ Ensured(d) /\ Extended(d) /\ Answered(d))'
<1>1. CASE ExtensionFails(d)
  <2>1. pc'[d] = "done" /\ verdict'[d] = "failed"
    BY <1>1 DEF Stepping, Typed, TypeOK, ExtensionFails, Complete
  <2> QED
    BY <2>1, FailedAnswers
<1> QED
  BY <1>1, CheckRunnableKeeps, AppNotFoundKeeps, AppOfOtherArchKeeps, AppFoundKeeps,
     RuntimeUnknownKeeps, RuntimeKnownKeeps, InstalledKnownKeeps, ListApplicationsKeeps,
     ListArrivesKeeps, EnsureRuntimeKeeps, EnsureKnowsKeeps, EnsureNeedsKeeps,
     EnsureSubmitsKeeps, InstallEndsKeeps, InstallExtensionsKeeps, ExtensionsKnownKeeps,
     ExtensionsSubmitKeeps, ExtensionInstalledKeeps
     DEF CallStep, Step

\* The cache is no older than it may be.
LEMMA NextCached ==
  ASSUME Typed, Cached, Next
  PROVE  Cached'
<1>1. ExecutableArches \in kernels
  BY ScanIsTrue DEF ExecutableArches, Cached
<1>2. ASSUME NEW d \in Calls, CallStep(d) PROVE Cached'
  <2>1. SameHost
    BY <1>2, CallStays
  <2>2. CASE UNCHANGED cache
    BY <2>1, <2>2 DEF SameHost, Cached, Truth
  <2>3. CASE Consult
    BY <1>1, <2>1, <2>3 DEF SameHost, Cached, Truth, Consult
  <2> QED
    BY <2>1, <2>2, <2>3 DEF SameHost
<1>3. CASE RefsChange \/ RuntimesChange \/ SetArchPolicy
  BY <1>3 DEF RefsChange, RuntimesChange, SetArchPolicy, Cached, Truth
<1>4. CASE HandlersChange
  BY <1>4 DEF HandlersChange, Cached, Truth
<1>5. CASE CacheExpires
  BY <1>5 DEF CacheExpires, env, Cached, Truth, Typed, TypeOK
<1>6. CASE AskCanRunArch
  BY <1>1, <1>6 DEF AskCanRunArch, Consult, env, Cached, Truth
<1>7. CASE RefreshArchSupport
  BY <1>7 DEF RefreshArchSupport, Invalidate, env, Cached, Truth
<1> QED
  BY <1>2, <1>3, <1>4, <1>5, <1>6, <1>7, NextSteps DEF Other

LEMMA InitInv == Init => Inv
<1> SUFFICES ASSUME Init PROVE Inv
  OBVIOUS
<1>1. Cached
  BY DEF Init, Cached
<1>2. ASSUME NEW c \in Calls PROVE Witnessed(c)
  <2>1. pc[c] = "idle" /\ verdict[c] = "open"
    BY DEF Init
  <2> QED
    BY <2>1, OpenAnswers DEF Witnessed, Checked, Ensured, Extended, Provisions
<1> QED
  BY <1>1, <1>2, InitTyped DEF Inv, Faithful

LEMMA NextInv == Inv /\ [Next]_vars => Inv'
<1> SUFFICES ASSUME Inv, [Next]_vars PROVE Inv'
  OBVIOUS
<1>1. Typed'
  BY NextTyped DEF Inv
<1>2. CASE Next
  <2>1. Cached' /\ Witness
    BY <1>2, NextCached, NextSteps DEF Inv, Faithful
  <2>2. CASE Other
    <3>1. UNCHANGED calls
      BY <2>1, <2>2, OtherTyped DEF Inv
    <3>2. \A c \in Calls : Same(c)
      BY <3>1 DEF calls, lacking, Same
    <3>3. \A c \in Calls : Witnessed(c)'
      BY <2>1, <3>2, SameWitnessed DEF Inv, Faithful
    <3> QED
      BY <1>1, <2>1, <3>3 DEF Inv, Faithful
  <2>3. ASSUME NEW d \in Calls, CallStep(d) PROVE Inv'
    <3>1. SameHost /\ Local(d)
      BY <2>3, CallStays DEF Inv
    <3>2. ASSUME NEW c \in Calls, c # d PROVE Witnessed(c)'
      <4>1. Same(c)
        BY <3>1, <3>2 DEF Inv, Typed, TypeOK, Local, Same
      <4> QED
        BY <2>1, <4>1, SameWitnessed DEF Inv, Faithful
    <3>3. Witnessed(d)'
      <4>1. SUFFICES ASSUME steady'[d]
                     PROVE  (Checked(d) /\ Ensured(d) /\ Extended(d) /\ Answered(d))'
        BY DEF Witnessed
      <4>2. Stepping(d)
        BY <1>1, <2>1, <3>1, <4>1 DEF Stepping, Inv, Faithful
      <4> QED
        BY <2>3, <4>2, StepKeeps
    <3> QED
      BY <1>1, <2>1, <3>2, <3>3 DEF Inv, Faithful
  <2> QED
    BY <1>2, <2>2, <2>3, NextSteps
<1>3. CASE UNCHANGED vars
  <2>1. Cached'
    BY <1>3 DEF vars, env, history, Inv, Faithful, Cached, Truth
  <2>2. ASSUME NEW c \in Calls PROVE Witnessed(c)'
    <3>1. Witnessed(c)
      BY DEF Inv, Faithful
    <3>2. /\ Same(c) /\ past' = past /\ steady' = steady
          /\ installed' = installed /\ current' = current
      BY <1>3 DEF vars, env, calls, lacking, history, Same
    <3>3. /\ Selected(hint[c])' = Selected(hint[c])
          /\ LaunchTarget(hint[c])' = LaunchTarget(hint[c])
      BY <3>2, StillSelected DEF Same
    <3>4. Checked(c) => Checked(c)'
      BY <3>2, <3>3 DEF Same, Checked
    <3>5. (Ensured(c) => Ensured(c)') /\ (Extended(c) => Extended(c)')
      BY <3>2 DEF Same, Ensured, Extended, Provisions
    <3>6. VerdictWitnessed(c) => VerdictWitnessed(c)'
      BY <3>2, <3>3 DEF Same, VerdictWitnessed
    <3>7. /\ ListWitnessed(c) => ListWitnessed(c)'
          /\ EnsureInstalls(c) => EnsureInstalls(c)'
          /\ ExtensionsInstalled(c) => ExtensionsInstalled(c)'
      BY <3>2 DEF Same, ListWitnessed, EnsureInstalls, ExtensionsInstalled
    <3>8. steady'[c] = steady[c]
      BY <3>2
    <3> QED
      BY <3>1, <3>4, <3>5, <3>6, <3>7, <3>8 DEF Witnessed, Answered
  <2> QED
    BY <1>1, <2>1, <2>2 DEF Inv, Faithful
<1> QED
  BY <1>2, <1>3

\* What checkRunnable() finds, what listApplications() shows and leaves out, and
\* what ensureRuntime() and installExtensions() say is there held at some moment
\* of the call, of the ref that launch() would start.
THEOREM AnswersHold == Spec => []AnswersWitnessed
<1>1. Inv => AnswersWitnessed
  BY DEF Inv, Faithful, Witnessed, Answered, AnswersWitnessed
<1> QED
  BY <1>1, InitInv, NextInv, PTL DEF Spec

=============================================================================
