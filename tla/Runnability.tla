----------------------------- MODULE Runnability -----------------------------
(***************************************************************************)
(* Can an installed app be launched, and what does it lack?                *)
(* checkRunnable(), listApplications(), ensureRuntime() and                *)
(* installExtensions() of lib/src/flatpak_client.dart, with the cached     *)
(* answer of the kernel (ArchSupportCache in lib/src/arch.dart) and the    *)
(* native reads they make (native/src/installation_reader.cpp).            *)
(*                                                                         *)
(* A native read happens in the turn that asks for it; what it told        *)
(* arrives in a later turn, and by then apps, runtimes and emulators may   *)
(* have come and gone.  One app, whose refs differ in architecture and     *)
(* branch; each declares a runtime, or none.                               *)
(***************************************************************************)
EXTENDS Architectures, AppMetadata, Naturals

CONSTANTS
  Calls,          \* calls of the four methods
  Host,           \* the architecture of the host, flatpak's default, or Null
  Refs,           \* the refs of the app: records of arch and branch
  Listing,        \* the order in which libflatpak lists them
  NoRef,          \* no such ref
  Runtimes,       \* runtimes and extensions
  Declares,       \* the runtime each ref declares, or Null
  Extensions,     \* the extension groups in the metadata of each ref
  Registrations,  \* registrations that may be in binfmt_misc
  MaxChanges      \* bound on changes by others

\* libflatpak knows no ref without an architecture and a branch.
ASSUME RefsAssumption ==
  /\ \A r \in Refs : r \in [arch : STRING, branch : STRING] /\ Null \notin {r.arch, r.branch}
  /\ NoRef \notin Refs
  /\ Listing \in Seq(Refs) /\ ToSet(Listing) = Refs
  /\ MaxChanges \in Nat

VARIABLES
  installed,  \* the refs installed
  current,    \* the current one
  runtimes,   \* the runtimes and extensions installed
  handlers,   \* the registrations
  policy,     \* archPolicy
  cache,      \* _archSupport: what it holds, and whether it may still be used
  pc,         \* where each call is
  hint,       \* the arch and branch it was given
  told,       \* the ref getAppInfo() has told it
  rows,       \* the refs listApplications() has told or returned
  runtime,    \* the runtime getRuntimeRef() has told it
  present,    \* what isRefInstalled() has told it
  missing,    \* the extensions installExtensions() has yet to install
  verdict,    \* what its future completes with
  kernels,    \* history: the sets executable since the cache was last empty
  past,       \* history: what held during the call
  steady,     \* history: whether the refs have stayed as they were
  changes

env == <<installed, current, runtimes, handlers, policy>>
lacking == <<runtime, present, missing>>
calls == <<pc, hint, told, rows, lacking, verdict>>
history == <<kernels, past, steady>>
vars == <<env, cache, calls, history, changes>>

Places ==
  {"idle", "list", "app", "runtime", "installed", "ensure", "needed", "info", "install",
   "extensions", "extensionsInfo", "extend", "done"}

Hints == [arch : {r.arch : r \in Refs} \union {Null}, branch : {r.branch : r \in Refs} \union {Null}]

NoHint == [arch |-> Null, branch |-> Null]

TypeOK ==
  /\ installed \subseteq Refs
  /\ current \in IF installed = {} THEN {NoRef} ELSE installed
  /\ runtimes \subseteq Runtimes /\ handlers \subseteq Registrations /\ policy \in Policies
  /\ cache \in [arches : SUBSET DOMAIN Machines, fresh : BOOLEAN]
  /\ pc \in [Calls -> Places]
  /\ hint \in [Calls -> Hints]
  /\ told \in [Calls -> Refs \union {NoRef}]
  /\ rows \in [Calls -> SUBSET Refs]
  /\ runtime \in [Calls -> Runtimes \union {Null}]
  /\ present \in [Calls -> BOOLEAN]
  /\ \A c \in Calls : ToSet(missing[c]) \subseteq Runtimes
  /\ verdict \in [Calls -> {"open", "none", "architecture", "runtimeMissing", "notInstalled",
                            "ready", "extended", "listed", "failed"}]
  /\ \A c \in Calls : pc[c] = "done" <=> verdict[c] # "open"
  /\ changes \in 0..MaxChanges

-----------------------------------------------------------------------------
(***************************************************************************)
(* Which ref is meant.                                                     *)
(***************************************************************************)

Matches(r, h) == h.arch \in {Null, r.arch} /\ h.branch \in {Null, r.branch}

FirstListed(refs) ==
  IF refs = {} THEN NoRef
  ELSE Filtered(Listing, {i \in DOMAIN Listing : Listing[i] \in refs})[1]

\* Slip: the current ref is not preferred.
SelectedFirst(h) == FirstListed({r \in installed : Matches(r, h)})

\* get_installed_app_ref(), for what is read.
Selected(h) ==
  LET exact == [arch |-> IF h.arch = Null THEN Host ELSE h.arch, branch |-> h.branch]
      matches == {r \in installed : Matches(r, h)}
  IN  IF h.branch # Null THEN IF exact \in installed THEN exact ELSE NoRef
      ELSE IF h.arch = Null \/ current \in matches THEN current
      ELSE FirstListed(matches)

\* resolve_launch_target() and what follows, for what is launched.
LaunchTarget(h) ==
  LET matches == {r \in installed : Matches(r, h)}
      native == {r \in matches : r.arch = Host}
  IN  IF h.arch # Null /\ h.branch # Null THEN FirstListed(matches)
      ELSE IF current \in matches THEN current
      ELSE IF h.arch = Null /\ native # {} THEN FirstListed(native)
      ELSE FirstListed(matches)

-----------------------------------------------------------------------------
(***************************************************************************)
(* The cache of what the kernel executes.                                  *)
(***************************************************************************)

Executable(regs) == KernelExecutableArches(regs)

ExecutableArches ==
  IF cache.fresh THEN cache.arches ELSE Executable(handlers)

Consult == cache' = [arches |-> ExecutableArches, fresh |-> TRUE]

CanRunArch(arch) == IsRunnableArch(arch, policy, Host, ExecutableArches)

Invalidate == cache' = [arches |-> {}, fresh |-> FALSE]

-----------------------------------------------------------------------------
(***************************************************************************)
(* History: which architectures could run at some moment of a call, which  *)
(* could not, going by what the kernel executed at some moment since the   *)
(* cache was last empty; which runtimes were there and which were missing. *)
(***************************************************************************)

\* What the kernel really executes inside a sandbox.
Truth(regs) ==
  {a \in DOMAIN Machines : \E r \in regs :
    /\ r.enabled /\ r.fixBinary /\ r.exists
    /\ \/ r.name \in Machines[a]
       \/ r.interpreter \in Machines[a] /\ \A b \in DOMAIN Machines : r.name \notin Machines[b]}

\* What can run; nothing on a host that flatpak has no name for.
Runs(arch, kernel) ==
  /\ Host # Null
  /\ \/ arch = Host
     \/ policy # "native" /\ <<Host, arch>> \in {<<"x86_64", "i386">>, <<"aarch64", "arm">>}
     \/ policy = "emulated" /\ arch \in kernel

Arches == {r.arch : r \in Refs}

Moment ==
  [runs |-> {a \in Arches : \E k \in kernels : Runs(a, k)},
   fails |-> {a \in Arches : \E k \in kernels : ~Runs(a, k)},
   there |-> runtimes, missing |-> Runtimes \ runtimes]

NoMoment == [runs |-> {}, fails |-> {}, there |-> {}, missing |-> {}]

Witness ==
  /\ past' = [c \in Calls |->
       IF pc'[c] = "idle" \/ pc[c] = "done" THEN past[c]
       ELSE [f \in DOMAIN NoMoment |-> past[c][f] \union Moment'[f]]]
  /\ steady' = [c \in Calls |->
       steady[c] /\ (pc[c] = "idle" \/ (installed' = installed /\ current' = current))]

Init ==
  /\ installed \in SUBSET Refs
  /\ current \in IF installed = {} THEN {NoRef} ELSE installed
  /\ runtimes \in {{}, Runtimes}
  /\ handlers \in {{}, Registrations}
  /\ policy = "compatible"
  /\ cache = [arches |-> {}, fresh |-> FALSE]
  /\ pc = [c \in Calls |-> "idle"]
  /\ hint = [c \in Calls |-> NoHint]
  /\ told = [c \in Calls |-> NoRef]
  /\ rows = [c \in Calls |-> {}]
  /\ runtime = [c \in Calls |-> Null]
  /\ present = [c \in Calls |-> FALSE]
  /\ missing = [c \in Calls |-> <<>>]
  /\ verdict = [c \in Calls |-> "open"]
  /\ kernels = {Truth(handlers)}
  /\ past = [c \in Calls |-> NoMoment]
  /\ steady = [c \in Calls |-> TRUE]
  /\ changes = 0

-----------------------------------------------------------------------------
(***************************************************************************)
(* What others do meanwhile.  External: libflatpak keeps one of the refs   *)
(* current as long as one is installed.                                    *)
(***************************************************************************)

Change ==
  /\ changes < MaxChanges
  /\ changes' = changes + 1
  /\ UNCHANGED calls

RefsChange ==
  /\ \/ \E r \in Refs \ installed : installed' = installed \union {r}
     \/ \E r \in installed : installed' = installed \ {r}
     \/ UNCHANGED installed
  /\ current' \in IF installed' = {} THEN {NoRef} ELSE installed'
  /\ <<installed', current'>> # <<installed, current>>
  /\ UNCHANGED <<runtimes, handlers, policy, cache, kernels>>
  /\ Change

RuntimesChange ==
  /\ \E r \in Runtimes :
       runtimes' = IF r \in runtimes THEN runtimes \ {r} ELSE runtimes \union {r}
  /\ UNCHANGED <<installed, current, handlers, policy, cache, kernels>>
  /\ Change

HandlersChange ==
  /\ \E r \in Registrations :
       handlers' = IF r \in handlers THEN handlers \ {r} ELSE handlers \union {r}
  /\ kernels' = (IF cache.fresh THEN kernels ELSE {}) \union {Truth(handlers')}
  /\ UNCHANGED <<installed, current, runtimes, policy, cache>>
  /\ Change

SetArchPolicy ==
  /\ policy' \in Policies \ {policy}
  /\ UNCHANGED <<installed, current, runtimes, handlers, cache, kernels>>
  /\ Change

\* cacheFor has passed.
CacheExpires ==
  /\ cache.fresh
  /\ cache' = [cache EXCEPT !.fresh = FALSE]
  /\ kernels' = {Truth(handlers)}
  /\ UNCHANGED <<env, calls, changes>>

\* canRunArch() of a list that is drawn, or another call's.
AskCanRunArch ==
  /\ ~cache.fresh
  /\ Consult
  /\ UNCHANGED <<env, calls, kernels, changes>>

RefreshArchSupport ==
  /\ cache.fresh
  /\ Invalidate
  /\ kernels' = {Truth(handlers)}
  /\ UNCHANGED <<env, calls, changes>>

-----------------------------------------------------------------------------
(***************************************************************************)
(* Steps of a call.  Each ends with the next native read, or the call.     *)
(***************************************************************************)

Goto(c, place) ==
  /\ pc' = [pc EXCEPT ![c] = place]
  /\ UNCHANGED <<verdict, changes, kernels>>

Complete(c, outcome) ==
  /\ pc' = [pc EXCEPT ![c] = "done"]
  /\ verdict' = [verdict EXCEPT ![c] = outcome]
  /\ UNCHANGED <<changes, kernels>>

\* get_app_info()
ReadApp(c, h) == told' = [told EXCEPT ![c] = Selected(h)]

\* get_runtime_ref(): Null stands for an error.
ReadRuntime(c) ==
  LET r == Selected(hint[c])
  IN  runtime' = [runtime EXCEPT ![c] = IF r = NoRef THEN Null ELSE Declares[r]]

RefIsInstalled(r) == r \in runtimes

\* is_ref_installed(); what is declared parses.
ReadInstalled(c) == present' = [present EXCEPT ![c] = RefIsInstalled(runtime[c])]

\* The ref of an extension of a ref.
ExtensionRef(r, id, branch) == id \o "/" \o r.arch \o "/" \o branch

\* list_missing_extensions(): those of which no branch is installed.
MissingExtensions(r) ==
  LET required == RequiredExtensions(Extensions[r], r.branch)
      Absent(e) == \A b \in ToSet(e.branches) : ~RefIsInstalled(ExtensionRef(r, e.id, b))
      absent == Filtered(required, {i \in DOMAIN required : Absent(required[i])})
  IN  [i \in DOMAIN absent |-> ExtensionRef(r, absent[i].id, absent[i].branches[1])]

\* What is declared, and what an extension may be installed as, can be there.
ASSUME RuntimesAssumption ==
  /\ Null \notin Runtimes
  /\ Declares \in [Refs -> Runtimes \union {Null}]
  /\ \A r \in Refs :
       /\ Extensions[r] \in Seq([id : STRING, noAutodownload : BOOLEAN, subdirectories : BOOLEAN,
                                 versions : Seq(STRING), version : STRING])
       /\ \A e \in ToSet(RequiredExtensions(Extensions[r], r.branch)) :
            ExtensionRef(r, e.id, e.branches[1]) \in Runtimes

ReadMissing(c) ==
  LET r == Selected(NoHint)
  IN  /\ told' = [told EXCEPT ![c] = r]
      /\ missing' = [missing EXCEPT ![c] = IF r = NoRef THEN <<>> ELSE MissingExtensions(r)]

CheckRunnable(c, h) ==
  /\ pc[c] = "idle"
  /\ hint' = [hint EXCEPT ![c] = h]
  /\ ReadApp(c, h)
  /\ Goto(c, "app")
  /\ UNCHANGED <<env, cache, rows, lacking>>

AppNotFound(c) ==
  /\ pc[c] = "app" /\ told[c] = NoRef
  /\ IF hint[c].arch = Null THEN UNCHANGED cache ELSE Consult
  /\ Complete(c, ResolveRunnability(FALSE, hint[c].arch = Null \/ CanRunArch(hint[c].arch), Null, FALSE))
  /\ UNCHANGED <<env, hint, told, rows, lacking>>

AppOfOtherArch(c) ==
  /\ pc[c] = "app" /\ told[c] # NoRef
  /\ ~CanRunArch(told[c].arch)
  /\ Consult
  /\ Complete(c, ResolveRunnability(TRUE, FALSE, Null, FALSE))
  /\ UNCHANGED <<env, hint, told, rows, lacking>>

AppFound(c) ==
  /\ pc[c] = "app" /\ told[c] # NoRef
  /\ CanRunArch(told[c].arch)
  /\ Consult
  /\ ReadRuntime(c)
  /\ Goto(c, "runtime")
  /\ UNCHANGED <<env, hint, told, rows, present, missing>>

RuntimeUnknown(c) ==
  /\ pc[c] = "runtime" /\ runtime[c] = Null
  /\ Complete(c, ResolveRunnability(TRUE, TRUE, Null, FALSE))
  /\ UNCHANGED <<env, cache, hint, told, rows, lacking>>

RuntimeKnown(c) ==
  /\ pc[c] = "runtime" /\ runtime[c] # Null
  /\ ReadInstalled(c)
  /\ Goto(c, "installed")
  /\ UNCHANGED <<env, cache, hint, told, rows, runtime, missing>>

InstalledKnown(c) ==
  /\ pc[c] = "installed"
  /\ Complete(c, ResolveRunnability(TRUE, TRUE, runtime[c], present[c]))
  /\ UNCHANGED <<env, cache, hint, told, rows, lacking>>

ListApplications(c) ==
  /\ pc[c] = "idle"
  /\ rows' = [rows EXCEPT ![c] = installed]
  /\ Goto(c, "list")
  /\ UNCHANGED <<env, cache, hint, told, lacking>>

ListArrives(c) ==
  /\ pc[c] = "list"
  /\ rows' = [rows EXCEPT ![c] = {r \in rows[c] : CanRunArch(r.arch)}]
  /\ IF rows[c] = {} THEN UNCHANGED cache ELSE Consult
  /\ Complete(c, "listed")
  /\ UNCHANGED <<env, hint, told, lacking>>

EnsureRuntime(c) ==
  /\ pc[c] = "idle"
  /\ UNCHANGED hint
  /\ ReadRuntime(c)
  /\ Goto(c, "ensure")
  /\ UNCHANGED <<env, cache, told, rows, present, missing>>

EnsureKnows(c) ==
  /\ pc[c] = "ensure"
  /\ IF runtime[c] = Null
     THEN Complete(c, "failed") /\ UNCHANGED present
     ELSE ReadInstalled(c) /\ Goto(c, "needed")
  /\ UNCHANGED <<env, cache, hint, told, rows, runtime, missing>>

EnsureNeeds(c) ==
  /\ pc[c] = "needed"
  /\ IF present[c] THEN Complete(c, "ready") /\ UNCHANGED told
     ELSE ReadApp(c, NoHint) /\ Goto(c, "info")
  /\ UNCHANGED <<env, cache, hint, rows, lacking>>

EnsureSubmits(c) ==
  /\ pc[c] = "info"
  /\ IF told[c] = NoRef THEN Complete(c, "failed") ELSE Goto(c, "install")
  /\ UNCHANGED <<env, cache, hint, told, rows, lacking>>

\* The transaction, which fails also when the runtime has been installed
\* meanwhile.
InstallEnds(c) ==
  /\ pc[c] = "install"
  /\ \/ /\ runtime[c] \notin runtimes
        /\ runtimes' = runtimes \union {runtime[c]}
        /\ Complete(c, "ready")
     \/ UNCHANGED runtimes /\ Complete(c, "failed")
  /\ UNCHANGED <<installed, current, handlers, policy, cache, hint, told, rows, lacking>>

\* The installExtensions() of a client, called for the app.
InstallExtensions(c) ==
  /\ pc[c] = "idle"
  /\ UNCHANGED hint
  /\ ReadMissing(c)
  /\ Goto(c, "extensions")
  /\ UNCHANGED <<env, cache, rows, runtime, present>>

\* listMissingExtensions() has failed, or nothing is missing, or info() reads
\* which remote the app is from.
ExtensionsKnown(c) ==
  /\ pc[c] = "extensions"
  /\ CASE told[c] = NoRef -> Complete(c, "failed") /\ UNCHANGED told
       [] told[c] # NoRef /\ missing[c] = <<>> -> Complete(c, "extended") /\ UNCHANGED told
       [] OTHER -> ReadApp(c, NoHint) /\ Goto(c, "extensionsInfo")
  /\ UNCHANGED <<env, cache, hint, rows, lacking>>

ExtensionsSubmit(c) ==
  /\ pc[c] = "extensionsInfo"
  /\ IF told[c] = NoRef THEN Complete(c, "failed") ELSE Goto(c, "extend")
  /\ UNCHANGED <<env, cache, hint, told, rows, lacking>>

\* One after the other.
ExtensionInstalled(c) ==
  /\ pc[c] = "extend"
  /\ Head(missing[c]) \notin runtimes
  /\ runtimes' = runtimes \union {Head(missing[c])}
  /\ missing' = [missing EXCEPT ![c] = Tail(@)]
  /\ IF Len(missing[c]) = 1 THEN Complete(c, "extended") ELSE Goto(c, "extend")
  /\ UNCHANGED <<installed, current, handlers, policy, cache, hint, told, rows, runtime, present>>

\* The first transaction that fails ends the call; what others have installed
\* meanwhile makes it fail.
ExtensionFails(c) ==
  /\ pc[c] = "extend"
  /\ Complete(c, "failed")
  /\ UNCHANGED <<env, cache, hint, told, rows, lacking>>

Step(c) ==
  \/ AppNotFound(c) \/ AppOfOtherArch(c) \/ AppFound(c)
  \/ RuntimeUnknown(c) \/ RuntimeKnown(c) \/ InstalledKnown(c)
  \/ ListArrives(c)
  \/ EnsureKnows(c) \/ EnsureNeeds(c) \/ EnsureSubmits(c) \/ InstallEnds(c)
  \/ ExtensionsKnown(c) \/ ExtensionsSubmit(c) \/ ExtensionInstalled(c) \/ ExtensionFails(c)

\* What has to be installed does not depend on what can run.
Provisions(c) ==
  pc[c] \in {"ensure", "needed", "info", "install", "extensions", "extensionsInfo", "extend"}

\* Bound: nothing changes that no call will look at.
Others ==
  \/ /\ \E c \in Calls : pc[c] # "done"
     /\ RefsChange \/ RuntimesChange
  \/ /\ \E c \in Calls : pc[c] # "done" /\ ~Provisions(c)
     /\ \/ HandlersChange \/ SetArchPolicy
        \/ CacheExpires \/ AskCanRunArch \/ RefreshArchSupport

Next ==
  /\ \/ Others
     \/ \E c \in Calls :
          \/ \E h \in Hints : CheckRunnable(c, h)
          \/ ListApplications(c) \/ EnsureRuntime(c) \/ InstallExtensions(c) \/ Step(c)
  /\ Witness

Spec == Init /\ [][Next]_vars

-----------------------------------------------------------------------------
(***************************************************************************)
(* What must hold.                                                         *)
(***************************************************************************)

\* A hint of a branch alone: get_installed_app_ref() takes it to mean the
\* default architecture, resolve_launch_target() does not.
BranchOnly(h) == h.branch # Null /\ h.arch = Null

\* checkRunnable() speaks of the ref that launch() with the same hints would
\* start, and each part of its answer held at some moment of the call: the
\* kernel and the policy allowed the architecture or did not, going by no
\* older knowledge than the cache may keep, and the declared runtime was there
\* or was not.
VerdictWitnessed(c) ==
  LET r == LaunchTarget(hint[c])
      runs == r.arch \in past[c].runs
      there == Declares[r] \in past[c].there
      absent == Declares[r] \in past[c].missing
  IN  ~BranchOnly(hint[c]) =>
        CASE verdict[c] = "notInstalled" -> r = NoRef
          [] verdict[c] = "architecture" -> r # NoRef /\ r.arch \in past[c].fails
          [] verdict[c] = "runtimeMissing" -> r # NoRef /\ runs /\ absent
          [] verdict[c] = "none" -> r # NoRef /\ runs /\ (Declares[r] = Null \/ there)
          [] OTHER -> TRUE

\* listApplications() leaves out nothing that could run throughout the call,
\* and shows nothing that could not at any moment of it.
ListWitnessed(c) ==
  verdict[c] = "listed" =>
    \A r \in installed :
      r.arch \in IF r \in rows[c] THEN past[c].runs ELSE past[c].fails

\* ensureRuntime() returns only when the runtime that the current ref declares
\* has been installed at some moment of the call.
EnsureInstalls(c) ==
  verdict[c] = "ready" => current # NoRef /\ Declares[current] \in past[c].there

\* What the metadata of a ref asks for, as its author reads it.
Needs(r) == {g \in ToSet(Extensions[r]) : g.id # "" /\ ~g.noAutodownload /\ ~g.subdirectories}

Acceptable(g, r) ==
  LET versions == ToSet(g.versions) \ {""}
  IN  IF versions # {} THEN versions ELSE IF g.version = "" THEN {r.branch} ELSE {g.version}

\* installExtensions() returns only when each extension that the current ref
\* needs has been installed, in a branch that will do, at some moment of the
\* call.
ExtensionsInstalled(c) ==
  verdict[c] = "extended" =>
    /\ current # NoRef
    /\ \A g \in Needs(current) :
         \E b \in Acceptable(g, current) : ExtensionRef(current, g.id, b) \in past[c].there

\* All four, of a call during which the refs of the app stay as they are: nothing
\* that it answers was wrong throughout the call.
AnswersWitnessed ==
  \A c \in Calls : steady[c] =>
    VerdictWitnessed(c) /\ ListWitnessed(c) /\ EnsureInstalls(c) /\ ExtensionsInstalled(c)

=============================================================================
