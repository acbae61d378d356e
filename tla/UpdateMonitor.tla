--------------------------- MODULE UpdateMonitor ---------------------------
(***************************************************************************)
(* watchUpdates() of lib/src/flatpak_client.dart and the monitor of        *)
(* native/src/flatpak_bridge.cpp behind it: the isolate counts the         *)
(* installed apps, watches the installation's directory and starts a       *)
(* thread with a GMainLoop; on a file event the thread counts again and    *)
(* posts 0x11 if the number differs.                                       *)
(*                                                                         *)
(* External: GFileMonitor reports a change of the directory while it is    *)
(* watched, rate-limited to one pending event; g_main_loop_run sets        *)
(* is_running and loops while it stays set, g_main_loop_quit clears it.    *)
(***************************************************************************)
EXTENDS Integers

CONSTANTS
  MaxApps,             \* bound: installed apps
  MaxChanges,          \* bound: changes of the installation
  MonitorMayFail,      \* may g_file_monitor_directory fail?
  CountMayFail,        \* may flatpak_installation_list_installed_refs fail?
  ChangeWhileOpening,  \* may the installation change inside watchUpdates()?
  EarlyClose           \* may close() come before the thread has reached its loop?

ASSUME MonitorAssumption ==
  /\ MaxApps \in Nat /\ MaxChanges \in Nat
  /\ {MonitorMayFail, CountMayFail, ChangeWhileOpening, EarlyClose} \subseteq BOOLEAN

VARIABLES
  appCount,    \* apps installed
  changes,     \* changes so far
  dirWatched,  \* the GFileMonitor is active
  fileEvent,   \* it has an event to dispatch
  dart,        \* how far the isolate has got
  thread,      \* where the monitor thread is
  isRunning,   \* is_running of the GMainLoop
  lastCount,   \* last_app_count
  counted      \* current, in on_file_changed

installation == <<appCount, changes>>
monitorVars == <<installation, dirWatched, fileEvent, dart, thread, isRunning,
                 lastCount, counted>>

Counts == -1..MaxApps

MonitorTypeOK ==
  /\ appCount \in 0..MaxApps
  /\ changes \in 0..MaxChanges
  /\ dirWatched \in BOOLEAN
  /\ fileEvent \in BOOLEAN
  /\ dart \in {"idle", "counted", "watching", "open", "quit", "joined", "closed"}
  /\ thread \in {"none", "starting", "iterating", "counting", "comparing", "exited"}
  /\ isRunning \in BOOLEAN
  /\ lastCount \in Counts
  /\ counted \in Counts

MonitorInit ==
  /\ appCount \in 0..MaxApps
  /\ changes = 0
  /\ dirWatched = FALSE
  /\ fileEvent = FALSE
  /\ dart = "idle"
  /\ thread = "none"
  /\ isRunning = FALSE
  /\ lastCount = 0
  /\ counted = 0

\* Slip: the end of the array is counted as an app.
CountedPastEnd == {appCount + 1}

\* count_installed_apps(): -1 if the refs cannot be listed.
Counted == {appCount} \union (IF CountMayFail THEN {-1} ELSE {})

-----------------------------------------------------------------------------
\* External: an app is installed or uninstalled, or, by = 0, something else
\* changes: an app is updated, a runtime comes or goes.
InstallationChanges(by) ==
  /\ changes < MaxChanges
  /\ dart \in {"counted", "watching"} => ChangeWhileOpening
  /\ appCount + by \in 0..MaxApps
  /\ appCount' = appCount + by
  /\ changes' = changes + 1
  /\ fileEvent' = (fileEvent \/ dirWatched)
  /\ UNCHANGED <<dirWatched, dart, thread, isRunning, lastCount, counted>>

-----------------------------------------------------------------------------
(***************************************************************************)
(* The isolate: flatpak_monitor_create, _close and _destroy.               *)
(***************************************************************************)

WatchCounts ==
  /\ dart = "idle"
  /\ lastCount' \in Counted
  /\ dart' = "counted"
  /\ UNCHANGED <<installation, dirWatched, fileEvent, thread, isRunning, counted>>

\* The watch may fail; the thread is started all the same.
WatchStarts ==
  /\ dart = "counted"
  /\ dirWatched' \in (IF MonitorMayFail THEN BOOLEAN ELSE {TRUE})
  /\ dart' = "watching"
  /\ UNCHANGED <<installation, fileEvent, thread, isRunning, lastCount, counted>>

WatchStartsThread ==
  /\ dart = "watching"
  /\ thread' = "starting"
  /\ dart' = "open"
  /\ UNCHANGED <<installation, dirWatched, fileEvent, isRunning, lastCount, counted>>

\* Slip: the loop is left to notice by itself that it has no sources.
CloseQuitsNothing ==
  /\ dart = "open"
  /\ thread = "starting" => EarlyClose
  /\ dart' = "quit"
  /\ UNCHANGED <<installation, dirWatched, fileEvent, thread, isRunning, lastCount, counted>>

CloseQuits ==
  /\ dart = "open"
  /\ thread = "starting" => EarlyClose
  /\ isRunning' = FALSE
  /\ dart' = "quit"
  /\ UNCHANGED <<installation, dirWatched, fileEvent, thread, lastCount, counted>>

CloseJoins ==
  /\ dart = "quit"
  /\ thread = "exited"
  /\ dart' = "joined"
  /\ UNCHANGED <<installation, dirWatched, fileEvent, thread, isRunning, lastCount,
                 counted>>

\* Disconnect, cancel, and the unrefs of flatpak_monitor_destroy.
CloseFrees ==
  /\ dart = "joined"
  /\ dirWatched' = FALSE
  /\ fileEvent' = FALSE
  /\ dart' = "closed"
  /\ UNCHANGED <<installation, thread, isRunning, lastCount, counted>>

-----------------------------------------------------------------------------
(***************************************************************************)
(* monitor_thread_func() and on_file_changed().                            *)
(***************************************************************************)

LoopRuns ==
  /\ thread = "starting"
  /\ isRunning' = TRUE
  /\ thread' = "iterating"
  /\ UNCHANGED <<installation, dirWatched, fileEvent, dart, lastCount, counted>>

LoopDispatches ==
  /\ thread = "iterating"
  /\ isRunning /\ fileEvent
  /\ fileEvent' = FALSE
  /\ thread' = "counting"
  /\ UNCHANGED <<installation, dirWatched, dart, isRunning, lastCount, counted>>

LoopReturns ==
  /\ thread = "iterating"
  /\ ~isRunning
  /\ thread' = "exited"
  /\ UNCHANGED <<installation, dirWatched, fileEvent, dart, isRunning, lastCount, counted>>

CallbackCounts ==
  /\ thread = "counting"
  /\ counted' \in Counted
  /\ thread' = "comparing"
  /\ UNCHANGED <<installation, dirWatched, fileEvent, dart, isRunning, lastCount>>

\* Slip: only a growing number is remembered.
CallbackComparesGrowth ==
  /\ thread = "comparing"
  /\ lastCount' = IF counted > lastCount THEN counted ELSE lastCount
  /\ thread' = "iterating"
  /\ UNCHANGED <<installation, dirWatched, fileEvent, dart, isRunning, counted>>

\* A different count is remembered and 0x11 posted.
CallbackCompares ==
  /\ thread = "comparing"
  /\ lastCount' = counted
  /\ thread' = "iterating"
  /\ UNCHANGED <<installation, dirWatched, fileEvent, dart, isRunning, counted>>

Thread ==
  \/ LoopRuns \/ LoopDispatches \/ LoopReturns \/ CallbackCounts \/ CallbackCompares

MonitorNext ==
  \/ \E by \in {-1, 0, 1} : InstallationChanges(by)
  \/ WatchCounts \/ WatchStarts \/ WatchStartsThread
  \/ CloseQuits \/ CloseJoins \/ CloseFrees
  \/ Thread

(***************************************************************************)
(* Fairness: the monitor thread runs, and the isolate finishes the call it *)
(* is in.  Nobody need ever close the monitor.                             *)
(***************************************************************************)
MonitorFairness ==
  /\ WF_monitorVars(Thread)
  /\ WF_monitorVars(WatchStarts \/ WatchStartsThread \/ CloseJoins \/ CloseFrees)

MonitorSafety == MonitorInit /\ [][MonitorNext]_monitorVars

MonitorSpec == MonitorSafety /\ MonitorFairness

-----------------------------------------------------------------------------
(***************************************************************************)
(* What must hold.                                                         *)
(***************************************************************************)

\* The monitor is state-diffed: a number of apps other than the last one seen
\* does not stay unnoticed once the directory is watched
\* (flatpak_monitor_create(), on_file_changed()).  It holds unless the
\* installation changes between the first count and the watch
\* (ChangeWhileOpening).
DifferenceNoticed ==
  (dart = "open" /\ dirWatched /\ lastCount # -1 /\ lastCount # appCount)
    ~> (dart # "open" \/ lastCount = -1 \/ lastCount = appCount)

\* close() returns.  It does not when it quits the loop before the thread has
\* started to run it (EarlyClose): the quit is lost.
CloseReturns == dart = "quit" ~> dart = "closed"

=============================================================================
