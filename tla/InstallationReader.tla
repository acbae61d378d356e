------------------------- MODULE InstallationReader -------------------------
(***************************************************************************)
(* The two background queues of InstallationReader                         *)
(* (native/src/installation_reader.cpp) and the calls of                   *)
(* lib/src/installation.dart that they answer: launch(), served by a       *)
(* hand-written loop on a thread of its own, and refreshAppstream(),       *)
(* served by a SerialQueue.  They share installation_, and the destructor  *)
(* has to end both before it drops it, while the isolate's only thread is  *)
(* blocked inside readerDestroy.                                           *)
(*                                                                         *)
(* The SerialQueue is taken at its promise, FifoService, which module      *)
(* SerialQueueProofs proves of it; the launch queue is modelled step by    *)
(* step and shown to keep the same promise.  The launched app is external: *)
(* its instance directory appears, gets a child pid, and goes.             *)
(***************************************************************************)
EXTENDS Naturals, Sequences, SequencesExt

CONSTANTS
  Launches,     \* the calls of launch()
  Refreshes,    \* the calls of refreshAppstream()
  NoLaunch,     \* the launch thread has no request
  MaxSleeps     \* bound: back-off sleeps that make up kMaxWaitMs

ASSUME ReaderAssumption ==
  /\ NoLaunch \notin Launches
  /\ Launches \intersect Refreshes = {}
  /\ MaxSleeps \in Nat

Calls == Launches \union Refreshes

VARIABLES
  dart,       \* what the isolate's thread is doing
  future,     \* future[c]: the Completer of the call; its port is open iff "pending"
  mailbox,    \* mailbox[c]: frames posted to the port of c, not yet delivered
  instance,   \* launches whose 0x01 payload the listener has stored
  queue,      \* launch_queue_
  stop,       \* launch_stop_
  launcher,   \* where the launch thread is
  current,    \* the request it took
  pending,    \* the backlog it swapped out to cancel
  sleeps,     \* back-off sleeps of the current reread_child_pid()
  everSeen,   \* ever_seen
  childPid,   \* is info.childPid known, in the reply being made?
  app,        \* app[l]: the instance directory of the app l spawned
  reaper,     \* launches whose process was handed to the ChildReaper
  alive,      \* the reader still holds installation_
  answers,    \* history: launches answered, [item, how], in order
  refreshOpen, refreshLog, refreshServed   \* appstream_queue_, as a FifoService

launchVars  == <<queue, stop, launcher, current, pending, sleeps, everSeen,
                 childPid, reaper, answers>>
refreshVars == <<refreshOpen, refreshLog, refreshServed>>
vars == <<dart, future, mailbox, instance, launchVars, app, alive, refreshVars>>

Refresh == INSTANCE FifoService WITH
  Items   <- Refreshes,
  open    <- refreshOpen,
  log     <- refreshLog,
  served  <- refreshServed,
  refused <- {}

Frames == {"instance", "end", "notFound", "failed"}

TypeOK ==
  /\ dart \in {"free", "pushed", "flagged", "notified", "refreshStopping", "joining",
               "closed"}
  /\ future \in [Calls -> {"none", "pending", "ok", "notFound", "failed"}]
  /\ mailbox \in [Calls -> Seq(Frames)]
  /\ instance \subseteq Launches
  /\ queue \in Seq(Launches)
  /\ stop \in BOOLEAN
  /\ launcher \in {"checking", "asleep", "launching", "spawned", "probing", "replying",
                   "ending", "cancelling", "exited"}
  /\ current \in Launches \union {NoLaunch}
  /\ pending \in Seq(Launches)
  /\ sleeps \in 0..MaxSleeps
  /\ everSeen \in BOOLEAN
  /\ childPid \in BOOLEAN
  /\ app \in [Launches -> {"none", "spawned", "listed", "published", "gone"}]
  /\ reaper \subseteq Launches
  /\ alive \in BOOLEAN
  /\ answers \in Seq([item : Launches, how : {"ran", "cancelled"}])
  /\ refreshOpen \in BOOLEAN
  /\ refreshLog \in Seq(Refreshes)
  /\ refreshServed \in Seq([item : Refreshes, how : {"ran", "cancelled"}])

Init ==
  /\ dart = "free"
  /\ future = [c \in Calls |-> "none"]
  /\ mailbox = [c \in Calls |-> <<>>]
  /\ instance = {}
  /\ queue = <<>>
  /\ stop = FALSE
  /\ launcher = "checking"
  /\ current = NoLaunch
  /\ pending = <<>>
  /\ sleeps = 0
  /\ everSeen = FALSE
  /\ childPid = FALSE
  /\ app = [l \in Launches |-> "none"]
  /\ reaper = {}
  /\ alive = TRUE
  /\ answers = <<>>
  /\ Refresh!Init

Post(c, f) == mailbox' = [mailbox EXCEPT ![c] = Append(@, f)]

-----------------------------------------------------------------------------
(***************************************************************************)
(* The isolate's thread: launch(), refreshAppstream(), the listeners of    *)
(* their ports, and close().                                               *)
(***************************************************************************)

NotifyOne == launcher' = IF launcher = "asleep" THEN "checking" ELSE launcher

Launch(l) ==
  /\ dart = "free"
  /\ future[l] = "none"
  /\ future' = [future EXCEPT ![l] = "pending"]
  /\ queue' = Append(queue, l)
  /\ dart' = "pushed"
  /\ UNCHANGED <<mailbox, instance, stop, launcher, current, pending, sleeps, everSeen,
                 childPid, app, reaper, alive, answers, refreshVars>>

LaunchNotify ==
  /\ dart = "pushed"
  /\ NotifyOne
  /\ dart' = "free"
  /\ UNCHANGED <<future, mailbox, instance, queue, stop, current, pending, sleeps,
                 everSeen, childPid, app, reaper, alive, answers, refreshVars>>

\* push() is never refused: only the destructor stops the queue, on this thread.
RefreshAppstream(r) ==
  /\ dart = "free"
  /\ future[r] = "none"
  /\ future' = [future EXCEPT ![r] = "pending"]
  /\ Refresh!Take(r)
  /\ UNCHANGED <<dart, mailbox, instance, launchVars, app, alive>>

\* A listener gets the next frame of its port.  The terminal frames complete the
\* future and close the port.
Deliver(c) ==
  /\ dart \in {"free", "closed"}
  /\ future[c] = "pending"
  /\ mailbox[c] # <<>>
  /\ LET f == Head(mailbox[c])
     IN  IF f = "instance"
         THEN /\ mailbox' = [mailbox EXCEPT ![c] = Tail(@)]
              /\ instance' = instance \union {c}
              /\ UNCHANGED future
         ELSE /\ mailbox' = [mailbox EXCEPT ![c] = <<>>]
              /\ future' = [future EXCEPT ![c] =
                              IF f # "end" THEN f
                              ELSE IF c \in Launches /\ c \notin instance THEN "failed"
                              ELSE "ok"]
              /\ UNCHANGED instance
  /\ UNCHANGED <<dart, launchVars, app, alive, refreshVars>>

\* ~InstallationReader(), in the order of its body.
CloseFlag ==
  /\ dart = "free"
  /\ stop' = TRUE
  /\ dart' = "flagged"
  /\ UNCHANGED <<future, mailbox, instance, queue, launcher, current, pending, sleeps,
                 everSeen, childPid, app, reaper, alive, answers, refreshVars>>

CloseNotify ==
  /\ dart = "flagged"
  /\ NotifyOne
  /\ dart' = "notified"
  /\ UNCHANGED <<future, mailbox, instance, queue, stop, current, pending, sleeps,
                 everSeen, childPid, app, reaper, alive, answers, refreshVars>>

CloseRefreshes ==
  /\ dart = "notified"
  /\ Refresh!Close
  /\ dart' = "refreshStopping"
  /\ UNCHANGED <<future, mailbox, instance, launchVars, app, alive>>

\* appstream_queue_->stop() returns (SerialQueue: DrainedOnReturn).
CloseRefreshesDone ==
  /\ dart = "refreshStopping"
  /\ Len(refreshServed) = Len(refreshLog)
  /\ dart' = "joining"
  /\ UNCHANGED <<future, mailbox, instance, launchVars, app, alive, refreshVars>>

\* Slip: the launch thread is detached instead of joined.
CloseDetach ==
  /\ dart = "joining"
  /\ alive' = FALSE
  /\ dart' = "closed"
  /\ UNCHANGED <<future, mailbox, instance, launchVars, app, refreshVars>>

CloseJoin ==
  /\ dart = "joining"
  /\ launcher = "exited"
  /\ alive' = FALSE
  /\ dart' = "closed"
  /\ UNCHANGED <<future, mailbox, instance, launchVars, app, refreshVars>>

-----------------------------------------------------------------------------
(***************************************************************************)
(* The refresh thread: refresh_appstream_impl(), or the cancel callback.   *)
(***************************************************************************)

\* Slip: a cancelled refresh gets the 0x03 frame its listener has no case for.
RefreshDoneLifecycle(how, frame) ==
  /\ frame = "end" => how = "ran"
  /\ Refresh!Answer(how)
  /\ IF how = "ran" THEN Post(refreshLog[Len(refreshServed) + 1], frame)
                    ELSE UNCHANGED mailbox
  /\ UNCHANGED <<dart, future, instance, launchVars, app, alive>>

RefreshDone(how, frame) ==
  /\ frame = "end" => how = "ran"
  /\ Refresh!Answer(how)
  /\ Post(refreshLog[Len(refreshServed) + 1], frame)
  /\ UNCHANGED <<dart, future, instance, launchVars, app, alive>>

-----------------------------------------------------------------------------
(***************************************************************************)
(* The launch thread: launch_loop(), launch_impl(), reread_child_pid().    *)
(***************************************************************************)

LoopSleep ==
  /\ launcher = "checking"
  /\ ~stop /\ queue = <<>>
  /\ launcher' = "asleep"
  /\ UNCHANGED <<dart, future, mailbox, instance, queue, stop, current, pending, sleeps,
                 everSeen, childPid, app, reaper, alive, answers, refreshVars>>

\* Slip: a stack instead of a queue.
LoopTakeNewest ==
  /\ launcher = "checking"
  /\ ~stop /\ queue # <<>>
  /\ current' = Last(queue)
  /\ queue' = Front(queue)
  /\ launcher' = "launching"
  /\ UNCHANGED <<dart, future, mailbox, instance, stop, pending, sleeps, everSeen,
                 childPid, app, reaper, alive, answers, refreshVars>>

LoopTake ==
  /\ launcher = "checking"
  /\ ~stop /\ queue # <<>>
  /\ current' = Head(queue)
  /\ queue' = Tail(queue)
  /\ launcher' = "launching"
  /\ UNCHANGED <<dart, future, mailbox, instance, stop, pending, sleeps, everSeen,
                 childPid, app, reaper, alive, answers, refreshVars>>

\* resolve_launch_target() or flatpak_installation_launch_full() fails.
LaunchFails(frame) ==
  /\ launcher = "launching"
  /\ Post(current, frame)
  /\ answers' = Append(answers, [item |-> current, how |-> "ran"])
  /\ current' = NoLaunch
  /\ launcher' = "checking"
  /\ UNCHANGED <<dart, future, instance, queue, stop, pending, sleeps, everSeen, childPid,
                 app, reaper, alive, refreshVars>>

LaunchSpawns ==
  /\ launcher = "launching"
  /\ app' = [app EXCEPT ![current] = "spawned"]
  /\ launcher' = "spawned"
  /\ UNCHANGED <<dart, future, mailbox, instance, queue, stop, current, pending, sleeps,
                 everSeen, childPid, reaper, alive, answers, refreshVars>>

\* Slip: a launch that is being closed is left to somebody else's waitpid().
LaunchReapUnlessStopping ==
  /\ launcher = "spawned"
  /\ reaper' = IF stop THEN reaper ELSE reaper \union {current}
  /\ sleeps' = 0
  /\ everSeen' = FALSE
  /\ childPid' = FALSE
  /\ launcher' = "probing"
  /\ UNCHANGED <<dart, future, mailbox, instance, queue, stop, current, pending, app,
                 alive, answers, refreshVars>>

\* reap_async(), and the first childPid, which is 0.
LaunchReapAsync ==
  /\ launcher = "spawned"
  /\ reaper' = reaper \union {current}
  /\ sleeps' = 0
  /\ everSeen' = FALSE
  /\ childPid' = FALSE
  /\ launcher' = "probing"
  /\ UNCHANGED <<dart, future, mailbox, instance, queue, stop, current, pending, app,
                 alive, answers, refreshVars>>

SeenNow == app[current] \in {"listed", "published"}

\* The instance is listed with its child pid, or was listed and is no more, or
\* the time is up, or the reader is closing.
ProbeEnds ==
  /\ launcher = "probing"
  /\ \/ app[current] = "published"
     \/ ~SeenNow /\ everSeen
     \/ sleeps = MaxSleeps \/ stop
  /\ childPid' = (app[current] = "published")
  /\ launcher' = "replying"
  /\ UNCHANGED <<dart, future, mailbox, instance, queue, stop, current, pending, sleeps,
                 everSeen, app, reaper, alive, answers, refreshVars>>

\* Slip: the budget is compared with > instead of >=.
ProbeSleepsOnceMore ==
  /\ launcher = "probing"
  /\ app[current] # "published"
  /\ SeenNow \/ ~everSeen
  /\ sleeps <= MaxSleeps /\ ~stop
  /\ everSeen' = (everSeen \/ SeenNow)
  /\ sleeps' = sleeps + 1
  /\ UNCHANGED <<dart, future, mailbox, instance, queue, stop, launcher, current, pending,
                 childPid, app, reaper, alive, answers, refreshVars>>

ProbeSleeps ==
  /\ launcher = "probing"
  /\ app[current] # "published"
  /\ SeenNow \/ ~everSeen
  /\ sleeps < MaxSleeps /\ ~stop
  /\ everSeen' = (everSeen \/ SeenNow)
  /\ sleeps' = sleeps + 1
  /\ UNCHANGED <<dart, future, mailbox, instance, queue, stop, launcher, current, pending,
                 childPid, app, reaper, alive, answers, refreshVars>>

ReplyInstance ==
  /\ launcher = "replying"
  /\ Post(current, "instance")
  /\ launcher' = "ending"
  /\ UNCHANGED <<dart, future, instance, queue, stop, current, pending, sleeps, everSeen,
                 childPid, app, reaper, alive, answers, refreshVars>>

ReplyEnd ==
  /\ launcher = "ending"
  /\ Post(current, "end")
  /\ answers' = Append(answers, [item |-> current, how |-> "ran"])
  /\ current' = NoLaunch
  /\ launcher' = "checking"
  /\ UNCHANGED <<dart, future, instance, queue, stop, pending, sleeps, everSeen, childPid,
                 app, reaper, alive, refreshVars>>

LoopStop ==
  /\ launcher = "checking"
  /\ stop
  /\ pending' = queue
  /\ queue' = <<>>
  /\ launcher' = "cancelling"
  /\ UNCHANGED <<dart, future, mailbox, instance, stop, current, sleeps, everSeen,
                 childPid, app, reaper, alive, answers, refreshVars>>

LoopCancel ==
  /\ launcher = "cancelling"
  /\ pending # <<>>
  /\ Post(Head(pending), "failed")
  /\ answers' = Append(answers, [item |-> Head(pending), how |-> "cancelled"])
  /\ pending' = Tail(pending)
  /\ UNCHANGED <<dart, future, instance, queue, stop, launcher, current, sleeps, everSeen,
                 childPid, app, reaper, alive, refreshVars>>

LoopExit ==
  /\ launcher = "cancelling"
  /\ pending = <<>>
  /\ launcher' = "exited"
  /\ UNCHANGED <<dart, future, mailbox, instance, queue, stop, current, pending, sleeps,
                 everSeen, childPid, app, reaper, alive, answers, refreshVars>>

-----------------------------------------------------------------------------
\* External: the spawned sandbox gets on, or exits at any point.
AppSteps(l) ==
  /\ \/ app[l] = "spawned"   /\ app' = [app EXCEPT ![l] = "listed"]
     \/ app[l] = "listed"    /\ app' = [app EXCEPT ![l] = "published"]
     \/ app[l] \in {"spawned", "listed", "published"} /\ app' = [app EXCEPT ![l] = "gone"]
  /\ UNCHANGED <<dart, future, mailbox, instance, launchVars, alive, refreshVars>>

Launcher ==
  \/ LoopSleep \/ LoopTake
  \/ \E frame \in {"notFound", "failed"} : LaunchFails(frame)
  \/ LaunchSpawns \/ LaunchReapAsync \/ ProbeEnds \/ ProbeSleeps
  \/ ReplyInstance \/ ReplyEnd
  \/ LoopStop \/ LoopCancel \/ LoopExit

Refresher ==
  \E how \in Refresh!Ways, frame \in {"end", "notFound"} : RefreshDone(how, frame)

Close == CloseNotify \/ CloseRefreshes \/ CloseRefreshesDone \/ CloseJoin

Next ==
  \/ \E l \in Launches : Launch(l) \/ AppSteps(l)
  \/ \E r \in Refreshes : RefreshAppstream(r)
  \/ \E c \in Calls : Deliver(c)
  \/ LaunchNotify \/ CloseFlag \/ Close
  \/ Launcher \/ Refresher

(***************************************************************************)
(* Fairness: both threads run and libflatpak returns; the isolate finishes *)
(* the call it is in and delivers what its ports hold.  The launched app   *)
(* owes nothing.                                                           *)
(***************************************************************************)
Fairness ==
  /\ WF_vars(Launcher)
  /\ WF_vars(Refresher)
  /\ WF_vars(LaunchNotify \/ Close)
  /\ \A c \in Calls : WF_vars(Deliver(c))

Safety == Init /\ [][Next]_vars

Spec == Safety /\ Fairness

-----------------------------------------------------------------------------
(***************************************************************************)
(* What must hold.                                                         *)
(***************************************************************************)

\* The installation is dropped last: no launch and no refresh is in progress or
\* to come once it is (the order of the destructor's body).
InstallationOutlivesThreads ==
  ~alive => launcher = "exited" /\ Len(refreshServed) = Len(refreshLog)

\* A launch that spawned an app is reported as one and its process reaped, a
\* launch reported as failed spawned nothing, whatever close() interrupts
\* (launch_impl(), "reader closed before launch started", the Dart listener).
LaunchReportFaithful ==
  \A l \in Launches :
    /\ future[l] = "ok" => app[l] # "none" /\ l \in reaper
    /\ future[l] \in {"notFound", "failed"} => app[l] = "none"

\* Every launch and every refresh is answered, closed or not.
EveryCallAnswered == \A c \in Calls : future[c] = "pending" ~> future[c] # "pending"

LaunchLog ==
  [k \in DOMAIN answers |-> answers[k].item]
    \o (IF current = NoLaunch THEN <<>> ELSE <<current>>) \o pending \o queue

LaunchService == INSTANCE FifoService WITH
  Items   <- Launches,
  open    <- ~stop,
  log     <- LaunchLog,
  served  <- answers,
  refused <- {}

\* The hand-written launch loop keeps the promise of the queue class it predates:
\* launches answered once, in order, cancelled only when closing, none run after
\* the first is cancelled.
LaunchServiceSpec == LaunchService!Spec
=============================================================================
