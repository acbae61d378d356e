----------------------------- MODULE StopSignal -----------------------------
(***************************************************************************)
(* InstallationReader::stop() of native/src/installation_reader.cpp: the   *)
(* isolate's thread sends SIGTERM to every running instance of an app, and *)
(* a detached thread per instance sends SIGKILL after a grace period.      *)
(*                                                                         *)
(* A pid is a name the kernel hands out again.  Each instance file names   *)
(* one pid; slot says who has it: the app, the app's zombie, nobody, or an *)
(* unrelated process that came later (bound: one reuse of each pid).  The  *)
(* start time in /proc/<pid>/stat is the identity of that process.         *)
(***************************************************************************)
EXTENDS Naturals, FiniteSets

CONSTANTS
  Instances,            \* the instances of the app; each stands for its target pid
  Stops,                \* the calls of stop(), one after the other
  Nobody                \* no call, no instance, no process

ASSUME StopAssumption == Nobody \notin Instances \union Stops \union {"app", "other"}

VARIABLES
  slot,       \* slot[i]: who has the pid of i
  caller,     \* the call the isolate is inside of
  todo,       \* instances its loop has not looked at
  target,     \* the instance signal_instance_process() is working on
  step,       \* how far it has got
  start,      \* start[s][i]: start_before, Nobody if have_start is false
  pin,        \* pin[s][i]: the process the pidfd pins
  escalation, \* escalation[s][i]: the detached thread of i
  matched,    \* matched[s]: running instances the call found
  signalled,  \* signalled[s]: instances it counted as signalled
  reply,      \* reply[s]: the terminal frame
  hits        \* history: the signals that reached a process

locals == <<start, pin>>
counts == <<matched, signalled, reply>>
vars == <<slot, caller, todo, target, step, locals, escalation, counts, hits>>

\* Who may answer to a pid, as a pidfd or a start time tells them apart.
Owners == {"app", "other"}

Hit == [call : Stops, pid : Instances, who : Owners, sig : {"TERM", "KILL"},
        via : {"pidfd", "pid"}]

TypeOK ==
  /\ slot \in [Instances -> {"app", "zombie", "free", "other"}]
  /\ caller \in Stops \union {Nobody}
  /\ todo \subseteq Instances
  /\ target \in Instances \union {Nobody}
  /\ step \in {"none", "reading", "opening", "checking", "sending", "fallback"}
  /\ start \in [Stops -> [Instances -> Owners \union {Nobody}]]
  /\ pin \in [Stops -> [Instances -> Owners \union {Nobody}]]
  /\ escalation \in [Stops -> [Instances -> {"none", "polling", "deadline", "killing",
                                             "sleeping", "rechecked", "done",
                                             "gaveUp"}]]
  /\ matched \in [Stops -> SUBSET Instances]
  /\ signalled \in [Stops -> SUBSET Instances]
  /\ reply \in [Stops -> {"none", "ok", "failed", "notFound"}]
  /\ hits \subseteq Hit

Init ==
  /\ slot = [i \in Instances |-> "app"]
  /\ caller = Nobody
  /\ todo = {}
  /\ target = Nobody
  /\ step = "none"
  /\ start = [s \in Stops |-> [i \in Instances |-> Nobody]]
  /\ pin = [s \in Stops |-> [i \in Instances |-> Nobody]]
  /\ escalation = [s \in Stops |-> [i \in Instances |-> "none"]]
  /\ matched = [s \in Stops |-> {}]
  /\ signalled = [s \in Stops |-> {}]
  /\ reply = [s \in Stops |-> "none"]
  /\ hits = {}

-----------------------------------------------------------------------------
(***************************************************************************)
(* The kernel.                                                             *)
(***************************************************************************)

Owner(i) == IF slot[i] = "zombie" THEN "app" ELSE slot[i]

\* The process a pidfd or a start time stands for still has its pid.
Exists(i, who) == slot[i] # "free" /\ Owner(i) = who

AppExits(i) ==
  /\ slot[i] = "app"
  /\ slot' = [slot EXCEPT ![i] = "zombie"]
  /\ UNCHANGED <<caller, todo, target, step, locals, escalation, counts, hits>>

AppReaped(i) ==
  /\ slot[i] = "zombie"
  /\ slot' = [slot EXCEPT ![i] = "free"]
  /\ UNCHANGED <<caller, todo, target, step, locals, escalation, counts, hits>>

PidReused(i) ==
  /\ slot[i] = "free"
  /\ slot' = [slot EXCEPT ![i] = "other"]
  /\ UNCHANGED <<caller, todo, target, step, locals, escalation, counts, hits>>

\* Slip: a file that could not be read yields whatever *out held.
StartTimesUnchecked(i) == {slot[i]}

\* read_start_time(): whom it identifies, Nobody if it returns false, be it that
\* the process is gone or that /proc cannot be read.
StartTimes(i) == IF slot[i] = "free" THEN {Nobody} ELSE {Owner(i), Nobody}

\* A signal reaches who, under the pid of i; SIGKILL ends the app.
Deliver(s, i, who, sig, via) ==
  /\ hits' = hits \union {[call |-> s, pid |-> i, who |-> who, sig |-> sig, via |-> via]}
  /\ slot' = IF sig = "KILL" /\ slot[i] = "app" THEN [slot EXCEPT ![i] = "zombie"]
                                                ELSE slot

-----------------------------------------------------------------------------
(***************************************************************************)
(* stop() and signal_instance_process(), on the isolate's thread.          *)
(***************************************************************************)

\* One instance is dealt with, signalled or not.
NextInstance ==
  /\ target' = Nobody
  /\ step' = "none"

StopCalled(s) ==
  /\ caller = Nobody
  /\ reply[s] = "none"
  /\ caller' = s
  /\ todo' = Instances
  /\ UNCHANGED <<slot, target, step, locals, escalation, counts, hits>>

\* flatpak_instance_is_running() asks for the outer process, which is there for
\* as long as the app is and maybe a little longer.
SkipStopped(i) ==
  /\ caller # Nobody /\ step = "none" /\ i \in todo
  /\ slot[i] # "app"
  /\ todo' = todo \ {i}
  /\ UNCHANGED <<slot, caller, target, step, locals, escalation, counts, hits>>

MatchRunning(i, hasPid) ==
  /\ caller # Nobody /\ step = "none" /\ i \in todo
  /\ todo' = todo \ {i}
  /\ matched' = [matched EXCEPT ![caller] = @ \union {i}]
  /\ IF hasPid THEN target' = i /\ step' = "reading"
               ELSE UNCHANGED <<target, step>>
  /\ UNCHANGED <<slot, caller, locals, escalation, signalled, reply, hits>>

ReadStart ==
  /\ step = "reading"
  /\ \E who \in StartTimes(target) : start' = [start EXCEPT ![caller][target] = who]
  /\ step' = "opening"
  /\ UNCHANGED <<slot, caller, todo, target, pin, escalation, counts, hits>>

PidfdOpens ==
  /\ step = "opening"
  /\ slot[target] # "free"
  /\ pin' = [pin EXCEPT ![caller][target] = Owner(target)]
  /\ step' = "checking"
  /\ UNCHANGED <<slot, caller, todo, target, start, escalation, counts, hits>>

\* ESRCH.
PidfdFindsNobody ==
  /\ step = "opening"
  /\ slot[target] = "free"
  /\ NextInstance
  /\ UNCHANGED <<slot, caller, todo, locals, escalation, counts, hits>>

\* ENOSYS, EMFILE, a seccomp filter.
PidfdRefused ==
  /\ step = "opening"
  /\ step' = "fallback"
  /\ UNCHANGED <<slot, caller, todo, target, locals, escalation, counts, hits>>

\* Slip: the start time is not read again once the process is pinned.
RecheckNothing ==
  /\ step = "checking"
  /\ step' = "sending"
  /\ UNCHANGED <<slot, caller, todo, target, locals, escalation, counts, hits>>

\* Re-read the start time now that the process is pinned.
RecheckStart ==
  /\ step = "checking"
  /\ \E now \in StartTimes(target) :
       IF start[caller][target] = Nobody
          \/ (now # Nobody /\ now = start[caller][target])
       THEN step' = "sending" /\ UNCHANGED target
       ELSE NextInstance
  /\ UNCHANGED <<slot, caller, todo, locals, escalation, counts, hits>>

TermByPidfd ==
  /\ step = "sending"
  /\ NextInstance
  /\ LET who == pin[caller][target]
     IN  IF Exists(target, who)
         THEN /\ Deliver(caller, target, who, "TERM", "pidfd")
              /\ escalation' = [escalation EXCEPT ![caller][target] = "polling"]
              /\ signalled' = [signalled EXCEPT ![caller] = @ \union {target}]
         ELSE UNCHANGED <<slot, hits, escalation, signalled>>
  /\ UNCHANGED <<caller, todo, locals, matched, reply>>

TermByPid ==
  /\ step = "fallback"
  /\ NextInstance
  /\ IF slot[target] # "free"
     THEN /\ Deliver(caller, target, Owner(target), "TERM", "pid")
          /\ escalation' = [escalation EXCEPT ![caller][target] = "sleeping"]
          /\ signalled' = [signalled EXCEPT ![caller] = @ \union {target}]
     ELSE UNCHANGED <<slot, hits, escalation, signalled>>
  /\ UNCHANGED <<caller, todo, locals, matched, reply>>

Reply ==
  /\ caller # Nobody /\ step = "none" /\ todo = {}
  /\ reply' = [reply EXCEPT ![caller] =
                 IF matched[caller] = {} THEN "notFound"
                 ELSE IF signalled[caller] = {} THEN "failed" ELSE "ok"]
  /\ caller' = Nobody
  /\ UNCHANGED <<slot, todo, target, step, locals, escalation, matched, signalled, hits>>

-----------------------------------------------------------------------------
(***************************************************************************)
(* stop_escalate_thread(): poll the pidfd for the grace period.            *)
(***************************************************************************)

Escalate(s, i, to) == escalation' = [escalation EXCEPT ![s][i] = to]

\* A pidfd is readable once its process has exited, reaped or not.
PinExited(s, i) == pin[s][i] = "app" /\ slot[i] # "app"

PollSeesExit(s, i) ==
  /\ escalation[s][i] \in {"polling", "deadline"}
  /\ PinExited(s, i)
  /\ Escalate(s, i, "done")
  /\ UNCHANGED <<slot, caller, todo, target, step, locals, counts, hits>>

\* Slip: the test of ret is inverted.
PollTimesOutQuietly(s, i) ==
  /\ escalation[s][i] \in {"polling", "deadline"}
  /\ ~PinExited(s, i)
  /\ Escalate(s, i, "done")
  /\ UNCHANGED <<slot, caller, todo, target, step, locals, counts, hits>>

PollTimesOut(s, i) ==
  /\ escalation[s][i] \in {"polling", "deadline"}
  /\ ~PinExited(s, i)
  /\ Escalate(s, i, "killing")
  /\ UNCHANGED <<slot, caller, todo, target, step, locals, counts, hits>>

\* EINTR when the grace period is over: the next poll has a timeout of zero.
PollInterrupted(s, i) ==
  /\ escalation[s][i] = "polling"
  /\ ~PinExited(s, i)
  /\ Escalate(s, i, "deadline")
  /\ UNCHANGED <<slot, caller, todo, target, step, locals, counts, hits>>

\* EINTR again, from the poll of zero length: the loop is left with ret < 0.
PollInterruptedAgain(s, i) ==
  /\ escalation[s][i] = "deadline"
  /\ ~PinExited(s, i)
  /\ Escalate(s, i, "gaveUp")
  /\ UNCHANGED <<slot, caller, todo, target, step, locals, counts, hits>>

KillByPidfd(s, i) ==
  /\ escalation[s][i] = "killing"
  /\ Escalate(s, i, "done")
  /\ IF Exists(i, pin[s][i]) THEN Deliver(s, i, pin[s][i], "KILL", "pidfd")
                             ELSE UNCHANGED <<slot, hits>>
  /\ UNCHANGED <<caller, todo, target, step, locals, counts>>

-----------------------------------------------------------------------------
(***************************************************************************)
(* fallback_escalate_thread(): sleep, look again, kill the pid.            *)
(***************************************************************************)

FallbackRechecks(s, i) ==
  /\ escalation[s][i] = "sleeping"
  /\ \E now \in StartTimes(i) :
       Escalate(s, i, IF slot[i] = "free" THEN "done"
                      ELSE IF start[s][i] \in {Nobody, now} THEN "rechecked"
                      ELSE IF now = Nobody THEN "gaveUp" ELSE "done")
  /\ UNCHANGED <<slot, caller, todo, target, step, locals, counts, hits>>

KillByPid(s, i) ==
  /\ escalation[s][i] = "rechecked"
  /\ Escalate(s, i, "done")
  /\ IF slot[i] # "free" THEN Deliver(s, i, Owner(i), "KILL", "pid")
                         ELSE UNCHANGED <<slot, hits>>
  /\ UNCHANGED <<caller, todo, target, step, locals, counts>>

StopThread ==
  \/ \E i \in Instances : \/ SkipStopped(i)
                          \/ \E hasPid \in BOOLEAN : MatchRunning(i, hasPid)
  \/ ReadStart \/ PidfdOpens \/ PidfdFindsNobody \/ PidfdRefused
  \/ RecheckStart \/ TermByPidfd \/ TermByPid \/ Reply

EscalationThread(s, i) ==
  \/ PollSeesExit(s, i) \/ PollTimesOut(s, i) \/ PollInterrupted(s, i)
  \/ PollInterruptedAgain(s, i) \/ KillByPidfd(s, i)
  \/ FallbackRechecks(s, i) \/ KillByPid(s, i)

Next ==
  \/ \E i \in Instances : AppExits(i) \/ AppReaped(i) \/ PidReused(i)
  \/ \E s \in Stops : \/ StopCalled(s)
                      \/ \E i \in Instances : EscalationThread(s, i)
  \/ StopThread

(***************************************************************************)
(* Fairness: the isolate gets through stop(), the detached threads run.    *)
(* An app may ignore SIGTERM for ever.                                     *)
(***************************************************************************)
Fairness ==
  /\ WF_vars(StopThread)
  /\ \A s \in Stops, i \in Instances : WF_vars(EscalationThread(s, i))

Safety == Init /\ [][Next]_vars

Spec == Safety /\ Fairness

-----------------------------------------------------------------------------
(***************************************************************************)
(* What must hold.                                                         *)
(***************************************************************************)

\* stop() signals the app it was asked to stop, or nothing.
\*
\* Through a pidfd, no signal reaches an unrelated process, although the pid came
\* out of an instance file ("read_start_time() below closes that window",
\* pidfd_open_compat()), once stop() has read the start time of the app: neither
\* between that read and the open, nor between the open and the second read, nor
\* during the grace period does a reuse of the pid misdirect the signal.  A pid
\* reused before the first read, or one whose start time could not be read, is
\* not covered by the code.
\*
\* Without a pidfd, a pid that was reused during the grace period is noticed and
\* not killed: what passes the second look is what was sent SIGTERM ("re-check the
\* start time before killing", FallbackKill).  The code gives this up when it
\* could not read the start time at first (have_start).
SignalsHitApp ==
  [][/\ \A h \in hits' \ hits :
          h.via = "pidfd" /\ start[h.call][h.pid] = "app" => h.who = "app"
     /\ \A s \in Stops, i \in Instances :
          escalation[s][i] = "sleeping" /\ escalation'[s][i] = "rechecked"
            /\ start[s][i] = "app" =>
              /\ Owner(i) = "app"
              /\ [call |-> s, pid |-> i, who |-> "app", sig |-> "TERM", via |-> "pid"]
                   \in hits]_vars

\* An app that was sent SIGTERM is gone in the end, even if it ignores it ("we
\* don't want to leave a stray process if it ignores SIGTERM",
\* stop_escalate_thread()), unless its escalation ended without a kill in one of
\* two ways: a signal interrupted the last poll, of zero length, or the start time
\* read before could not be read again.
TermedDies ==
  \A i \in Instances :
    (\E h \in hits : h.pid = i /\ h.who = "app" /\ h.sig = "TERM")
      ~> slot[i] # "app" \/ \E s \in Stops : escalation[s][i] = "gaveUp"
=============================================================================
