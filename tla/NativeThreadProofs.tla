------------------------- MODULE NativeThreadProofs -------------------------
(***************************************************************************)
(* Proofs about the native components that run threads of their own next   *)
(* to the isolate's, each for every value of its constants: StopSignal     *)
(* (the escalation threads of stop()), ChildReaper (the poll loop and the  *)
(* detached waiters) and UpdateMonitor (the thread with the GMainLoop).    *)
(*                                                                         *)
(* The three share no state.  Their specifications have names of their own *)
(* (ReaperInit, MonitorInit), so that one module can extend them all.      *)
(***************************************************************************)
EXTENDS StopSignal, ChildReaper, UpdateMonitor, TLAPS

USE StopAssumption

-----------------------------------------------------------------------------
(***************************************************************************)
(* StopSignal: the types.                                                  *)
(***************************************************************************)

\* signal_instance_process() runs inside a call and on an instance.
InsideCall ==
  /\ step = "none" <=> target = Nobody
  /\ target # Nobody => caller # Nobody

Typed == TypeOK /\ InsideCall

LEMMA InitTyped == Init => Typed
  BY DEF Init, Typed, TypeOK, InsideCall

LEMMA OwnerTyped ==
  ASSUME Typed, NEW i \in Instances, slot[i] # "free"
  PROVE  Owner(i) \in Owners
  BY DEF Typed, TypeOK, Owner, Owners

LEMMA StartTimesTyped ==
  ASSUME Typed, NEW i \in Instances
  PROVE  StartTimes(i) \subseteq Owners \union {Nobody}
  BY OwnerTyped DEF StartTimes

\* Whom a signal reaches, it may reach.
LEMMA DeliverTyped ==
  ASSUME Typed, NEW s \in Stops, NEW i \in Instances, NEW who \in Owners,
         NEW sig \in {"TERM", "KILL"}, NEW via \in {"pidfd", "pid"},
         Deliver(s, i, who, sig, via)
  PROVE  /\ hits' \subseteq Hit
         /\ slot' \in [Instances -> {"app", "zombie", "free", "other"}]
<1>1. [call |-> s, pid |-> i, who |-> who, sig |-> sig, via |-> via] \in Hit
  BY DEF Hit
<1>2. hits' \subseteq Hit
  BY <1>1 DEF Deliver, Typed, TypeOK
<1>3. slot' \in [Instances -> {"app", "zombie", "free", "other"}]
  BY DEF Deliver, Typed, TypeOK
<1> QED
  BY <1>2, <1>3

EscalationStates ==
  {"none", "polling", "deadline", "killing", "sleeping", "rechecked", "done", "gaveUp"}

LEMMA EscalateTyped ==
  ASSUME Typed, NEW s \in Stops, NEW i \in Instances, NEW to \in EscalationStates,
         Escalate(s, i, to)
  PROVE  escalation' \in [Stops -> [Instances -> EscalationStates]]
  BY DEF Escalate, Typed, TypeOK, EscalationStates

LEMMA NextTyped == Typed /\ [Next]_vars => Typed'
<1> SUFFICES ASSUME Typed, [Next]_vars PROVE Typed'
  OBVIOUS
<1> USE DEF Typed, TypeOK, InsideCall, locals, counts, EscalationStates
<1>1. ASSUME NEW i \in Instances, AppExits(i) \/ AppReaped(i) \/ PidReused(i)
      PROVE  Typed'
  BY <1>1 DEF AppExits, AppReaped, PidReused
<1>2. ASSUME NEW s \in Stops, StopCalled(s) PROVE Typed'
  BY <1>2 DEF StopCalled
<1>3. ASSUME NEW i \in Instances, SkipStopped(i) PROVE Typed'
  BY <1>3 DEF SkipStopped
<1>4. ASSUME NEW i \in Instances, NEW hasPid \in BOOLEAN, MatchRunning(i, hasPid)
      PROVE  Typed'
  BY <1>4 DEF MatchRunning
<1>5. CASE ReadStart
  <2>1. caller \in Stops /\ target \in Instances
    BY <1>5 DEF ReadStart
  <2>2. PICK who \in Owners \union {Nobody} : start' = [start EXCEPT ![caller][target] = who]
    BY <1>5, <2>1, StartTimesTyped DEF ReadStart
  <2>3. start' \in [Stops -> [Instances -> Owners \union {Nobody}]]
    BY <2>1, <2>2
  <2> QED
    BY <1>5, <2>3 DEF ReadStart
<1>6. CASE PidfdOpens
  <2>1. caller \in Stops /\ target \in Instances
    BY <1>6 DEF PidfdOpens
  <2>2. Owner(target) \in Owners \union {Nobody}
    BY <1>6, <2>1, OwnerTyped DEF PidfdOpens
  <2>3. pin' \in [Stops -> [Instances -> Owners \union {Nobody}]]
    BY <1>6, <2>1, <2>2 DEF PidfdOpens
  <2> QED
    BY <1>6, <2>3 DEF PidfdOpens
<1>7. CASE PidfdFindsNobody \/ PidfdRefused
  BY <1>7 DEF PidfdFindsNobody, PidfdRefused, NextInstance
<1>8. CASE RecheckStart
  BY <1>8 DEF RecheckStart, NextInstance
<1>9. CASE TermByPidfd
  <2>1. caller \in Stops /\ target \in Instances
    BY <1>9 DEF TermByPidfd
  <2> DEFINE who == pin[caller][target]
  <2>2. CASE Exists(target, who)
    <3>1. who \in Owners
      BY <2>1, <2>2, OwnerTyped DEF Exists
    <3>2. Deliver(caller, target, who, "TERM", "pidfd")
      BY <1>9, <2>2 DEF TermByPidfd
    <3>3. /\ hits' \subseteq Hit
          /\ slot' \in [Instances -> {"app", "zombie", "free", "other"}]
      BY <2>1, <3>1, <3>2, DeliverTyped
    <3>4. escalation' = [escalation EXCEPT ![caller][target] = "polling"]
      BY <1>9, <2>2 DEF TermByPidfd
    <3>5. signalled' = [signalled EXCEPT ![caller] = @ \union {target}]
      BY <1>9, <2>2 DEF TermByPidfd
    <3>6. escalation' \in [Stops -> [Instances -> EscalationStates]]
      BY <2>1, <3>4
    <3>7. signalled' \in [Stops -> SUBSET Instances]
      BY <2>1, <3>5
    <3> QED
      BY <1>9, <2>1, <3>3, <3>6, <3>7 DEF TermByPidfd, NextInstance
  <2>3. CASE ~Exists(target, who)
    BY <1>9, <2>3 DEF TermByPidfd, NextInstance
  <2> QED
    BY <2>2, <2>3
<1>10. CASE TermByPid
  <2>1. caller \in Stops /\ target \in Instances
    BY <1>10 DEF TermByPid
  <2>2. CASE slot[target] # "free"
    <3>1. Owner(target) \in Owners /\ Deliver(caller, target, Owner(target), "TERM", "pid")
      BY <1>10, <2>1, <2>2, OwnerTyped DEF TermByPid
    <3>2. /\ hits' \subseteq Hit
          /\ slot' \in [Instances -> {"app", "zombie", "free", "other"}]
      BY <2>1, <3>1, DeliverTyped
    <3>3. escalation' = [escalation EXCEPT ![caller][target] = "sleeping"]
      BY <1>10, <2>2 DEF TermByPid
    <3>4. signalled' = [signalled EXCEPT ![caller] = @ \union {target}]
      BY <1>10, <2>2 DEF TermByPid
    <3>5. escalation' \in [Stops -> [Instances -> EscalationStates]]
      BY <2>1, <3>3
    <3>6. signalled' \in [Stops -> SUBSET Instances]
      BY <2>1, <3>4
    <3> QED
      BY <1>10, <2>1, <3>2, <3>5, <3>6 DEF TermByPid, NextInstance
  <2>3. CASE slot[target] = "free"
    BY <1>10, <2>3 DEF TermByPid, NextInstance
  <2> QED
    BY <2>2, <2>3
<1>11. CASE Reply
  BY <1>11 DEF Reply
<1>12. ASSUME NEW s \in Stops, NEW i \in Instances,
              \/ PollSeesExit(s, i) \/ PollTimesOut(s, i)
              \/ PollInterrupted(s, i) \/ PollInterruptedAgain(s, i)
       PROVE  Typed'
  <2>1. \E to \in EscalationStates : Escalate(s, i, to)
    BY <1>12 DEF PollSeesExit, PollTimesOut, PollInterrupted, PollInterruptedAgain
  <2>2. escalation' \in [Stops -> [Instances -> EscalationStates]]
    BY <2>1, EscalateTyped
  <2> QED
    BY <1>12, <2>2 DEF PollSeesExit, PollTimesOut, PollInterrupted, PollInterruptedAgain
<1>13. ASSUME NEW s \in Stops, NEW i \in Instances, FallbackRechecks(s, i)
       PROVE  Typed'
  BY <1>13 DEF FallbackRechecks, Escalate
<1>14. ASSUME NEW s \in Stops, NEW i \in Instances, KillByPidfd(s, i)
       PROVE  Typed'
  <2> DEFINE who == pin[s][i]
  <2>1. CASE Exists(i, who)
    <3>1. who \in Owners /\ Deliver(s, i, who, "KILL", "pidfd")
      BY <1>14, <2>1, OwnerTyped DEF Exists, KillByPidfd
    <3>2. /\ hits' \subseteq Hit
          /\ slot' \in [Instances -> {"app", "zombie", "free", "other"}]
      BY <3>1, DeliverTyped
    <3> QED
      BY <1>14, <3>2 DEF KillByPidfd, Escalate
  <2>2. CASE ~Exists(i, who)
    BY <1>14, <2>2 DEF KillByPidfd, Escalate
  <2> QED
    BY <2>1, <2>2
<1>15. ASSUME NEW s \in Stops, NEW i \in Instances, KillByPid(s, i)
       PROVE  Typed'
  <2>1. CASE slot[i] # "free"
    <3>1. Owner(i) \in Owners /\ Deliver(s, i, Owner(i), "KILL", "pid")
      BY <1>15, <2>1, OwnerTyped DEF KillByPid
    <3>2. /\ hits' \subseteq Hit
          /\ slot' \in [Instances -> {"app", "zombie", "free", "other"}]
      BY <3>1, DeliverTyped
    <3> QED
      BY <1>15, <3>2 DEF KillByPid, Escalate
  <2>2. CASE slot[i] = "free"
    BY <1>15, <2>2 DEF KillByPid, Escalate
  <2> QED
    BY <2>1, <2>2
<1>16. CASE UNCHANGED vars
  BY <1>16 DEF vars
<1> QED
  BY <1>1, <1>2, <1>3, <1>4, <1>5, <1>6, <1>7, <1>8, <1>9, <1>10, <1>11, <1>12, <1>13,
     <1>14, <1>15, <1>16 DEF Next, StopThread, EscalationThread

\* Every variable of stop() and of its escalations keeps its type; among others
\* no signal is sent for a process that was not there when it was pinned.
THEOREM TypeCorrect == Safety => []TypeOK
<1>1. Typed => TypeOK
  BY DEF Typed
<1> QED
  BY <1>1, InitTyped, NextTyped, PTL DEF Safety

-----------------------------------------------------------------------------
(***************************************************************************)
(* Whom the signals reach.                                                 *)
(***************************************************************************)

\* A call looks at an instance once, and an escalation has begun only after it
\* did; the start time and the pidfd of an escalation stay what they were.
OnceEach ==
  /\ target \notin todo
  /\ \A s \in Stops, i \in Instances : escalation[s][i] # "none" =>
       IF s = caller THEN i \notin todo /\ i # target ELSE reply[s] # "none"

\* A pidfd never gets from the app to another process, and a pid not back.
PinsHold ==
  /\ \A s \in Stops, i \in Instances : pin[s][i] = "other" => slot[i] = "other"
  /\ step \in {"checking", "sending"} => pin[caller][target] # Nobody

\* What passes the second look is pinned: before SIGTERM is sent, and from then
\* on until the grace period is over.
PinIsApp ==
  /\ step = "sending" /\ start[caller][target] = "app" => pin[caller][target] = "app"
  /\ \A s \in Stops, i \in Instances :
       escalation[s][i] \in {"polling", "deadline", "killing"} /\ start[s][i] = "app" =>
         pin[s][i] = "app"

TermOfApp(s, i) == [call |-> s, pid |-> i, who |-> "app", sig |-> "TERM", via |-> "pid"]

\* Without a pidfd it is the app that was sent SIGTERM, unless the pid was
\* another's by then, and then it is for good.
TermedApp ==
  \A s \in Stops, i \in Instances :
    escalation[s][i] = "sleeping" => slot[i] = "other" \/ TermOfApp(s, i) \in hits

Aimed == Typed /\ OnceEach /\ PinsHold /\ PinIsApp /\ TermedApp

LEMMA InitAimed == Init => Aimed
  BY InitTyped DEF Init, Aimed, OnceEach, PinsHold, PinIsApp, TermedApp

\* A pid that went to another process stays with it, and signals are not unsent.
LEMMA NothingReturns ==
  ASSUME Typed, [Next]_vars
  PROVE  /\ \A i \in Instances : slot[i] = "other" => slot'[i] = "other"
         /\ hits \subseteq hits'
<1> USE DEF Typed, TypeOK, Deliver, locals, counts
<1> DEFINE Goal == /\ \A i \in Instances : slot[i] = "other" => slot'[i] = "other"
                   /\ hits \subseteq hits'
<1>1. ASSUME NEW i \in Instances, AppExits(i) \/ AppReaped(i) \/ PidReused(i) PROVE Goal
  BY <1>1 DEF AppExits, AppReaped, PidReused
<1>2. ASSUME NEW s \in Stops, StopCalled(s) PROVE Goal
  BY <1>2 DEF StopCalled
<1>3. CASE StopThread
  BY <1>3 DEF StopThread, SkipStopped, MatchRunning, ReadStart, PidfdOpens,
              PidfdFindsNobody, PidfdRefused, RecheckStart, TermByPidfd, TermByPid, Reply
<1>4. ASSUME NEW s \in Stops, NEW i \in Instances, EscalationThread(s, i) PROVE Goal
  BY <1>4 DEF EscalationThread, PollSeesExit, PollTimesOut, PollInterrupted,
              PollInterruptedAgain, KillByPidfd, FallbackRechecks, KillByPid
<1>5. CASE UNCHANGED vars
  BY <1>5 DEF vars
<1> QED
  BY <1>1, <1>2, <1>3, <1>4, <1>5 DEF Next

LEMMA NextAimed == Aimed /\ [Next]_vars => Aimed'
<1> SUFFICES ASSUME Aimed, [Next]_vars PROVE Aimed'
  OBVIOUS
<1>1. Typed'
  BY NextTyped DEF Aimed
<1>2. /\ \A i \in Instances : slot[i] = "other" => slot'[i] = "other"
      /\ hits \subseteq hits'
  BY NothingReturns DEF Aimed
<1> DEFINE Rest == OnceEach /\ PinsHold /\ PinIsApp /\ TermedApp
<1>3. Rest'
  <2> USE DEF Aimed, OnceEach, PinsHold, PinIsApp, TermedApp, Typed, TypeOK, InsideCall,
              TermOfApp, locals, counts
  <2>1. ASSUME NEW i \in Instances, AppExits(i) \/ AppReaped(i) \/ PidReused(i) PROVE Rest'
    BY <1>2, <2>1 DEF AppExits, AppReaped, PidReused
  <2>2. ASSUME NEW s \in Stops, StopCalled(s) PROVE Rest'
    BY <2>2 DEF StopCalled
  <2>3. ASSUME NEW i \in Instances, SkipStopped(i) PROVE Rest'
    BY <2>3 DEF SkipStopped
  <2>4. ASSUME NEW i \in Instances, NEW hasPid \in BOOLEAN, MatchRunning(i, hasPid)
        PROVE  Rest'
    BY <2>4 DEF MatchRunning
  <2>5. CASE ReadStart
    BY <2>5 DEF ReadStart
  <2>6. CASE PidfdOpens
    BY <2>6 DEF PidfdOpens, Owner
  <2>7. CASE PidfdFindsNobody \/ PidfdRefused
    BY <2>7 DEF PidfdFindsNobody, PidfdRefused, NextInstance
  <2>8. CASE RecheckStart
    <3>1. caller \in Stops /\ target \in Instances
      BY <2>8 DEF RecheckStart
    <3>2. UNCHANGED <<slot, caller, todo, start, pin, escalation, reply, hits>>
      BY <2>8 DEF RecheckStart
    <3>3. CASE step' = "sending" /\ target' = target
      <4>1. ASSUME start[caller][target] = "app" PROVE pin[caller][target] = "app"
        <5>1. \E now \in StartTimes(target) : now = "app"
          BY <2>8, <3>1, <3>3, <4>1 DEF RecheckStart, NextInstance
        <5>2. slot[target] # "other"
          BY <5>1, <3>1 DEF StartTimes, Owner
        <5>3. pin[caller][target] # Nobody /\ pin[caller][target] # "other"
          BY <2>8, <3>1, <5>2 DEF RecheckStart
        <5> QED
          BY <3>1, <5>3 DEF Owners
      <4> QED
        BY <2>8, <3>1, <3>2, <3>3, <4>1 DEF RecheckStart
    <3>4. CASE step' = "none" /\ target' = Nobody
      BY <3>1, <3>2, <3>4
    <3> QED
      BY <2>8, <3>3, <3>4 DEF RecheckStart, NextInstance
  <2>9. CASE TermByPidfd
    <3>1. caller \in Stops /\ target \in Instances
      BY <2>9 DEF TermByPidfd
    <3>2. /\ step' = "none" /\ target' = Nobody
          /\ UNCHANGED <<caller, todo, start, pin, reply>>
          /\ \/ escalation' = escalation
             \/ escalation' = [escalation EXCEPT ![caller][target] = "polling"]
      BY <2>9 DEF TermByPidfd, NextInstance
    <3>3. start[caller][target] = "app" => pin[caller][target] = "app"
      BY <2>9 DEF TermByPidfd
    <3>4. CASE escalation' = escalation
      BY <1>2, <3>1, <3>2, <3>4
    <3>5. CASE escalation' = [escalation EXCEPT ![caller][target] = "polling"]
      BY <1>2, <3>1, <3>2, <3>3, <3>5
    <3> QED
      BY <3>2, <3>4, <3>5
  <2>10. CASE TermByPid
    <3>1. caller \in Stops /\ target \in Instances
      BY <2>10 DEF TermByPid
    <3>2. /\ step' = "none" /\ target' = Nobody
          /\ UNCHANGED <<caller, todo, start, pin, reply>>
      BY <2>10 DEF TermByPid, NextInstance
    <3>3. CASE slot[target] = "free"
      <4>1. UNCHANGED <<slot, hits, escalation>>
        BY <2>10, <3>3 DEF TermByPid
      <4> QED
        BY <3>1, <3>2, <4>1
    <3>4. CASE slot[target] # "free"
      <4>1. Deliver(caller, target, Owner(target), "TERM", "pid")
        BY <2>10, <3>4 DEF TermByPid
      <4>2. escalation' = [escalation EXCEPT ![caller][target] = "sleeping"]
        BY <2>10, <3>4 DEF TermByPid
      <4>3. slot'[target] = "other" \/ TermOfApp(caller, target) \in hits'
        BY <1>2, <3>1, <3>4, <4>1 DEF Deliver, Owner
      <4> QED
        BY <1>2, <3>1, <3>2, <4>2, <4>3
    <3> QED
      BY <3>3, <3>4
  <2>11. CASE Reply
    BY <2>11 DEF Reply
  <2>12. ASSUME NEW s \in Stops, NEW i \in Instances, EscalationThread(s, i) PROVE Rest'
    <3>1. UNCHANGED <<caller, todo, target, step, start, pin, reply>>
      BY <2>12 DEF EscalationThread, PollSeesExit, PollTimesOut, PollInterrupted,
                   PollInterruptedAgain, KillByPidfd, FallbackRechecks, KillByPid
    <3>2. ASSUME escalation[s][i] \in {"polling", "deadline"},
                 NEW to \in {"deadline", "killing"}, Escalate(s, i, to)
          PROVE  Rest'
      BY <1>2, <3>1, <3>2 DEF Escalate
    <3>3. ASSUME escalation[s][i] # "none",
                 NEW to \in {"done", "gaveUp", "rechecked"}, Escalate(s, i, to)
          PROVE  Rest'
      BY <1>2, <3>1, <3>3 DEF Escalate
    <3>4. CASE PollTimesOut(s, i) \/ PollInterrupted(s, i)
      BY <3>2, <3>4 DEF PollTimesOut, PollInterrupted
    <3>5. CASE PollSeesExit(s, i) \/ PollInterruptedAgain(s, i)
      BY <3>3, <3>5 DEF PollSeesExit, PollInterruptedAgain
    <3>6. CASE KillByPidfd(s, i) \/ KillByPid(s, i)
      BY <3>3, <3>6 DEF KillByPidfd, KillByPid
    <3>7. CASE FallbackRechecks(s, i)
      <4>1. escalation[s][i] = "sleeping"
        BY <3>7 DEF FallbackRechecks
      <4>2. \E to \in {"done", "gaveUp", "rechecked"} : Escalate(s, i, to)
        BY <3>7 DEF FallbackRechecks
      <4> QED
        BY <3>3, <4>1, <4>2
    <3> QED
      BY <2>12, <3>4, <3>5, <3>6, <3>7 DEF EscalationThread
  <2>13. CASE UNCHANGED vars
    BY <2>13 DEF vars
  <2> QED
    BY <2>1, <2>2, <2>3, <2>4, <2>5, <2>6, <2>7, <2>8, <2>9, <2>10, <2>11, <2>12, <2>13
    DEF Next, StopThread
<1> QED
  BY <1>1, <1>3 DEF Aimed

LEMMA AimedInvariant == Safety => []Aimed
  BY InitAimed, NextAimed, PTL DEF Safety

\* Every signal through a pidfd, whose start time stop() had read as the app's,
\* reaches the app, and the pid that is killed without one is the pid of the app
\* that was sent SIGTERM, however often the pids are reused in between
\* (signal_instance_process() and both escalation threads).
THEOREM SignalsReachTheApp == Safety => SignalsHitApp
<1> DEFINE PidfdHits ==
             \A h \in hits' \ hits :
               h.via = "pidfd" /\ start[h.call][h.pid] = "app" => h.who = "app"
           Rechecks ==
             \A s \in Stops, i \in Instances :
               escalation[s][i] = "sleeping" /\ escalation'[s][i] = "rechecked"
                 /\ start[s][i] = "app" =>
                   /\ Owner(i) = "app"
                   /\ [call |-> s, pid |-> i, who |-> "app", sig |-> "TERM", via |-> "pid"]
                        \in hits
<1>1. ASSUME Aimed, Next PROVE PidfdHits
  <2> USE <1>1 DEF Aimed, PinIsApp, Typed, TypeOK, InsideCall, locals, counts
  <2>1. CASE TermByPidfd
    <3>1. start[caller][target] = "app" => pin[caller][target] = "app"
      BY <2>1 DEF TermByPidfd
    <3> QED
      BY <2>1, <3>1 DEF TermByPidfd, Deliver
  <2>2. ASSUME NEW s \in Stops, NEW i \in Instances, KillByPidfd(s, i) PROVE PidfdHits
    <3>1. start[s][i] = "app" => pin[s][i] = "app"
      BY <2>2 DEF KillByPidfd
    <3> QED
      BY <2>2, <3>1 DEF KillByPidfd, Deliver
  <2>3. CASE TermByPid
    BY <2>3 DEF TermByPid, Deliver
  <2>4. ASSUME NEW s \in Stops, NEW i \in Instances, KillByPid(s, i) PROVE PidfdHits
    BY <2>4 DEF KillByPid, Deliver
  <2>5. CASE hits' = hits
    BY <2>5
  <2>6. \/ TermByPidfd \/ TermByPid \/ hits' = hits
        \/ \E s \in Stops, i \in Instances : KillByPidfd(s, i) \/ KillByPid(s, i)
    BY <1>1 DEF Next, AppExits, AppReaped, PidReused, StopCalled, StopThread, SkipStopped,
           MatchRunning, ReadStart, PidfdOpens, PidfdFindsNobody, PidfdRefused,
           RecheckStart, Reply, EscalationThread, PollSeesExit, PollTimesOut,
           PollInterrupted, PollInterruptedAgain, FallbackRechecks
  <2> QED
    BY <2>1, <2>2, <2>3, <2>4, <2>5, <2>6
<1>2. ASSUME Aimed, Next PROVE Rechecks
  <2> SUFFICES ASSUME NEW s \in Stops, NEW i \in Instances,
                      escalation[s][i] = "sleeping", escalation'[s][i] = "rechecked",
                      start[s][i] = "app"
               PROVE  Owner(i) = "app" /\ TermOfApp(s, i) \in hits
    BY DEF TermOfApp
  <2> USE <1>2 DEF Aimed, Typed, TypeOK, locals, counts
  <2>1. FallbackRechecks(s, i)
    <3>1. ASSUME NEW r \in Stops, NEW j \in Instances, NEW to, Escalate(r, j, to)
          PROVE  r = s /\ j = i
      BY <3>1 DEF Escalate
    <3>2. escalation'[s][i] # escalation[s][i]
      OBVIOUS
    <3>3. ASSUME StopThread PROVE FALSE
      <4> DEFINE Begun == /\ caller \in Stops /\ target \in Instances
                          /\ \E to \in {"polling", "sleeping"} :
                               escalation' = [escalation EXCEPT ![caller][target] = to]
      <4>1. ASSUME TermByPidfd \/ TermByPid PROVE FALSE
        <5>1. escalation' = escalation \/ Begun
          BY <4>1 DEF TermByPidfd, TermByPid, InsideCall
        <5> HIDE DEF Begun
        <5>2. Begun
          BY <3>2, <5>1
        <5> QED
          BY <3>2, <5>2 DEF Begun
      <4>2. escalation' # escalation
        BY <3>2
      <4>3. TermByPidfd \/ TermByPid \/ escalation' = escalation
        BY <3>3 DEF StopThread, SkipStopped, MatchRunning, ReadStart, PidfdOpens,
             PidfdFindsNobody, PidfdRefused, RecheckStart, Reply
      <4> QED
        BY <4>1, <4>2, <4>3
    <3>4. ASSUME \/ \E j \in Instances : AppExits(j) \/ AppReaped(j) \/ PidReused(j)
                 \/ \E r \in Stops : StopCalled(r)
          PROVE  FALSE
      BY <3>2, <3>4 DEF AppExits, AppReaped, PidReused, StopCalled
    <3>5. \E r \in Stops, j \in Instances : EscalationThread(r, j)
      <4>1. \/ StopThread
            \/ (\E j \in Instances : AppExits(j) \/ AppReaped(j) \/ PidReused(j))
                 \/ \E r \in Stops : StopCalled(r)
            \/ \E r \in Stops, j \in Instances : EscalationThread(r, j)
        BY <1>2, Zenon DEF Next
      <4> QED
        BY <3>3, <3>4, <4>1
    <3>6. EscalationThread(s, i)
      BY <3>1, <3>5 DEF EscalationThread, PollSeesExit, PollTimesOut, PollInterrupted,
           PollInterruptedAgain, KillByPidfd, FallbackRechecks, KillByPid
    <3> QED
      BY <3>6 DEF EscalationThread, PollSeesExit, PollTimesOut, PollInterrupted,
           PollInterruptedAgain, KillByPidfd, KillByPid
  <2>2. Owner(i) = "app"
    BY <2>1 DEF FallbackRechecks, Escalate, StartTimes
  <2> QED
    BY <2>2 DEF TermedApp, Owner
<1>3. Aimed /\ [Next]_vars => [PidfdHits /\ Rechecks]_vars
  BY <1>1, <1>2
<1> QED
  BY <1>3, AimedInvariant, PTL DEF Safety, SignalsHitApp

-----------------------------------------------------------------------------
(***************************************************************************)
(* ChildReaper: the types.  ReaperTypeOK is not inductive alone:           *)
(* LoopReapInline takes a child out of what the loop holds and leaves      *)
(* revents as it is.                                                       *)
(***************************************************************************)

USE ReaperAssumption

\* The revents of a poll are used up before the loop goes on to the next.
ReadyIsCurrent == loop \notin {"draining", "reaping"} => ready = {}

ReaperTyped == ReaperTypeOK /\ ReadyIsCurrent

LEMMA InitReaperTyped == ReaperInit => ReaperTyped
  BY DEF ReaperInit, ReaperTyped, ReaperTypeOK, ReadyIsCurrent

LEMMA NextReaperTyped == ReaperTyped /\ [ReaperNext]_reaperVars => ReaperTyped'
<1> SUFFICES ASSUME ReaperTyped, [ReaperNext]_reaperVars PROVE ReaperTyped'
  OBVIOUS
<1> USE DEF ReaperTyped, ReaperTypeOK, ReadyIsCurrent, loopVars, Zombie
<1>1. ASSUME NEW c \in Children, Exit(c) PROVE ReaperTyped'
  BY <1>1 DEF Exit
<1>2. ASSUME NEW c \in Children, WaiterReaps(c) PROVE ReaperTyped'
  BY <1>2 DEF WaiterReaps
<1>3. ASSUME NEW c \in Children, AddDetached(c) PROVE ReaperTyped'
  BY <1>3 DEF AddDetached
<1>4. ASSUME NEW c \in Children, AddQueued(c) PROVE ReaperTyped'
  BY <1>4 DEF AddQueued
<1>5. ASSUME NEW c \in Children, AddLockThread(c) PROVE ReaperTyped'
  BY <1>5 DEF AddLockThread
<1>6. ASSUME NEW c \in Children, AddJoinOld(c) PROVE ReaperTyped'
  BY <1>6, ZenonT(40) DEF AddJoinOld
<1>7. ASSUME NEW c \in Children, AddSpawn(c) PROVE ReaperTyped'
  BY <1>7 DEF AddSpawn
<1>8. ASSUME NEW c \in Children, AddStore(c) PROVE ReaperTyped'
  BY <1>8 DEF AddStore
<1>9. ASSUME NEW c \in Children, AddWake(c) PROVE ReaperTyped'
  BY <1>9 DEF AddWake
<1>10. ASSUME NEW c \in Children, LoopReapInline(c) PROVE ReaperTyped'
  BY <1>10 DEF LoopReapInline
<1>11. ASSUME NEW c \in Children, DtorReap(c) PROVE ReaperTyped'
  BY <1>11 DEF DtorReap
<1>12. CASE LoopTake
  BY <1>12 DEF LoopTake
<1>13. CASE PollReturns
  BY <1>13 DEF PollReturns
<1>14. CASE LoopHandOff
  BY <1>14 DEF LoopHandOff
<1>15. CASE LoopDrain
  BY <1>15 DEF LoopDrain
<1>16. CASE LoopReap
  BY <1>16 DEF LoopReap
<1>17. CASE LoopReturn
  BY <1>17 DEF LoopReturn
<1>18. CASE LoopInterrupted
  BY <1>18 DEF LoopInterrupted
<1>19. CASE PollFails
  BY <1>19 DEF PollFails
<1>20. CASE DtorFlag
  BY <1>20 DEF DtorFlag
<1>21. CASE DtorWake
  BY <1>21 DEF DtorWake
<1>22. CASE DtorJoin
  BY <1>22 DEF DtorJoin
<1>23. CASE DtorReturns
  BY <1>23 DEF DtorReturns
<1>24. CASE UNCHANGED reaperVars
  BY <1>24 DEF reaperVars
<1> QED
  BY <1>1, <1>2, <1>3, <1>4, <1>5, <1>6, <1>7, <1>8, <1>9, <1>10, <1>11, <1>12, <1>13,
     <1>14, <1>15, <1>16, <1>17, <1>18, <1>19, <1>20, <1>21, <1>22, <1>23, <1>24
  DEF ReaperNext, Add, Loop, Dtor

\* Every variable of the reaper keeps its type; among others the loop never reaps
\* a child it does not hold (add(), loop(), the destructor).
THEOREM ReaperTypeCorrect == ReaperSafety => []ReaperTypeOK
<1>1. ReaperTyped => ReaperTypeOK
  BY DEF ReaperTyped
<1> QED
  BY <1>1, InitReaperTyped, NextReaperTyped, PTL DEF ReaperSafety

-----------------------------------------------------------------------------
(***************************************************************************)
(* ChildReaper: the std::thread.                                           *)
(***************************************************************************)

\* thread_mu_ is held from the join of the old loop to the store of the new one.
Locked ==
  \A c \in Children :
    adder[c] \in {"joining", "spawning", "storing"} <=> threadMu = c

\* Between the join and the store there is no joinable thread, so the store
\* destroys none.
Joined ==
  \A c \in Children : adder[c] \in {"spawning", "storing"} => ~joinable

\* A loop that has not left run() is in thread_, or on its way there.
LoopIsKnown ==
  loop \notin {"none", "exited"} =>
    joinable \/ \E c \in Children : adder[c] = "storing"

Threads == ReaperTyped /\ Locked /\ Joined /\ LoopIsKnown /\ NeverTerminates

LEMMA InitThreads == ReaperInit => Threads
  BY InitReaperTyped DEF ReaperInit, Threads, Locked, Joined, LoopIsKnown, NeverTerminates

LEMMA NextThreads == Threads /\ [ReaperNext]_reaperVars => Threads'
<1> SUFFICES ASSUME Threads, [ReaperNext]_reaperVars PROVE Threads'
  OBVIOUS
<1>1. ReaperTyped'
  BY NextReaperTyped DEF Threads
<1> DEFINE Rest == Locked /\ Joined /\ LoopIsKnown /\ NeverTerminates
<1>2. Rest'
  <2> USE DEF Threads, ReaperTyped, ReaperTypeOK, Locked, Joined, LoopIsKnown,
              NeverTerminates, loopVars
  <2>1. ASSUME NEW c \in Children, Exit(c) \/ WaiterReaps(c) PROVE Rest'
    BY <2>1 DEF Exit, WaiterReaps
  <2>2. ASSUME NEW c \in Children, AddDetached(c) \/ AddQueued(c) PROVE Rest'
    BY <2>2 DEF AddDetached, AddQueued
  <2>3. ASSUME NEW c \in Children, AddLockThread(c) PROVE Rest'
    BY <2>3 DEF AddLockThread
  <2>4. ASSUME NEW c \in Children, AddJoinOld(c) PROVE Rest'
    BY <2>4 DEF AddJoinOld
  <2>5. ASSUME NEW c \in Children, AddSpawn(c) PROVE Rest'
    BY <2>5 DEF AddSpawn
  <2>6. ASSUME NEW c \in Children, AddStore(c) PROVE Rest'
    BY <2>6 DEF AddStore
  <2>7. ASSUME NEW c \in Children, AddWake(c) PROVE Rest'
    BY <2>7 DEF AddWake
  <2>8. CASE Loop \/ LoopInterrupted \/ PollFails
    BY <2>8 DEF Loop, LoopTake, PollReturns, LoopHandOff, LoopDrain, LoopReap,
                LoopReapInline, LoopReturn, LoopInterrupted, PollFails
  <2>9. CASE DtorFlag \/ Dtor
    BY <2>9 DEF DtorFlag, Dtor, DtorWake, DtorJoin, DtorReap, DtorReturns
  <2>10. CASE UNCHANGED reaperVars
    BY <2>10 DEF reaperVars
  <2> QED
    BY <2>1, <2>2, <2>3, <2>4, <2>5, <2>6, <2>7, <2>8, <2>9, <2>10 DEF ReaperNext, Add
<1> QED
  BY <1>1, <1>2 DEF Threads

LEMMA ThreadsInvariant == ReaperSafety => []Threads
  BY InitThreads, NextThreads, PTL DEF ReaperSafety

\* No add() assigns over a joinable std::thread, which would be std::terminate:
\* thread_mu_ covers the join, the start and the store (add()).
THEOREM AddNeverTerminates == ReaperSafety => []NeverTerminates
<1>1. Threads => NeverTerminates
  BY DEF Threads
<1> QED
  BY <1>1, ThreadsInvariant, PTL

-----------------------------------------------------------------------------
(***************************************************************************)
(* ChildReaper: ownership of the children.                                 *)
(***************************************************************************)

\* OneOwner without its sets of names.
Placed ==
  /\ pending \intersect watched = {}
  /\ pending \intersect waiters = {}
  /\ watched \intersect waiters = {}
  /\ \A c \in Children :
       c \in pending \union watched \union waiters
         <=> adder[c] # "idle" /\ proc[c] # "reaped"

\* Nobody waits for a child before its add().
IdleNotReaped == \A c \in Children : adder[c] = "idle" => proc[c] # "reaped"

\* What a loop holds, it has reaped or handed over when it leaves: the next loop
\* starts with nothing and forgets nothing.
LoopLeavesNothing == loop \in {"none", "exited"} => watched = {}

\* What poll() has reported is still waiting for waitpid().
ReadyAreZombies == \A c \in ready : Zombie(c)

Ownership == Threads /\ Placed /\ IdleNotReaped /\ LoopLeavesNothing /\ ReadyAreZombies

LEMMA InitOwnership == ReaperInit => Ownership
  BY InitThreads
  DEF ReaperInit, Ownership, Placed, IdleNotReaped, LoopLeavesNothing, ReadyAreZombies

\* When a new loop is started no other one runs, and nothing is held.
LEMMA SpawnFindsNothing ==
  ASSUME Ownership, NEW c \in Children, AddSpawn(c)
  PROVE  watched = {} /\ ready = {}
<1>1. ~joinable /\ threadMu = c
  BY DEF Ownership, Threads, Locked, Joined, AddSpawn
<1>2. \A d \in Children : adder[d] # "storing"
  BY <1>1 DEF Ownership, Threads, Locked, AddSpawn
<1>3. loop \in {"none", "exited"}
  BY <1>1, <1>2 DEF Ownership, Threads, LoopIsKnown
<1> QED
  BY <1>3 DEF Ownership, LoopLeavesNothing, Threads, ReaperTyped, ReaperTypeOK

LEMMA NextOwnership == Ownership /\ [ReaperNext]_reaperVars => Ownership'
<1> SUFFICES ASSUME Ownership, [ReaperNext]_reaperVars PROVE Ownership'
  OBVIOUS
<1>1. Threads'
  BY NextThreads DEF Ownership
<1> DEFINE Rest == Placed /\ IdleNotReaped /\ LoopLeavesNothing /\ ReadyAreZombies
<1>2. Rest'
  <2> USE DEF Ownership, Placed, IdleNotReaped, LoopLeavesNothing, ReadyAreZombies,
              Zombie, Threads, ReaperTyped, ReaperTypeOK, ReadyIsCurrent, loopVars
  <2>1. ASSUME NEW c \in Children, Exit(c) PROVE Rest'
    BY <2>1 DEF Exit
  <2>2. ASSUME NEW c \in Children, WaiterReaps(c) PROVE Rest'
    BY <2>2 DEF WaiterReaps
  <2>3. ASSUME NEW c \in Children, AddDetached(c) PROVE Rest'
    BY <2>3 DEF AddDetached
  <2>4. ASSUME NEW c \in Children, AddQueued(c) PROVE Rest'
    BY <2>4 DEF AddQueued
  <2>5. ASSUME NEW c \in Children,
               AddLockThread(c) \/ AddJoinOld(c) \/ AddStore(c) \/ AddWake(c)
        PROVE  Rest'
    BY <2>5 DEF AddLockThread, AddJoinOld, AddStore, AddWake
  <2>6. ASSUME NEW c \in Children, AddSpawn(c) PROVE Rest'
    BY <2>6, SpawnFindsNothing DEF AddSpawn
  <2>7. CASE LoopTake
    BY <2>7 DEF LoopTake
  <2>8. CASE PollReturns \/ LoopDrain \/ LoopReturn \/ LoopInterrupted \/ PollFails
    BY <2>8 DEF PollReturns, LoopDrain, LoopReturn, LoopInterrupted, PollFails
  <2>9. CASE LoopHandOff
    BY <2>9 DEF LoopHandOff
  <2>10. CASE LoopReap
    BY <2>10 DEF LoopReap
  <2>11. ASSUME NEW c \in Children, LoopReapInline(c) PROVE Rest'
    BY <2>11 DEF LoopReapInline
  <2>12. CASE DtorFlag \/ DtorWake \/ DtorJoin \/ DtorReturns
    BY <2>12 DEF DtorFlag, DtorWake, DtorJoin, DtorReturns
  <2>13. ASSUME NEW c \in Children, DtorReap(c) PROVE Rest'
    BY <2>13 DEF DtorReap
  <2>14. CASE UNCHANGED reaperVars
    BY <2>14 DEF reaperVars
  <2> QED
    BY <2>1, <2>2, <2>3, <2>4, <2>5, <2>6, <2>7, <2>8, <2>9, <2>10, <2>11, <2>12, <2>13,
       <2>14 DEF ReaperNext, Add, Loop, Dtor
<1> QED
  BY <1>1, <1>2 DEF Ownership

LEMMA OwnershipInvariant == ReaperSafety => []Ownership
  BY InitOwnership, NextOwnership, PTL DEF ReaperSafety

LEMMA PlacedIsOneOwner == ReaperTyped /\ Placed => OneOwner
<1> SUFFICES ASSUME ReaperTyped, Placed, NEW c \in Children
             PROVE  IF adder[c] = "idle" \/ proc[c] = "reaped"
                    THEN OwnersOf(c) = {}
                    ELSE \E o \in OwnersOf(c) : OwnersOf(c) = {o}
  BY DEF OneOwner
<1>1. CASE adder[c] = "idle" \/ proc[c] = "reaped"
  BY <1>1 DEF Placed, OwnersOf
<1>2. CASE ~(adder[c] = "idle" \/ proc[c] = "reaped")
  <2>1. CASE c \in pending
    <3>1. OwnersOf(c) = {"pending"}
      BY <2>1 DEF Placed, OwnersOf
    <3> QED
      BY <1>2, <3>1
  <2>2. CASE c \in watched
    <3>1. OwnersOf(c) = {"watched"}
      BY <2>2 DEF Placed, OwnersOf
    <3> QED
      BY <1>2, <3>1
  <2>3. CASE c \in waiters
    <3>1. OwnersOf(c) = {"waiter"}
      BY <2>3 DEF Placed, OwnersOf
    <3> QED
      BY <1>2, <3>1
  <2> QED
    BY <1>2, <2>1, <2>2, <2>3 DEF Placed
<1> QED
  BY <1>1, <1>2

\* From add() until it is reaped a child belongs to exactly one of pending_, the
\* loop and a detached waiter, however add(), the loop, a failing poll() and the
\* destructor interleave: waitpid() is called once for each.
THEOREM ChildHasOneOwner == ReaperSafety => []OneOwner
<1>1. Ownership => OneOwner
  BY PlacedIsOneOwner DEF Ownership, Threads
<1> QED
  BY <1>1, OwnershipInvariant, PTL

\* A child is reaped only once it has exited, and once: what poll() reported is
\* still there when reap_signalled() gets to it, so that waitpid() does not keep
\* the loop, and nothing else that reaps takes it away in the meantime.
THEOREM OnlyExitedAreReaped ==
  ReaperSafety =>
    [][\A c \in Children :
         proc'[c] = "reaped" => proc[c] \in {"zombie", "reaped"}]_reaperVars
<1> DEFINE Reaps == \A c \in Children : proc'[c] = "reaped" => proc[c] \in {"zombie", "reaped"}
<1>1. Ownership /\ [ReaperNext]_reaperVars => [Reaps]_reaperVars
  <2> SUFFICES ASSUME Ownership, ReaperNext PROVE Reaps
    OBVIOUS
  <2> USE DEF Ownership, ReadyAreZombies, Threads, ReaperTyped, ReaperTypeOK, Zombie
  <2>1. CASE LoopReap
    BY <2>1 DEF LoopReap
  <2>2. ASSUME NEW c \in Children,
               Exit(c) \/ WaiterReaps(c) \/ LoopReapInline(c) \/ DtorReap(c)
        PROVE  Reaps
    BY <2>2 DEF Exit, WaiterReaps, LoopReapInline, DtorReap
  <2>3. CASE proc' = proc
    BY <2>3
  <2>4. \/ LoopReap
        \/ \E c \in Children :
             Exit(c) \/ WaiterReaps(c) \/ LoopReapInline(c) \/ DtorReap(c)
        \/ proc' = proc
    BY DEF ReaperNext, Add, AddDetached, AddQueued, AddLockThread, AddJoinOld, AddSpawn,
           AddStore, AddWake, Loop, LoopTake, PollReturns, LoopHandOff, LoopDrain,
           LoopReturn, LoopInterrupted, PollFails, DtorFlag, Dtor, DtorWake, DtorJoin,
           DtorReturns
  <2> QED
    BY <2>1, <2>2, <2>3, <2>4
<1> QED
  BY <1>1, OwnershipInvariant, PTL DEF ReaperSafety

-----------------------------------------------------------------------------
(***************************************************************************)
(* UpdateMonitor: the types.                                               *)
(***************************************************************************)

LEMMA InitMonitorTyped == MonitorInit => MonitorTypeOK
<1> SUFFICES ASSUME MonitorInit PROVE MonitorTypeOK
  OBVIOUS
<1>1. 0 \in Counts /\ 0 \in 0..MaxChanges
  BY MonitorAssumption DEF Counts
<1> QED
  BY <1>1 DEF MonitorInit, MonitorTypeOK

LEMMA CountedTyped == MonitorTypeOK => Counted \subseteq Counts
  BY MonitorAssumption DEF MonitorTypeOK, Counts, Counted

LEMMA NextMonitorTyped == MonitorTypeOK /\ [MonitorNext]_monitorVars => MonitorTypeOK'
<1> SUFFICES ASSUME MonitorTypeOK, [MonitorNext]_monitorVars PROVE MonitorTypeOK'
  OBVIOUS
<1> USE MonitorAssumption DEF MonitorTypeOK, installation
<1>1. ASSUME NEW by \in {-1, 0, 1}, InstallationChanges(by) PROVE MonitorTypeOK'
  BY <1>1 DEF InstallationChanges, Counts
<1>2. CASE WatchCounts \/ CallbackCounts
  BY <1>2, CountedTyped DEF WatchCounts, CallbackCounts, Counts
<1>3. CASE WatchStarts \/ WatchStartsThread
  BY <1>3 DEF WatchStarts, WatchStartsThread, Counts
<1>4. CASE CloseQuits \/ CloseJoins \/ CloseFrees
  BY <1>4 DEF CloseQuits, CloseJoins, CloseFrees, Counts
<1>5. CASE LoopRuns \/ LoopDispatches \/ LoopReturns
  BY <1>5 DEF LoopRuns, LoopDispatches, LoopReturns, Counts
<1>6. CASE CallbackCompares
  BY <1>6 DEF CallbackCompares, Counts
<1>7. CASE UNCHANGED monitorVars
  BY <1>7 DEF monitorVars, Counts
<1> QED
  BY <1>1, <1>2, <1>3, <1>4, <1>5, <1>6, <1>7 DEF MonitorNext, Thread

\* Every variable of the monitor keeps its type; among others what the isolate and
\* the thread remember as the last count is a number of apps or -1
\* (flatpak_monitor_create(), on_file_changed()).
THEOREM MonitorTypeCorrect == MonitorSafety => []MonitorTypeOK
  BY InitMonitorTyped, NextMonitorTyped, PTL DEF MonitorSafety
=============================================================================
