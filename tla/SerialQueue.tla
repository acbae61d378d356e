---------------------------- MODULE SerialQueue ----------------------------
(***************************************************************************)
(* SerialQueue<Item> of native/include/serial_queue.h: one worker thread   *)
(* draining a FIFO, any number of threads calling push() and stop().       *)
(*                                                                         *)
(* One action is one critical section of mu_, one notify, one handler      *)
(* call or one step of join.  The condition variable is explicit: a worker *)
(* that found its predicate false is "asleep" and only a notify (or a      *)
(* spurious wake-up) makes it look again, so a lost wake-up would show.    *)
(*                                                                         *)
(* Every member of Items is pushed at most once, by a thread of its own;   *)
(* every member of Stoppers is a thread that calls stop() once (the        *)
(* destructor is one of them).                                             *)
(***************************************************************************)
EXTENDS Naturals, Sequences

CONSTANTS Items, Stoppers, NoItem

ASSUME NoItemAssumption == NoItem \notin Items

VARIABLES
  queue,      \* queue_: accepted items nobody has looked at
  stop,       \* stop_
  worker,     \* where the worker thread is
  current,    \* the item run_ is called with, NoItem if none
  pending,    \* the backlog swapped out of queue_ for the cancel callback
  pusher,     \* pusher[i]: how far push(i) has got
  stopper,    \* stopper[s]: how far the call of stop() by s has got
  joinable,   \* thread_.joinable()
  served      \* history: the callbacks that returned, [item, how], in order

vars == <<queue, stop, worker, current, pending, pusher, stopper, joinable,
          served>>

callers == <<pusher, stopper, joinable>>

WorkerStates  == {"checking", "asleep", "running", "cancelling", "exited"}
PusherStates  == {"idle", "enqueued", "accepted", "refused"}
StopperStates == {"idle", "flagged", "notified", "joining", "returned"}
Answers       == [item : Items, how : {"ran", "cancelled"}]

TypeOK ==
  /\ queue \in Seq(Items)
  /\ stop \in BOOLEAN
  /\ worker \in WorkerStates
  /\ current \in Items \union {NoItem}
  /\ pending \in Seq(Items)
  /\ pusher \in [Items -> PusherStates]
  /\ stopper \in [Stoppers -> StopperStates]
  /\ joinable \in BOOLEAN
  /\ served \in Seq(Answers)

Init ==
  /\ queue = <<>>
  /\ stop = FALSE
  /\ worker = "checking"
  /\ current = NoItem
  /\ pending = <<>>
  /\ pusher = [i \in Items |-> "idle"]
  /\ stopper = [s \in Stoppers |-> "idle"]
  /\ joinable = TRUE
  /\ served = <<>>

-----------------------------------------------------------------------------
(***************************************************************************)
(* push().                                                                 *)
(***************************************************************************)

\* Slip: the notify is forgotten.
NotifyNobody == worker' = worker

\* cv_.notify_one(): the worker is the only thread that ever waits on cv_.
NotifyOne == worker' = IF worker = "asleep" THEN "checking" ELSE worker

\* Slip: the item is moved from before it is stored.
PushMovedFrom(i) ==
  /\ pusher[i] = "idle"
  /\ ~stop
  /\ queue' = Append(queue, NoItem)
  /\ pusher' = [pusher EXCEPT ![i] = "enqueued"]
  /\ UNCHANGED <<stop, worker, current, pending, stopper, joinable, served>>

PushTaken(i) ==
  /\ pusher[i] = "idle"
  /\ ~stop
  /\ queue' = Append(queue, i)
  /\ pusher' = [pusher EXCEPT ![i] = "enqueued"]
  /\ UNCHANGED <<stop, worker, current, pending, stopper, joinable, served>>

PushRefused(i) ==
  /\ pusher[i] = "idle"
  /\ stop
  /\ pusher' = [pusher EXCEPT ![i] = "refused"]
  /\ UNCHANGED <<queue, stop, worker, current, pending, stopper, joinable, served>>

PushNotify(i) ==
  /\ pusher[i] = "enqueued"
  /\ NotifyOne
  /\ pusher' = [pusher EXCEPT ![i] = "accepted"]
  /\ UNCHANGED <<queue, stop, current, pending, stopper, joinable, served>>

-----------------------------------------------------------------------------
(***************************************************************************)
(* stop().                                                                 *)
(***************************************************************************)

\* Slip: a call that finds stop_ already set returns at once.
StopFlagFirstOnly(s) ==
  /\ stopper[s] = "idle"
  /\ stop' = TRUE
  /\ stopper' = [stopper EXCEPT ![s] = IF stop THEN "returned" ELSE "flagged"]
  /\ UNCHANGED <<queue, worker, current, pending, pusher, joinable, served>>

StopFlag(s) ==
  /\ stopper[s] = "idle"
  /\ stop' = TRUE
  /\ stopper' = [stopper EXCEPT ![s] = "flagged"]
  /\ UNCHANGED <<queue, worker, current, pending, pusher, joinable, served>>

StopNotify(s) ==
  /\ stopper[s] = "flagged"
  /\ NotifyOne
  /\ stopper' = [stopper EXCEPT ![s] = "notified"]
  /\ UNCHANGED <<queue, stop, current, pending, pusher, joinable, served>>

\* join_mu_ is held from here until stop() returns.
StopLockJoin(s) ==
  /\ stopper[s] = "notified"
  /\ \A t \in Stoppers : stopper[t] # "joining"
  /\ stopper' = [stopper EXCEPT ![s] = IF joinable THEN "joining" ELSE "returned"]
  /\ UNCHANGED <<queue, stop, worker, current, pending, pusher, joinable, served>>

\* thread_.join() returns when the worker's loop has.
StopJoin(s) ==
  /\ stopper[s] = "joining"
  /\ worker = "exited"
  /\ joinable' = FALSE
  /\ stopper' = [stopper EXCEPT ![s] = "returned"]
  /\ UNCHANGED <<queue, stop, worker, current, pending, pusher, served>>

-----------------------------------------------------------------------------
(***************************************************************************)
(* loop(), on the worker thread.                                           *)
(***************************************************************************)

\* The predicate of cv_.wait is false: mu_ is released and the thread sleeps.
LoopSleep ==
  /\ worker = "checking"
  /\ ~stop
  /\ queue = <<>>
  /\ worker' = "asleep"
  /\ UNCHANGED <<queue, stop, current, pending, callers, served>>

LoopSpuriousWake ==
  /\ worker = "asleep"
  /\ worker' = "checking"
  /\ UNCHANGED <<queue, stop, current, pending, callers, served>>

\* Slip: a stack instead of a queue.
LoopTakeNewest ==
  /\ worker = "checking"
  /\ ~stop
  /\ queue # <<>>
  /\ current' = queue[Len(queue)]
  /\ queue' = SubSeq(queue, 1, Len(queue) - 1)
  /\ worker' = "running"
  /\ UNCHANGED <<stop, pending, callers, served>>

LoopTake ==
  /\ worker = "checking"
  /\ ~stop
  /\ queue # <<>>
  /\ current' = Head(queue)
  /\ queue' = Tail(queue)
  /\ worker' = "running"
  /\ UNCHANGED <<stop, pending, callers, served>>

\* run_(item) returns; its reply has been posted.
LoopRan ==
  /\ worker = "running"
  /\ served' = Append(served, [item |-> current, how |-> "ran"])
  /\ current' = NoItem
  /\ worker' = "checking"
  /\ UNCHANGED <<queue, stop, pending, callers>>

LoopStop ==
  /\ worker = "checking"
  /\ stop
  /\ pending' = queue
  /\ queue' = <<>>
  /\ worker' = "cancelling"
  /\ UNCHANGED <<stop, current, callers, served>>

\* cancel_(pending.front()) outside the lock.
LoopCancel ==
  /\ worker = "cancelling"
  /\ pending # <<>>
  /\ served' = Append(served, [item |-> Head(pending), how |-> "cancelled"])
  /\ pending' = Tail(pending)
  /\ UNCHANGED <<queue, stop, worker, current, callers>>

LoopExit ==
  /\ worker = "cancelling"
  /\ pending = <<>>
  /\ worker' = "exited"
  /\ UNCHANGED <<queue, stop, current, pending, callers, served>>

Push(i) == PushTaken(i) \/ PushRefused(i) \/ PushNotify(i)

Stop(s) == StopFlag(s) \/ StopNotify(s) \/ StopLockJoin(s) \/ StopJoin(s)

Loop ==
  \/ LoopSleep \/ LoopTake \/ LoopRan
  \/ LoopStop \/ LoopCancel \/ LoopExit

Next ==
  \/ \E i \in Items : Push(i)
  \/ \E s \in Stoppers : Stop(s)
  \/ Loop
  \/ LoopSpuriousWake

(***************************************************************************)
(* Fairness: the operating system runs the worker and every thread that is *)
(* inside push() or stop(); run_ and cancel_ return.  Nobody is obliged to *)
(* call push() or stop() in the first place, and no spurious wake-up is    *)
(* promised.  std::mutex is not fair, but a thread that gets past the      *)
(* notify has join_mu_ only to wait for, and the holder keeps it once.     *)
(***************************************************************************)
Fairness ==
  /\ WF_vars(Loop)
  /\ \A i \in Items : WF_vars(PushNotify(i))
  /\ \A s \in Stoppers :
       WF_vars(StopNotify(s) \/ StopLockJoin(s) \/ StopJoin(s))

Safety == Init /\ [][Next]_vars

Spec == Safety /\ Fairness

-----------------------------------------------------------------------------
(***************************************************************************)
(* What must hold.                                                         *)
(***************************************************************************)

ItemsOf(answers) == [k \in DOMAIN answers |-> answers[k].item]

InHand == IF current = NoItem THEN <<>> ELSE <<current>>

\* Every item ever taken, oldest first: answered, in the worker's hands, in
\* the swapped-out backlog, in queue_.
Log == ItemsOf(served) \o InHand \o pending \o queue

Taken == {i \in Items : pusher[i] \in {"enqueued", "accepted"}}

\* An item push() took is in exactly one place until it has been answered, and
\* is answered once; an item push() refused is never answered by the queue
\* (push() and loop(): the item moves from queue_ to run_ or to cancel_).
Conservation ==
  /\ \A j, k \in DOMAIN Log : Log[j] = Log[k] => j = k
  /\ {Log[k] : k \in DOMAIN Log} = Taken

\* When any call of stop() returns, the worker is gone and everything ever
\* taken has been answered, so the owner may free what the callbacks use
\* (stop() joins even when another call already set stop_).
DrainedOnReturn ==
  \A s \in Stoppers :
    stopper[s] = "returned" => worker = "exited" /\ ItemsOf(served) = Log

\* The worker never sleeps on work: while it is asleep with an item queued or
\* the stop flag set, the notify that will wake it is still to come (push() and
\* stop() notify after they release mu_).
NoLostWakeup ==
  worker = "asleep" /\ (stop \/ queue # <<>>) =>
    \/ \E i \in Items : pusher[i] = "enqueued"
    \/ \E s \in Stoppers : stopper[s] = "flagged"

\* thread_.join() is never entered by two threads, nor on a thread that has
\* been joined: join_mu_ and the test of joinable().
JoinOnce ==
  \A s \in Stoppers : stopper[s] = "joining" =>
    /\ joinable
    /\ \A t \in Stoppers : stopper[t] = "joining" => t = s

\* Once stop_ is set no further item is started: stopping waits for one handler
\* at most, not for the queue (stop(): "an item already running finishes").
NoStartAfterStop == [][stop => current' \in {current, NoItem}]_vars

\* Every call of stop() that has set the flag returns.
StopReturns ==
  \A s \in Stoppers : stopper[s] = "flagged" ~> stopper[s] = "returned"

Service == INSTANCE FifoService WITH
  open    <- ~stop,
  log     <- Log,
  refused <- {i \in Items : pusher[i] = "refused"}

\* The queue keeps the promise of FifoService: taken requests answered once, in
\* the order taken, cancelled only after stop() and never run after the first
\* cancellation, and all of them answered in the end.
ServiceSpec == Service!Spec

\* The safety part of the same promise.
ServiceSafety == Service!Safety
=============================================================================
