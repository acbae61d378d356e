---------------------------- MODULE ChildReaper ----------------------------
(***************************************************************************)
(* ChildReaper of native/src/child_reaper.cpp: one thread that parks in    *)
(* poll() over the pidfds of the launched children and reaps each when it  *)
(* exits.  add() is called once per child, each call on a thread of its    *)
(* own; it starts the loop when none runs.                                 *)
(*                                                                         *)
(* mu_ makes Add, LoopTake and the poll-failure branch atomic.  thread_mu_ *)
(* is explicit, because its critical section (join the old loop, start and *)
(* store the new one) is not: a std::thread runs before it is stored.      *)
(***************************************************************************)
EXTENDS Naturals

CONSTANTS
  Children,      \* the launched processes
  Unlocked,      \* thread_mu_ is free
  PipeOK         \* did pipe2() succeed in the constructor?

ASSUME ReaperAssumption ==
  /\ Unlocked \notin Children
  /\ PipeOK \in BOOLEAN

VARIABLES
  proc,       \* proc[c]: "alive", "zombie" or "reaped"
  adder,      \* adder[c]: how far add(c) has got
  threadMu,   \* whose add() holds thread_mu_
  joinable,   \* thread_.joinable()
  pending,    \* pending_
  running,    \* running_
  stopping,   \* stopping_
  pipe,       \* the wake pipe holds a byte
  loop,       \* where the loop thread is
  watched,    \* the children the loop holds
  ready,      \* revents of the last poll(): the children that signalled
  woken,      \* revents of the last poll(): the wake pipe
  waiters,    \* children with a detached thread blocked in waitpid()
  dtor,       \* how far the destructor has got
  terminated, \* std::terminate: a joinable std::thread was assigned over
  pollFailed  \* history: poll() has failed with something else than EINTR

loopVars == <<loop, watched, ready, woken>>
reaperVars == <<proc, adder, threadMu, joinable, pending, running, stopping, pipe,
                loop, watched, ready, woken, waiters, dtor, terminated, pollFailed>>

ReaperTypeOK ==
  /\ proc \in [Children -> {"alive", "zombie", "reaped"}]
  /\ adder \in [Children -> {"idle", "starting", "joining", "spawning", "storing",
                             "waking", "done"}]
  /\ threadMu \in Children \union {Unlocked}
  /\ joinable \in BOOLEAN
  /\ pending \subseteq Children
  /\ running \in BOOLEAN
  /\ stopping \in BOOLEAN
  /\ pipe \in BOOLEAN
  /\ loop \in {"none", "taking", "polling", "draining", "reaping", "failed", "leaving",
               "exited"}
  /\ watched \subseteq Children
  /\ ready \subseteq watched
  /\ woken \in BOOLEAN
  /\ waiters \subseteq Children
  /\ dtor \in {"alive", "flagged", "woken", "leftover", "gone"}
  /\ terminated \in BOOLEAN
  /\ pollFailed \in BOOLEAN

ReaperInit ==
  /\ proc = [c \in Children |-> "alive"]
  /\ adder = [c \in Children |-> "idle"]
  /\ threadMu = Unlocked
  /\ joinable = FALSE
  /\ pending = {}
  /\ running = FALSE
  /\ stopping = FALSE
  /\ pipe = FALSE
  /\ loop = "none"
  /\ watched = {}
  /\ ready = {}
  /\ woken = FALSE
  /\ waiters = {}
  /\ dtor = "alive"
  /\ terminated = FALSE
  /\ pollFailed = FALSE

Zombie(c) == proc[c] = "zombie"

\* The kernel: a child exits.
Exit(c) ==
  /\ proc[c] = "alive"
  /\ proc' = [proc EXCEPT ![c] = "zombie"]
  /\ UNCHANGED <<adder, threadMu, joinable, pending, running, stopping, pipe,
                 loopVars, waiters, dtor, terminated, pollFailed>>

\* wait_for(c) returns on a detached thread.
WaiterReaps(c) ==
  /\ c \in waiters
  /\ Zombie(c)
  /\ proc' = [proc EXCEPT ![c] = "reaped"]
  /\ waiters' = waiters \ {c}
  /\ UNCHANGED <<adder, threadMu, joinable, pending, running, stopping, pipe,
                 loopVars, dtor, terminated, pollFailed>>

-----------------------------------------------------------------------------
(***************************************************************************)
(* add().                                                                  *)
(***************************************************************************)

\* pidfd_open fails, or the reaper is stopping: a dedicated blocking wait.
AddDetached(c) ==
  /\ adder[c] = "idle"
  /\ dtor # "gone"
  /\ waiters' = waiters \union {c}
  /\ adder' = [adder EXCEPT ![c] = "done"]
  /\ UNCHANGED <<proc, threadMu, joinable, pending, running, stopping, pipe,
                 loopVars, dtor, terminated, pollFailed>>

\* Slip: the loop is restarted by whoever finds the queue empty.
AddQueuedIfFirst(c) ==
  /\ adder[c] = "idle"
  /\ dtor # "gone"
  /\ ~stopping
  /\ pending' = pending \union {c}
  /\ adder' = [adder EXCEPT ![c] = IF pending = {} THEN "starting" ELSE "waking"]
  /\ running' = TRUE
  /\ UNCHANGED <<proc, threadMu, joinable, stopping, pipe, loopVars, waiters, dtor,
                 terminated, pollFailed>>

AddQueued(c) ==
  /\ adder[c] = "idle"
  /\ dtor # "gone"
  /\ ~stopping
  /\ pending' = pending \union {c}
  /\ adder' = [adder EXCEPT ![c] = IF running THEN "waking" ELSE "starting"]
  /\ running' = TRUE
  /\ UNCHANGED <<proc, threadMu, joinable, stopping, pipe, loopVars, waiters, dtor,
                 terminated, pollFailed>>

\* Slip: the thread is swapped without thread_mu_.
AddLockNothing(c) ==
  /\ adder[c] = "starting"
  /\ threadMu' = c
  /\ adder' = [adder EXCEPT ![c] = "joining"]
  /\ UNCHANGED <<proc, joinable, pending, running, stopping, pipe, loopVars, waiters,
                 dtor, terminated, pollFailed>>

AddLockThread(c) ==
  /\ adder[c] = "starting"
  /\ threadMu = Unlocked
  /\ threadMu' = c
  /\ adder' = [adder EXCEPT ![c] = "joining"]
  /\ UNCHANGED <<proc, joinable, pending, running, stopping, pipe, loopVars, waiters,
                 dtor, terminated, pollFailed>>

AddJoinOld(c) ==
  /\ adder[c] = "joining"
  /\ joinable => loop = "exited"
  /\ joinable' = FALSE
  /\ adder' = [adder EXCEPT ![c] = "spawning"]
  /\ UNCHANGED <<proc, threadMu, pending, running, stopping, pipe, loopVars, waiters,
                 dtor, terminated, pollFailed>>

\* std::thread(&loop, this) is running, but not yet in thread_.
AddSpawn(c) ==
  /\ adder[c] = "spawning"
  /\ loop' = "taking"
  /\ watched' = {}
  /\ ready' = {}
  /\ adder' = [adder EXCEPT ![c] = "storing"]
  /\ UNCHANGED <<proc, threadMu, joinable, pending, running, stopping, pipe, woken,
                 waiters, dtor, terminated, pollFailed>>

\* The move-assignment to thread_, and the release of thread_mu_.
AddStore(c) ==
  /\ adder[c] = "storing"
  /\ terminated' = (terminated \/ joinable)
  /\ joinable' = TRUE
  /\ threadMu' = Unlocked
  /\ adder' = [adder EXCEPT ![c] = "waking"]
  /\ UNCHANGED <<proc, pending, running, stopping, pipe, loopVars, waiters, dtor,
                 pollFailed>>

AddWake(c) ==
  /\ adder[c] = "waking"
  /\ pipe' = PipeOK
  /\ adder' = [adder EXCEPT ![c] = "done"]
  /\ UNCHANGED <<proc, threadMu, joinable, pending, running, stopping, loopVars,
                 waiters, dtor, terminated, pollFailed>>

-----------------------------------------------------------------------------
(***************************************************************************)
(* loop().                                                                 *)
(***************************************************************************)

\* Slip: pending_ is copied and not cleared.
LoopTakeCopy ==
  /\ loop = "taking"
  /\ watched' = watched \union pending
  /\ IF stopping \/ watched' = {}
     THEN /\ running' = FALSE
          /\ loop' = "leaving"
     ELSE /\ loop' = "polling"
          /\ UNCHANGED running
  /\ UNCHANGED <<proc, adder, threadMu, joinable, pending, stopping, pipe, ready,
                 woken, waiters, dtor, terminated, pollFailed>>

\* take_pending(): false clears running_ in the same critical section.
LoopTake ==
  /\ loop = "taking"
  /\ watched' = watched \union pending
  /\ pending' = {}
  /\ IF stopping \/ watched' = {}
     THEN /\ running' = FALSE
          /\ loop' = "leaving"
     ELSE /\ loop' = "polling"
          /\ UNCHANGED running
  /\ UNCHANGED <<proc, adder, threadMu, joinable, stopping, pipe, ready, woken,
                 waiters, dtor, terminated, pollFailed>>

PollReturns ==
  /\ loop = "polling"
  /\ ready' = {c \in watched : Zombie(c)}
  /\ woken' = pipe
  /\ ready' # {} \/ woken'
  /\ loop' = "draining"
  /\ UNCHANGED <<proc, adder, threadMu, joinable, pending, running, stopping, pipe,
                 watched, waiters, dtor, terminated, pollFailed>>

\* EINTR: a signal arrives while nothing is readable.
LoopInterrupted ==
  /\ loop = "polling"
  /\ ~pipe /\ \A c \in watched : ~Zombie(c)
  /\ loop' = "taking"
  /\ UNCHANGED <<proc, adder, threadMu, joinable, pending, running, stopping, pipe,
                 watched, ready, woken, waiters, dtor, terminated, pollFailed>>

\* poll() fails for good: running_ is cleared and what the loop holds is handed
\* to one detached thread.
PollFails ==
  /\ loop = "polling"
  /\ running' = FALSE
  /\ loop' = "failed"
  /\ pollFailed' = TRUE
  /\ UNCHANGED <<proc, adder, threadMu, joinable, pending, stopping, pipe, watched,
                 ready, woken, waiters, dtor, terminated>>

\* Slip: what the failed loop holds is reaped inline.
LoopHandOffInline ==
  /\ loop = "failed"
  /\ loop' = "leaving"
  /\ UNCHANGED <<proc, adder, threadMu, joinable, pending, running, stopping, pipe,
                 watched, ready, woken, waiters, dtor, terminated, pollFailed>>

LoopHandOff ==
  /\ loop = "failed"
  /\ waiters' = waiters \union watched
  /\ watched' = {}
  /\ ready' = {}
  /\ loop' = "exited"
  /\ UNCHANGED <<proc, adder, threadMu, joinable, pending, running, stopping, pipe,
                 woken, dtor, terminated, pollFailed>>

LoopDrain ==
  /\ loop = "draining"
  /\ pipe' = (pipe /\ ~woken)
  /\ loop' = "reaping"
  /\ UNCHANGED <<proc, adder, threadMu, joinable, pending, running, stopping, watched,
                 ready, woken, waiters, dtor, terminated, pollFailed>>

\* Slip: revents is read at the wrong offset, and whatever was polled is erased.
LoopReapAll ==
  /\ loop = "reaping"
  /\ proc' = [c \in Children |-> IF c \in ready THEN "reaped" ELSE proc[c]]
  /\ watched' = {}
  /\ loop' = "taking"
  /\ UNCHANGED <<adder, threadMu, joinable, pending, running, stopping, pipe, ready,
                 woken, waiters, dtor, terminated, pollFailed>>

\* reap_signalled().
LoopReap ==
  /\ loop = "reaping"
  /\ proc' = [c \in Children |-> IF c \in ready THEN "reaped" ELSE proc[c]]
  /\ watched' = watched \ ready
  /\ ready' = {}
  /\ loop' = "taking"
  /\ UNCHANGED <<adder, threadMu, joinable, pending, running, stopping, pipe, woken,
                 waiters, dtor, terminated, pollFailed>>

\* What is still held belongs to a reaper being destroyed: reaped inline.
LoopReapInline(c) ==
  /\ loop = "leaving"
  /\ c \in watched
  /\ Zombie(c)
  /\ proc' = [proc EXCEPT ![c] = "reaped"]
  /\ watched' = watched \ {c}
  /\ UNCHANGED <<adder, threadMu, joinable, pending, running, stopping, pipe, loop,
                 ready, woken, waiters, dtor, terminated, pollFailed>>

LoopReturn ==
  /\ loop = "leaving"
  /\ watched = {}
  /\ loop' = "exited"
  /\ UNCHANGED <<proc, adder, threadMu, joinable, pending, running, stopping, pipe,
                 watched, ready, woken, waiters, dtor, terminated, pollFailed>>

-----------------------------------------------------------------------------
(***************************************************************************)
(* The destructor, of a scoped reaper no add() is inside of.               *)
(***************************************************************************)

InFlight(c) == adder[c] \notin {"idle", "done"}

DtorFlag ==
  /\ dtor = "alive"
  /\ \A c \in Children : ~InFlight(c)
  /\ stopping' = TRUE
  /\ dtor' = "flagged"
  /\ UNCHANGED <<proc, adder, threadMu, joinable, pending, running, pipe, loopVars,
                 waiters, terminated, pollFailed>>

DtorWake ==
  /\ dtor = "flagged"
  /\ pipe' = PipeOK
  /\ dtor' = "woken"
  /\ UNCHANGED <<proc, adder, threadMu, joinable, pending, running, stopping,
                 loopVars, waiters, terminated, pollFailed>>

DtorJoin ==
  /\ dtor = "woken"
  /\ threadMu = Unlocked
  /\ joinable => loop = "exited"
  /\ joinable' = FALSE
  /\ dtor' = "leftover"
  /\ UNCHANGED <<proc, adder, threadMu, pending, running, stopping, pipe, loopVars,
                 waiters, terminated, pollFailed>>

DtorReap(c) ==
  /\ dtor = "leftover"
  /\ c \in pending
  /\ Zombie(c)
  /\ proc' = [proc EXCEPT ![c] = "reaped"]
  /\ pending' = pending \ {c}
  /\ UNCHANGED <<adder, threadMu, joinable, running, stopping, pipe, loopVars, waiters,
                 dtor, terminated, pollFailed>>

DtorReturns ==
  /\ dtor = "leftover"
  /\ pending = {}
  /\ dtor' = "gone"
  /\ UNCHANGED <<proc, adder, threadMu, joinable, pending, running, stopping, pipe,
                 loopVars, waiters, terminated, pollFailed>>

Add(c) ==
  \/ AddDetached(c) \/ AddQueued(c)
  \/ AddLockThread(c) \/ AddJoinOld(c) \/ AddSpawn(c) \/ AddStore(c) \/ AddWake(c)

Loop ==
  \/ LoopTake \/ PollReturns \/ LoopHandOff \/ LoopDrain \/ LoopReap
  \/ \E c \in Children : LoopReapInline(c)
  \/ LoopReturn

Dtor ==
  \/ DtorWake \/ DtorJoin \/ (\E c \in Children : DtorReap(c)) \/ DtorReturns

ReaperNext ==
  \/ \E c \in Children : Exit(c) \/ WaiterReaps(c) \/ Add(c)
  \/ Loop \/ LoopInterrupted \/ PollFails
  \/ DtorFlag \/ Dtor

(***************************************************************************)
(* Fairness: threads that can run do.  A child need never exit, poll()     *)
(* need never be interrupted or fail, nobody need call add() or destroy.   *)
(***************************************************************************)
ReaperFairness ==
  /\ WF_reaperVars(Loop)
  /\ WF_reaperVars(Dtor)
  /\ \A c \in Children :
       /\ WF_reaperVars(WaiterReaps(c))
       /\ WF_reaperVars(InFlight(c) /\ Add(c))

ReaperSafety == ReaperInit /\ [][ReaperNext]_reaperVars

ReaperSpec == ReaperSafety /\ ReaperFairness

-----------------------------------------------------------------------------
(***************************************************************************)
(* What must hold.                                                         *)
(***************************************************************************)

\* No add() ever assigns over a joinable std::thread (the race child_reaper.h
\* describes at thread_mu_), however fast a new loop drains and leaves.
NeverTerminates == ~terminated

OwnersOf(c) == {o \in {"pending", "watched", "waiter"} :
                  \/ o = "pending" /\ c \in pending
                  \/ o = "watched" /\ c \in watched
                  \/ o = "waiter"  /\ c \in waiters}

\* From add() until it is reaped a child belongs to exactly one of pending_, the
\* loop and a detached waiter, and to nobody before or after: waitpid() is never
\* called twice for a pid, which the kernel may have handed out again.
OneOwner ==
  \A c \in Children :
    IF adder[c] = "idle" \/ proc[c] = "reaped"
    THEN OwnersOf(c) = {}
    ELSE \E o \in OwnersOf(c) : OwnersOf(c) = {o}

\* Every added child that exits is reaped, also one the loop held when poll()
\* failed (the detached waiter); not one that was queued just then, as long as
\* no other add() follows.
ExitedIsReaped ==
  \A c \in Children :
    adder[c] # "idle" /\ Zombie(c) ~> proc[c] = "reaped" \/ (pollFailed /\ c \in pending)

\* add() returns although no child ever exits: joining the outgoing loop never
\* waits for a launched application.
AddReturns == \A c \in Children : adder[c] = "starting" ~> adder[c] = "done"
=============================================================================
