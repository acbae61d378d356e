---------------------------- MODULE FifoService ----------------------------
(***************************************************************************)
(* What a serial background queue of the bridge promises its callers,      *)
(* without threads, locks or wake-ups.  A request is taken (it enters log) *)
(* or refused; the taken ones are answered in the order they were taken,   *)
(* each exactly once; a request is answered by running it, until the       *)
(* service closes and the rest is answered by cancelling it.               *)
(*                                                                         *)
(* The promise is the one native/include/serial_queue.h states for push()  *)
(* and stop() and native/test/test_serial_queue.cpp tests.                 *)
(***************************************************************************)
EXTENDS Naturals, Sequences

CONSTANT Items          \* the requests ever submitted

VARIABLES
  open,                 \* does the service still take requests?
  log,                  \* the taken requests, oldest first
  served,               \* the answers given: [item, how], in the order given
  refused               \* the requests sent back to their caller

vars == <<open, log, served, refused>>

Ways == {"ran", "cancelled"}

Answers == [item : Items, how : Ways]

\* Has some taken request been cancelled already?
Cancelling == \E k \in DOMAIN served : served[k].how = "cancelled"

Init ==
  /\ open = TRUE
  /\ log = <<>>
  /\ served = <<>>
  /\ refused = {}

\* A request that was neither taken nor refused yet.
Fresh(i) == i \notin refused /\ \A k \in DOMAIN log : log[k] # i

Take(i) ==
  /\ open
  /\ Fresh(i)
  /\ log' = Append(log, i)
  /\ UNCHANGED <<open, served, refused>>

Refuse(i) ==
  /\ ~open
  /\ Fresh(i)
  /\ refused' = refused \union {i}
  /\ UNCHANGED <<open, log, served>>

Close ==
  /\ open' = FALSE
  /\ UNCHANGED <<log, served, refused>>

\* The oldest unanswered request is answered: run while nothing has been
\* cancelled, cancelled only once the service is closed.
Answer(how) ==
  /\ Len(served) < Len(log)
  /\ how = "ran" => ~Cancelling
  /\ how = "cancelled" => ~open
  /\ served' = Append(served, [item |-> log[Len(served) + 1], how |-> how])
  /\ UNCHANGED <<open, log, refused>>

Next ==
  \/ \E i \in Items : Take(i) \/ Refuse(i)
  \/ Close
  \/ \E how \in Ways : Answer(how)

Fairness == WF_vars(\E how \in Ways : Answer(how))

Safety == Init /\ [][Next]_vars

Spec == Safety /\ Fairness
=============================================================================
