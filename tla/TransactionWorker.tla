------------------------- MODULE TransactionWorker -------------------------
(***************************************************************************)
(* Transactions from the Dart call to the Dart future:                     *)
(* TransactionBridge of lib/src/transaction.dart on the isolate's thread,  *)
(* TransactionWorker of native/src/transaction_bridge.cpp on its own, and  *)
(* one message port per transaction between them.                          *)
(*                                                                         *)
(* The isolate is one thread: while it is inside workerDestroy (joining)   *)
(* it delivers nothing and starts nothing.  flatpak_transaction_run is     *)
(* external: it works off the operations it was given one after the other, *)
(* telling its signal handlers of each, and returns success when it has    *)
(* done them all, or an error at any time, whether or not its cancellable  *)
(* was cancelled.                                                          *)
(***************************************************************************)
EXTENDS Wire

CONSTANTS
  Txs,              \* the transactions ever submitted
  NoTx,             \* the null of current_cancel_ and of the worker's item
  Operations,       \* the operations of each, as the caller gave them
  Cancellers,       \* bound: the transactions whose cancel() is called
  MaxProgress,      \* bound: changes of progress, of all operations together
  AddMayFail        \* may flatpak_transaction_add_* fail?

OpTypes == {"INSTALL", "UPDATE", "INSTALL_BUNDLE", "UNINSTALL"}

ASSUME WorkerAssumption ==
  /\ NoTx \notin Txs
  /\ DOMAIN Operations = Txs
  /\ \A t \in Txs : Operations[t] \in Seq([type : OpTypes, ref : STRING])
  /\ MaxProgress \in Nat
  /\ AddMayFail \in BOOLEAN

VARIABLES
  dart,           \* what the isolate's thread is doing
  result,         \* result[t]: the Completer of the Dart future
  portOpen,       \* portOpen[t]: the ReceivePort of t is open
  mailbox,        \* mailbox[t]: frames posted to that port, not yet delivered
  queue,          \* queue_
  stop,           \* stop_
  worker,         \* where the worker thread is
  item,           \* the transaction the worker took
  currentCancel,  \* whose cancellable current_cancel_ points at
  cancelled,      \* transactions whose cancellable was cancelled
  freed,          \* transactions whose tx and cancel were unreferenced
  ops,            \* ops[t]: the places of the operations libflatpak has accepted
  seen,           \* seen[t]: the events of the progress stream
  told,           \* history: what libflatpak has told of the operations
  outcome,        \* history: outcome[t] of flatpak_transaction_run
  badAdd,         \* history: transactions an operation of which was refused
  asked           \* history: transactions whose own cancel() was called

dartVars   == <<dart, result, portOpen, seen, ops>>
history    == <<badAdd, asked>>
runVars    == <<item, currentCancel, freed, told, outcome>>
vars == <<dartVars, mailbox, queue, stop, worker, runVars, cancelled, history>>

TypeOK ==
  /\ dart \in {"free", "enqueued", "stopping", "joining", "closed", "crashed"}
  /\ result \in [Txs -> {"none", "pending", "ok", "error"}]
  /\ portOpen \in [Txs -> BOOLEAN]
  /\ \A t \in Txs : \A i \in DOMAIN mailbox[t] :
       mailbox[t][i].tag \in {"progress", "done", "error"}
  /\ queue \in Seq(Txs)
  /\ stop \in BOOLEAN
  /\ worker \in {"checking", "asleep", "running", "answered", "cleared", "exited"}
  /\ item \in Txs \union {NoTx}
  /\ currentCancel \in Txs \union {NoTx}
  /\ cancelled \subseteq Txs
  /\ freed \subseteq Txs
  /\ \A t \in Txs :
       /\ ops[t] \subseteq DOMAIN Operations[t]
       /\ Len(seen[t]) <= Len(told[t])
       /\ Len(told[t]) <= 2 * Cardinality(ops[t]) + MaxProgress
  /\ outcome \in [Txs -> {"none", "ok", "error"}]
  /\ badAdd \subseteq Txs
  /\ asked \subseteq Txs

Init ==
  /\ dart = "free"
  /\ result = [t \in Txs |-> "none"]
  /\ portOpen = [t \in Txs |-> FALSE]
  /\ mailbox = [t \in Txs |-> <<>>]
  /\ queue = <<>>
  /\ stop = FALSE
  /\ worker = "checking"
  /\ item = NoTx
  /\ currentCancel = NoTx
  /\ cancelled = {}
  /\ freed = {}
  /\ ops = [t \in Txs |-> {}]
  /\ seen = [t \in Txs |-> <<>>]
  /\ told = [t \in Txs |-> <<>>]
  /\ outcome = [t \in Txs |-> "none"]
  /\ badAdd = {}
  /\ asked = {}

\* Dart_PostCObject: a frame to a closed port is dropped.
Post(t, f) ==
  mailbox' = IF portOpen[t] THEN [mailbox EXCEPT ![t] = Append(@, f)] ELSE mailbox

NotifyOne == worker' = IF worker = "asleep" THEN "checking" ELSE worker

-----------------------------------------------------------------------------
(***************************************************************************)
(* The isolate.                                                            *)
(***************************************************************************)

Done == [tag |-> "done"]
Error == [tag |-> "error"]

\* flatpak_tx_add_*: an operation libflatpak refuses posts an error frame at once.
AddOps(t, refused) ==
  /\ mailbox' = [mailbox EXCEPT ![t] = [i \in 1..Cardinality(refused) |-> Error]]
  /\ badAdd' = IF refused # {} THEN badAdd \union {t} ELSE badAdd
  /\ ops' = [ops EXCEPT ![t] = DOMAIN Operations[t] \ refused]

\* Slip: h->tx is nulled before it is copied into the PendingTx.
SubmitNulled(t) == queue' = Append(queue, NoTx)

\* flatpak_tx_submit: the handle's tx and cancellable pass to the queue.
TxSubmit(t) == queue' = Append(queue, t)

\* _submit(): txCreate, addOps, listen and txSubmit in one turn of the event
\* loop.  The transaction is submitted even if an operation was refused.
Submit(t, refused) ==
  /\ dart = "free"
  /\ result[t] = "none"
  /\ refused # {} => AddMayFail
  /\ result' = [result EXCEPT ![t] = "pending"]
  /\ portOpen' = [portOpen EXCEPT ![t] = TRUE]
  /\ AddOps(t, refused)
  /\ TxSubmit(t)
  /\ dart' = "enqueued"
  /\ UNCHANGED <<seen, stop, worker, runVars, cancelled, asked>>

\* flatpak_tx_create: libflatpak makes no transaction and an error is posted, but
\* the operations then dereference the null that is returned; or the installation
\* could not be opened, and there is no worker to dereference.  The process ends.
CreateFails(t) ==
  /\ dart = "free"
  /\ result[t] = "none"
  /\ AddMayFail
  /\ dart' = "crashed"
  /\ UNCHANGED <<result, portOpen, seen, ops, mailbox, queue, stop, worker, runVars, cancelled,
                 history>>

\* cv_.notify_one() at the end of enqueue().
SubmitNotify ==
  /\ dart = "enqueued"
  /\ NotifyOne
  /\ dart' = "free"
  /\ UNCHANGED <<result, portOpen, seen, ops, mailbox, queue, stop, runVars, cancelled, history>>

\* The port's listener gets the next frame.
Deliver(t) ==
  /\ dart = "free" \/ dart = "closed"
  /\ portOpen[t]
  /\ mailbox[t] # <<>>
  /\ LET f == Head(mailbox[t])
     IN  IF f.tag = "progress"
         THEN /\ mailbox' = [mailbox EXCEPT ![t] = Tail(@)]
              /\ seen' = [seen EXCEPT ![t] =
                   Append(@, BinaryRead(DecodedTransactionProgress, f.payload))]
              /\ UNCHANGED <<result, portOpen>>
         ELSE /\ result' = [result EXCEPT ![t] =
                              IF @ # "pending" THEN @
                              ELSE IF f = Done THEN "ok" ELSE "error"]
              /\ portOpen' = [portOpen EXCEPT ![t] = FALSE]
              /\ mailbox' = [mailbox EXCEPT ![t] = <<>>]
              /\ UNCHANGED seen
  /\ UNCHANGED <<dart, ops, queue, stop, worker, runVars, cancelled, history>>

\* FlatpakTransaction.cancel() of any transaction: workerCancelCurrent.
Cancel(t) ==
  /\ dart = "free"
  /\ t \in Cancellers
  /\ result[t] # "none"
  /\ cancelled' = IF currentCancel = NoTx THEN cancelled
                                          ELSE cancelled \union {currentCancel}
  /\ asked' = asked \union {t}
  /\ UNCHANGED <<dartVars, mailbox, queue, stop, worker, runVars, badAdd>>

\* close(): the destructor of the worker, on the isolate's thread.
CloseFlag ==
  /\ dart = "free"
  /\ stop' = TRUE
  /\ dart' = "stopping"
  /\ UNCHANGED <<result, portOpen, seen, ops, mailbox, queue, worker, runVars, cancelled, history>>

CloseNotify ==
  /\ dart = "stopping"
  /\ NotifyOne
  /\ dart' = "joining"
  /\ UNCHANGED <<result, portOpen, seen, ops, mailbox, queue, stop, runVars, cancelled, history>>

CloseJoin ==
  /\ dart = "joining"
  /\ worker = "exited"
  /\ dart' = "closed"
  /\ UNCHANGED <<result, portOpen, seen, ops, mailbox, queue, stop, worker, runVars, cancelled,
                 history>>

-----------------------------------------------------------------------------
(***************************************************************************)
(* The worker thread: loop() and execute().                                *)
(***************************************************************************)

LoopSleep ==
  /\ worker = "checking"
  /\ ~stop /\ queue = <<>>
  /\ worker' = "asleep"
  /\ UNCHANGED <<dartVars, mailbox, queue, stop, runVars, cancelled, history>>

\* stop_ is tested first: what is queued stays queued, and goes with the queue.
LoopReturn ==
  /\ worker = "checking"
  /\ stop
  /\ worker' = "exited"
  /\ UNCHANGED <<dartVars, mailbox, queue, stop, runVars, cancelled, history>>

LoopTake ==
  /\ worker = "checking"
  /\ ~stop /\ queue # <<>>
  /\ item' = Head(queue)
  /\ currentCancel' = Head(queue)
  /\ queue' = Tail(queue)
  /\ worker' = "running"
  /\ UNCHANGED <<dartVars, mailbox, stop, cancelled, freed, told, outcome, history>>

-----------------------------------------------------------------------------
(***************************************************************************)
(* The signals of a running transaction.                                   *)
(***************************************************************************)

OpKind(type) ==
  CASE type \in {"INSTALL", "INSTALL_BUNDLE"} -> "install"
    [] type = "UPDATE" -> "update"
    [] type = "UNINSTALL" -> "uninstall"

\* One event of an operation is told and posted.  The size of a download is
\* never known.
Signal(operation, percent, bytes, status) ==
  LET event == [op |-> OpKind(operation.type), ref |-> operation.ref, progress |-> percent,
                bytesTransferred |-> bytes, bytesTotal |-> 0, status |-> status]
  IN  /\ worker = "running"
      /\ told' = [told EXCEPT ![item] = Append(@, event)]
      /\ Post(item, [tag |-> "progress", payload |-> Write(TransactionProgress, event)])
      /\ UNCHANGED <<dartVars, queue, stop, worker, item, currentCancel, cancelled, freed,
                     outcome, history>>

Completed(events) == {i \in DOMAIN events : events[i].status = "Done"}

Finished == Cardinality(Completed(told[item]))

\* External: libflatpak works off what it has accepted in the order of the
\* caller, and this is the operation whose turn it is.
Turn(i) == Cardinality({j \in ops[item] : j < i}) = Finished

\* External: libflatpak works on an operation.
Underway == told[item] # <<>> /\ Last(told[item]).status # "Done"

Changes ==
  UNION {{<<t, i>> : i \in {j \in DOMAIN told[t] : told[t][j].status = "Downloading"}} : t \in Txs}

\* on_new_operation
NewOperation ==
  /\ item # NoTx /\ ~Underway
  /\ \E i \in ops[item] : Turn(i) /\ Signal(Operations[item][i], 0, 0, "Starting")

\* The "changed" closure of the operation.
ProgressChanged ==
  /\ item # NoTx /\ Underway
  /\ Cardinality(Changes) < MaxProgress
  /\ \E i \in ops[item] : Turn(i) /\ Signal(Operations[item][i], 50, 1, "Downloading")

\* on_operation_done
OperationDone ==
  /\ item # NoTx /\ Underway
  /\ \E i \in ops[item] : Turn(i) /\ Signal(Operations[item][i], 100, 0, "Done")

\* Slip: the result of flatpak_transaction_run is ignored.
RunReturnsDone(ok) ==
  /\ worker = "running"
  /\ ok => Finished = Cardinality(ops[item])
  /\ outcome' = [outcome EXCEPT ![item] = IF ok THEN "ok" ELSE "error"]
  /\ Post(item, Done)
  /\ worker' = "answered"
  /\ UNCHANGED <<dartVars, queue, stop, item, currentCancel, cancelled, freed,
                 told, history>>

\* Slip: no frame is posted for a transaction that was cancelled.
RunReturnsSilently(ok) ==
  /\ worker = "running"
  /\ ok => Finished = Cardinality(ops[item])
  /\ outcome' = [outcome EXCEPT ![item] = IF ok THEN "ok" ELSE "error"]
  /\ IF item \in cancelled THEN UNCHANGED mailbox
                           ELSE Post(item, IF ok THEN Done ELSE Error)
  /\ worker' = "answered"
  /\ UNCHANGED <<dartVars, queue, stop, item, currentCancel, cancelled, freed,
                 told, history>>

\* flatpak_transaction_run returns and its sentinel or error is posted.
RunReturns(ok) ==
  /\ worker = "running"
  /\ ok => Finished = Cardinality(ops[item])
  /\ outcome' = [outcome EXCEPT ![item] = IF ok THEN "ok" ELSE "error"]
  /\ Post(item, IF ok THEN Done ELSE Error)
  /\ worker' = "answered"
  /\ UNCHANGED <<dartVars, queue, stop, item, currentCancel, cancelled, freed,
                 told, history>>

\* Slip: current_cancel_ keeps its value until the next transaction.
ClearNothing ==
  /\ worker = "answered"
  /\ worker' = "cleared"
  /\ UNCHANGED <<dartVars, mailbox, queue, stop, runVars, cancelled, history>>

\* current_cancel_ = nullptr under mu_.
ClearCurrent ==
  /\ worker = "answered"
  /\ currentCancel' = NoTx
  /\ worker' = "cleared"
  /\ UNCHANGED <<dartVars, mailbox, queue, stop, item, cancelled, freed, told,
                 outcome, history>>

\* g_object_unref of the cancellable and the transaction.
Release ==
  /\ worker = "cleared"
  /\ freed' = freed \union {item}
  /\ item' = NoTx
  /\ worker' = "checking"
  /\ UNCHANGED <<dartVars, mailbox, queue, stop, currentCancel, cancelled, told,
                 outcome, history>>

Worker ==
  \/ LoopSleep \/ LoopReturn \/ LoopTake
  \/ NewOperation \/ ProgressChanged \/ OperationDone
  \/ \E ok \in BOOLEAN : RunReturns(ok)
  \/ ClearCurrent \/ Release

Next ==
  \/ \E t \in Txs : \/ \E refused \in SUBSET DOMAIN Operations[t] : Submit(t, refused)
                    \/ CreateFails(t) \/ Deliver(t) \/ Cancel(t)
  \/ SubmitNotify \/ CloseFlag \/ CloseNotify \/ CloseJoin
  \/ dart # "crashed" /\ Worker

(***************************************************************************)
(* Fairness: the worker thread runs and libflatpak returns; the isolate    *)
(* finishes the call it is in and delivers what its ports hold.  Calling   *)
(* submit, cancel or close is up to the application.                       *)
(***************************************************************************)
Fairness ==
  /\ WF_vars(dart # "crashed" /\ Worker)
  /\ WF_vars(SubmitNotify \/ CloseNotify \/ CloseJoin)
  /\ \A t \in Txs : WF_vars(Deliver(t))

Safety == Init /\ [][Next]_vars

Spec == Safety /\ Fairness

-----------------------------------------------------------------------------
(***************************************************************************)
(* What must hold.                                                         *)
(***************************************************************************)

\* cancel_current() never reaches a cancellable the worker has given up: the
\* pointer is cleared under mu_ before the unref in loop().
CancelPointsAtLive ==
  currentCancel # NoTx => currentCancel = item /\ currentCancel \notin freed

\* The progress stream has the events of its own transaction, in order, as they
\* were meant, and when the future is a success it has them all: the last event
\* of each operation the caller gave, 100 percent (the signal handlers, the codec
\* and the listener of _submit).
StreamFaithful ==
  \A t \in Txs :
    /\ IsPrefix(seen[t], told[t])
    /\ result[t] = "ok" => \A i \in DOMAIN Operations[t] :
         LET finished == Completed(seen[t])
         IN  \E k \in finished :
               /\ Cardinality({j \in finished : j <= k}) = i
               /\ seen[t][k].ref = Operations[t][i].ref /\ seen[t][k].progress = 100

\* The Dart future reports what happened: success only for a transaction that
\* ran and succeeded with all its operations, an error only for one that failed
\* or had an operation refused, and nothing of it on the stream that libflatpak
\* has not told (execute(), tx_add_*, the listener of _submit).
ResultFaithful ==
  /\ \A t \in Txs :
       /\ result[t] = "ok" => outcome[t] = "ok" /\ t \notin badAdd
       /\ result[t] = "error" => outcome[t] = "error" \/ t \in badAdd
  /\ StreamFaithful

\* Every submitted transaction gets its result, unless it is still queued when
\* close() returns, or the process has ended for a transaction that could not be
\* made: neither a lost wake-up nor a join that waits for ever can leave a future
\* hanging (enqueue(), loop(), the destructor, the listener of _submit), and one
\* that got to run gets its result even when the client is closed while it runs.
ResultArrives ==
  \A t \in Txs :
    result[t] = "pending" ~>
      \/ result[t] # "pending"
      \/ dart = "closed" /\ t \in ToSet(queue)
      \/ dart = "crashed"

-----------------------------------------------------------------------------
(***************************************************************************)
(* What the code says of itself, and does not keep.                        *)
(***************************************************************************)

\* "Request cancellation.  Has no effect if the transaction has already
\* completed" (FlatpakTransaction.cancel): a transaction is cancelled only if
\* its own cancel() was called, not that of a completed or a queued one.
OnlyAskedIsCancelled == cancelled \subseteq asked
=============================================================================
