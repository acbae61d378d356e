------------------------- MODULE SerialQueueProofs -------------------------
(***************************************************************************)
(* Proofs about SerialQueue for every set of items and of stopping         *)
(* threads: type correctness, the safety invariants, and the refinement of *)
(* the safety part of FifoService.                                         *)
(***************************************************************************)
EXTENDS SerialQueue, SequenceTheorems, TLAPS

USE NoItemAssumption

-----------------------------------------------------------------------------
(***************************************************************************)
(* Type correctness.  TypeOK is not inductive alone: that an answer names  *)
(* an item needs the worker to hold one whenever it runs the handler.      *)
(***************************************************************************)

\* The worker holds an item exactly while it is inside run_.
HoldsItem == worker = "running" <=> current # NoItem

Typed == TypeOK /\ HoldsItem

LEMMA InitTyped == Init => Typed
  BY EmptySeq
  DEF Init, Typed, HoldsItem, TypeOK, WorkerStates, PusherStates, StopperStates

LEMMA NextTyped == Typed /\ [Next]_vars => Typed'
<1> SUFFICES ASSUME Typed, [Next]_vars PROVE Typed'
  OBVIOUS
<1> USE DEF Typed, HoldsItem, TypeOK, WorkerStates, PusherStates, StopperStates,
            callers, NotifyOne
<1>1. ASSUME NEW i \in Items, PushTaken(i) PROVE Typed'
  <2>1. queue' \in Seq(Items)
    BY <1>1, AppendProperties DEF PushTaken
  <2> QED
    BY <1>1, <2>1 DEF PushTaken
<1>2. ASSUME NEW i \in Items, PushRefused(i) \/ PushNotify(i) PROVE Typed'
  BY <1>2 DEF PushRefused, PushNotify
<1>3. ASSUME NEW s \in Stoppers, Stop(s) PROVE Typed'
  BY <1>3 DEF Stop, StopFlag, StopNotify, StopLockJoin, StopJoin
<1>4. CASE LoopSleep \/ LoopSpuriousWake \/ LoopExit \/ LoopStop
  BY <1>4, EmptySeq DEF LoopSleep, LoopSpuriousWake, LoopExit, LoopStop
<1>5. CASE LoopTake
  BY <1>5, HeadTailProperties DEF LoopTake
<1>6. CASE LoopRan
  <2>1. [item |-> current, how |-> "ran"] \in Answers
    BY <1>6 DEF LoopRan, Answers
  <2> QED
    BY <1>6, <2>1, AppendProperties DEF LoopRan
<1>7. CASE LoopCancel
  <2>1. /\ Head(pending) \in Items
        /\ Tail(pending) \in Seq(Items)
    BY <1>7, HeadTailProperties DEF LoopCancel
  <2>2. [item |-> Head(pending), how |-> "cancelled"] \in Answers
    BY <2>1 DEF Answers
  <2> QED
    BY <1>7, <2>1, <2>2, AppendProperties DEF LoopCancel
<1>8. CASE UNCHANGED vars
  BY <1>8 DEF vars
<1> QED
  BY <1>1, <1>2, <1>3, <1>4, <1>5, <1>6, <1>7, <1>8 DEF Next, Push, Loop

\* Every variable of the queue keeps its type (push(), stop() and loop()).
THEOREM TypeCorrect == Safety => []TypeOK
<1>1. Typed => TypeOK
  BY DEF Typed
<1> QED
  BY <1>1, InitTyped, NextTyped, PTL DEF Safety

-----------------------------------------------------------------------------
(***************************************************************************)
(* The control state.  These parts are inductive together with Typed.      *)
(***************************************************************************)

\* A thread past the first lines of stop(), or refused by push(), saw stop_.
StopSeen ==
  /\ \A s \in Stoppers : stopper[s] # "idle" => stop
  /\ \A i \in Items : pusher[i] = "refused" => stop

\* The backlog moves in one piece from queue_ to the worker, and only when the
\* queue has stopped; nothing is left when the worker exits.
Drain ==
  /\ worker \in {"cancelling", "exited"} => stop /\ queue = <<>>
  /\ pending # <<>> => worker = "cancelling"
  /\ \A k \in DOMAIN served :
       served[k].how = "cancelled" => worker \in {"cancelling", "exited"}

\* joinable() goes false only after the worker has exited, and a call of stop()
\* returns only then.
Joined ==
  /\ ~joinable => worker = "exited"
  /\ \A s \in Stoppers : stopper[s] = "returned" => ~joinable

Control == Typed /\ StopSeen /\ Drain /\ Joined /\ JoinOnce /\ NoLostWakeup

LEMMA InitControl == Init => Control
<1> SUFFICES ASSUME Init PROVE Control
  OBVIOUS
<1>1. DOMAIN served = {}
  BY DEF Init
<1> QED
  BY <1>1, InitTyped
  DEF Init, Control, StopSeen, Drain, Joined, JoinOnce, NoLostWakeup

LEMMA NextStopSeen == Control /\ [Next]_vars => StopSeen'
<1> SUFFICES ASSUME Control, [Next]_vars PROVE StopSeen'
  OBVIOUS
<1> USE DEF Control, StopSeen, Typed, TypeOK
<1>1. ASSUME NEW i \in Items, Push(i) PROVE StopSeen'
  BY <1>1 DEF Push, PushTaken, PushRefused, PushNotify
<1>2. ASSUME NEW s \in Stoppers, Stop(s) PROVE StopSeen'
  BY <1>2 DEF Stop, StopFlag, StopNotify, StopLockJoin, StopJoin
<1>3. CASE Loop \/ LoopSpuriousWake
  BY <1>3 DEF Loop, LoopSpuriousWake, LoopSleep, LoopTake, LoopRan, LoopStop,
              LoopCancel, LoopExit, callers
<1>4. CASE UNCHANGED vars
  BY <1>4 DEF vars
<1> QED
  BY <1>1, <1>2, <1>3, <1>4 DEF Next

LEMMA NextDrain == Control /\ [Next]_vars => Drain'
<1> SUFFICES ASSUME Control, [Next]_vars PROVE Drain'
  OBVIOUS
<1> USE DEF Control, Drain, Typed, TypeOK, HoldsItem, NotifyOne
<1>1. ASSUME NEW i \in Items, Push(i) PROVE Drain'
  BY <1>1 DEF Push, PushTaken, PushRefused, PushNotify
<1>2. ASSUME NEW s \in Stoppers, Stop(s) PROVE Drain'
  BY <1>2 DEF Stop, StopFlag, StopNotify, StopLockJoin, StopJoin
<1>3. CASE LoopSleep \/ LoopSpuriousWake \/ LoopExit \/ LoopStop \/ LoopTake
  BY <1>3 DEF LoopSleep, LoopSpuriousWake, LoopExit, LoopStop, LoopTake
<1>4. CASE LoopRan
  <2> DEFINE a == [item |-> current, how |-> "ran"]
  <2>1. a \in Answers
    BY <1>4 DEF LoopRan, Answers
  <2>2. \A k \in DOMAIN served' : served'[k] = a \/ (k \in DOMAIN served /\ served'[k] = served[k])
    BY <1>4, <2>1, AppendProperties, LenProperties DEF LoopRan
  <2>3. a.how # "cancelled"
    OBVIOUS
  <2> QED
    BY <1>4, <2>2, <2>3 DEF LoopRan
<1>5. CASE LoopCancel
  BY <1>5, HeadTailProperties DEF LoopCancel
<1>6. CASE UNCHANGED vars
  BY <1>6 DEF vars
<1> QED
  BY <1>1, <1>2, <1>3, <1>4, <1>5, <1>6 DEF Next, Loop

LEMMA NextJoined == Control /\ [Next]_vars => Joined' /\ JoinOnce'
<1> SUFFICES ASSUME Control, [Next]_vars PROVE Joined' /\ JoinOnce'
  OBVIOUS
<1> USE DEF Control, Joined, JoinOnce, Typed, TypeOK, NotifyOne
<1>1. ASSUME NEW i \in Items, Push(i) PROVE Joined' /\ JoinOnce'
  BY <1>1 DEF Push, PushTaken, PushRefused, PushNotify
<1>2. ASSUME NEW s \in Stoppers, StopFlag(s) \/ StopNotify(s)
      PROVE  Joined' /\ JoinOnce'
  BY <1>2 DEF StopFlag, StopNotify
<1>3. ASSUME NEW s \in Stoppers, StopLockJoin(s) \/ StopJoin(s)
      PROVE  Joined' /\ JoinOnce'
  BY <1>3 DEF StopLockJoin, StopJoin
<1>4. CASE Loop \/ LoopSpuriousWake
  BY <1>4 DEF Loop, LoopSpuriousWake, LoopSleep, LoopTake, LoopRan, LoopStop,
              LoopCancel, LoopExit, callers
<1>5. CASE UNCHANGED vars
  BY <1>5 DEF vars
<1> QED
  BY <1>1, <1>2, <1>3, <1>4, <1>5 DEF Next, Stop

LEMMA NextNoLostWakeup == Control /\ [Next]_vars => NoLostWakeup'
<1> SUFFICES ASSUME Control, [Next]_vars PROVE NoLostWakeup'
  OBVIOUS
<1> USE DEF Control, NoLostWakeup, Typed, TypeOK, NotifyOne
<1>1. ASSUME NEW i \in Items, Push(i) PROVE NoLostWakeup'
  BY <1>1 DEF Push, PushTaken, PushRefused, PushNotify
<1>2. ASSUME NEW s \in Stoppers, Stop(s) PROVE NoLostWakeup'
  BY <1>2 DEF Stop, StopFlag, StopNotify, StopLockJoin, StopJoin
<1>3. CASE Loop \/ LoopSpuriousWake
  BY <1>3 DEF Loop, LoopSpuriousWake, LoopSleep, LoopTake, LoopRan, LoopStop,
              LoopCancel, LoopExit, callers
<1>4. CASE UNCHANGED vars
  BY <1>4 DEF vars
<1> QED
  BY <1>1, <1>2, <1>3, <1>4 DEF Next

LEMMA ControlInvariant == Safety => []Control
<1>1. Control /\ [Next]_vars => Control'
  BY NextTyped, NextStopSeen, NextDrain, NextJoined, NextNoLostWakeup DEF Control
<1> QED
  BY <1>1, InitControl, PTL DEF Safety

\* The worker never sleeps on work with no notify on its way (push(), stop()
\* and the wait of loop()).
THEOREM WakeupNeverLost == Safety => []NoLostWakeup
<1>1. Control => NoLostWakeup
  BY DEF Control
<1> QED
  BY <1>1, ControlInvariant, PTL

\* No two threads are inside thread_.join(), nobody joins a joined thread
\* (stop() under join_mu_).
THEOREM JoinedOnce == Safety => []JoinOnce
<1>1. Control => JoinOnce
  BY DEF Control
<1> QED
  BY <1>1, ControlInvariant, PTL

\* Once stop_ is set no item is started (the order of the tests in loop()).
THEOREM NothingStartsAfterStop == Safety => NoStartAfterStop
<1>1. Control /\ [Next]_vars => [stop => current' \in {current, NoItem}]_vars
  <2> SUFFICES ASSUME Control, Next, stop PROVE current' \in {current, NoItem}
    OBVIOUS
  <2> QED
    BY DEF Next, Push, PushTaken, PushRefused, PushNotify, Stop, StopFlag,
           StopNotify, StopLockJoin, StopJoin, Loop, LoopSpuriousWake, LoopSleep,
           LoopTake, LoopRan, LoopStop, LoopCancel, LoopExit
<1> QED
  BY <1>1, ControlInvariant, PTL DEF Safety, NoStartAfterStop

-----------------------------------------------------------------------------
(***************************************************************************)
(* The log of taken items: only push() changes it, at its end.             *)
(***************************************************************************)

LEMMA ItemsOfTyped ==
  ASSUME NEW s \in Seq(Answers)
  PROVE  /\ ItemsOf(s) \in Seq(Items)
         /\ Len(ItemsOf(s)) = Len(s)
         /\ \A k \in 1..Len(s) : ItemsOf(s)[k] = s[k].item
<1> DEFINE n == Len(s)
<1>1. n \in Nat /\ DOMAIN s = 1..n /\ s \in [1..n -> Answers]
  BY LenProperties
<1>2. ItemsOf(s) = [k \in 1..n |-> s[k].item]
  BY <1>1 DEF ItemsOf
<1>3. \A k \in 1..n : s[k].item \in Items
  BY <1>1 DEF Answers
<1>4. ItemsOf(s) \in [1..n -> Items]
  BY <1>2, <1>3
<1>5. ItemsOf(s) \in Seq(Items)
  BY <1>1, <1>4, SeqDef
<1>6. Len(ItemsOf(s)) = n
  BY <1>1, <1>4, <1>5, LenProperties
<1> QED
  BY <1>2, <1>5, <1>6

LEMMA ItemsOfAppend ==
  ASSUME NEW s \in Seq(Answers), NEW a \in Answers
  PROVE  ItemsOf(Append(s, a)) = Append(ItemsOf(s), a.item)
<1> DEFINE left  == ItemsOf(Append(s, a))
           right == Append(ItemsOf(s), a.item)
<1>1. a.item \in Items
  BY DEF Answers
<1>2. Append(s, a) \in Seq(Answers) /\ Len(Append(s, a)) = Len(s) + 1
  BY AppendProperties
<1>3. left \in Seq(Items) /\ Len(left) = Len(s) + 1
  BY <1>2, ItemsOfTyped
<1>4. right \in Seq(Items) /\ Len(right) = Len(s) + 1
  BY <1>1, ItemsOfTyped, AppendProperties
<1>5. ASSUME NEW k \in 1..Len(left) PROVE left[k] = right[k]
  <2>1. left[k] = Append(s, a)[k].item
    BY <1>2, <1>3, ItemsOfTyped
  <2>2. ItemsOf(s) \in Seq(Items) /\ Len(ItemsOf(s)) = Len(s)
    BY ItemsOfTyped
  <2>3. CASE k = Len(s) + 1
    <3>1. Append(s, a)[k] = a /\ right[k] = a.item
      BY <1>1, <2>2, <2>3, AppendProperties
    <3> QED
      BY <2>1, <3>1
  <2>4. CASE k \in 1..Len(s)
    <3>1. Append(s, a)[k] = s[k] /\ right[k] = ItemsOf(s)[k]
      BY <1>1, <2>2, <2>4, AppendProperties
    <3>2. ItemsOf(s)[k] = s[k].item
      BY <2>4, ItemsOfTyped
    <3> QED
      BY <2>1, <3>1, <3>2
  <2> QED
    <3>1. Len(s) \in Nat
      BY LenProperties
    <3>2. k \in 1..(Len(s) + 1)
      BY <1>3
    <3>3. k = Len(s) + 1 \/ k \in 1..Len(s)
      BY <3>1, <3>2
    <3> QED
      BY <3>3, <2>3, <2>4
<1> QED
  BY <1>3, <1>4, <1>5, SeqEqual

LEMMA InHandTyped == Typed => InHand \in Seq(Items)
  BY EmptySeq DEF Typed, TypeOK, InHand

LEMMA LogTyped == Typed => Log \in Seq(Items)
<1> SUFFICES ASSUME Typed PROVE Log \in Seq(Items)
  OBVIOUS
<1>1. ItemsOf(served) \in Seq(Items)
  BY ItemsOfTyped DEF Typed, TypeOK
<1> QED
  BY <1>1, InHandTyped, ConcatProperties DEF Log, Typed, TypeOK

LEMMA LogAfterPush ==
  ASSUME Control, NEW i \in Items, PushTaken(i)
  PROVE  Log' = Append(Log, i)
<1> DEFINE front == ItemsOf(served) \o InHand \o pending
<1>1. front \in Seq(Items)
  BY ItemsOfTyped, InHandTyped, ConcatProperties DEF Control, Typed, TypeOK
<1>2. queue \in Seq(Items)
  BY DEF Control, Typed, TypeOK
<1>3. Log' = front \o Append(queue, i)
  BY DEF PushTaken, Log, InHand, ItemsOf
<1>4. Append(queue, i) = queue \o <<i>> /\ <<i>> \in Seq(Items)
  BY <1>2, AppendIsConcat
<1>5. front \o (queue \o <<i>>) = (front \o queue) \o <<i>>
  BY <1>1, <1>2, <1>4, ConcatAssociative, SMTT(30)
<1>6. Append(Log, i) = Log \o <<i>>
  BY LogTyped, AppendIsConcat DEF Control
<1> QED
  BY <1>3, <1>4, <1>5, <1>6 DEF Log

LEMMA HeadThenTail ==
  ASSUME NEW q \in Seq(Items), q # <<>>
  PROVE  /\ Head(q) \in Items
         /\ Tail(q) \in Seq(Items)
         /\ <<Head(q)>> \in Seq(Items)
         /\ <<Head(q)>> \o Tail(q) = q
<1>1. /\ Head(q) \in Items
      /\ Tail(q) \in Seq(Items)
      /\ Len(q) \in Nat /\ Len(Tail(q)) = Len(q) - 1
      /\ \A k \in 1..(Len(q) - 1) : Tail(q)[k] = q[k + 1]
  BY HeadTailProperties, LenProperties
<1>2. <<Head(q)>> \in Seq(Items) /\ Len(<<Head(q)>>) = 1
  BY <1>1
<1> DEFINE whole == <<Head(q)>> \o Tail(q)
<1>3. whole \in Seq(Items) /\ Len(whole) = Len(q)
  BY <1>1, <1>2, ConcatProperties
<1>4. ASSUME NEW k \in 1..Len(q) PROVE whole[k] = q[k]
  BY <1>1, <1>2, ConcatProperties
<1>5. whole = q
  BY <1>3, <1>4, SeqEqual
<1> QED
  BY <1>1, <1>2, <1>5

LEMMA LogAfterTake ==
  ASSUME Control, LoopTake
  PROVE  Log' = Log
<1> DEFINE done == ItemsOf(served)
<1>1. done \in Seq(Items) /\ queue \in Seq(Items) /\ queue # <<>>
  BY ItemsOfTyped DEF Control, Typed, TypeOK, LoopTake
<1>2. Head(queue) \in Items /\ Tail(queue) \in Seq(Items)
  BY <1>1, HeadTailProperties
<1>3. pending = <<>> /\ pending' = <<>> /\ current = NoItem
  BY DEF Control, Drain, Typed, HoldsItem, LoopTake
<1>4. InHand = <<>> /\ InHand' = <<Head(queue)>>
  BY <1>2, <1>3 DEF InHand, LoopTake
<1>5. Log = done \o queue
  BY <1>1, <1>3, <1>4, ConcatEmptySeq DEF Log
<1>6. Log' = (done \o <<Head(queue)>>) \o Tail(queue)
  <2>1. Log' = done \o <<Head(queue)>> \o <<>> \o Tail(queue)
    BY <1>3, <1>4 DEF Log, LoopTake
  <2>2. done \o <<Head(queue)>> \in Seq(Items)
    BY <1>1, <1>2, ConcatProperties
  <2> QED
    BY <2>1, <2>2, ConcatEmptySeq
<1>7. <<Head(queue)>> \in Seq(Items) /\ <<Head(queue)>> \o Tail(queue) = queue
  BY <1>1, HeadThenTail
<1> QED
  BY <1>1, <1>2, <1>5, <1>6, <1>7, ConcatAssociative

LEMMA LogAfterRan ==
  ASSUME Control, LoopRan
  PROVE  Log' = Log
<1> DEFINE done == ItemsOf(served)
           a    == [item |-> current, how |-> "ran"]
<1>1. done \in Seq(Items) /\ queue \in Seq(Items) /\ served \in Seq(Answers)
  BY ItemsOfTyped DEF Control, Typed, TypeOK
<1>2. current \in Items /\ current # NoItem
  BY DEF Control, Typed, TypeOK, HoldsItem, LoopRan
<1>3. a \in Answers /\ a.item = current
  BY <1>2 DEF Answers
<1>4. ItemsOf(served)' = done \o <<current>>
  <2>1. ItemsOf(served)' = ItemsOf(Append(served, a))
    BY DEF LoopRan, ItemsOf
  <2> QED
    BY <1>1, <1>2, <1>3, <2>1, ItemsOfAppend, AppendIsConcat
<1>5. pending = <<>> /\ pending' = <<>>
  BY DEF Control, Drain, LoopRan
<1>6. InHand = <<current>> /\ InHand' = <<>>
  BY <1>2 DEF InHand, LoopRan
<1>7. done \o <<current>> \in Seq(Items)
  BY <1>1, <1>2, ConcatProperties
<1>8. Log = (done \o <<current>>) \o queue
  BY <1>5, <1>6, <1>7, ConcatEmptySeq DEF Log
<1>9. Log' = (done \o <<current>>) \o queue
  BY <1>4, <1>5, <1>6, <1>7, ConcatEmptySeq DEF Log, LoopRan
<1> QED
  BY <1>8, <1>9

LEMMA LogAfterStop ==
  ASSUME Control, LoopStop
  PROVE  Log' = Log
<1>1. /\ queue \in Seq(Items)
      /\ ItemsOf(served) \in Seq(Items)
      /\ InHand \in Seq(Items)
  BY ItemsOfTyped, InHandTyped DEF Control, Typed, TypeOK
<1>2. pending = <<>> /\ pending' = queue /\ queue' = <<>>
  BY DEF Control, Drain, LoopStop
<1>3. ItemsOf(served)' = ItemsOf(served) /\ InHand' = InHand
  BY DEF ItemsOf, InHand, LoopStop, callers
<1>4. ItemsOf(served) \o InHand \in Seq(Items)
  BY <1>1, ConcatProperties
<1>5. Log = (ItemsOf(served) \o InHand) \o queue
  BY <1>2, <1>4, ConcatEmptySeq DEF Log
<1>6. Log' = ((ItemsOf(served) \o InHand) \o queue) \o <<>>
  BY <1>2, <1>3 DEF Log
<1> QED
  BY <1>1, <1>4, <1>5, <1>6, ConcatProperties, ConcatEmptySeq

LEMMA LogAfterCancel ==
  ASSUME Control, LoopCancel
  PROVE  Log' = Log
<1> DEFINE done == ItemsOf(served)
           i    == Head(pending)
           a    == [item |-> i, how |-> "cancelled"]
<1>1. /\ done \in Seq(Items) /\ served \in Seq(Answers)
      /\ pending \in Seq(Items) /\ pending # <<>>
  BY ItemsOfTyped DEF Control, Typed, TypeOK, LoopCancel
<1>2. /\ i \in Items /\ Tail(pending) \in Seq(Items) /\ <<i>> \in Seq(Items)
      /\ <<i>> \o Tail(pending) = pending
  BY <1>1, HeadThenTail
<1>3. a \in Answers /\ a.item = i
  BY <1>2 DEF Answers
<1>4. ItemsOf(served)' = done \o <<i>>
  <2>1. ItemsOf(served)' = ItemsOf(Append(served, a))
    BY DEF LoopCancel, ItemsOf
  <2> QED
    BY <1>1, <1>2, <1>3, <2>1, ItemsOfAppend, AppendIsConcat
<1>5. queue = <<>> /\ queue' = <<>> /\ current = NoItem
  BY DEF Control, Drain, Typed, HoldsItem, LoopCancel
<1>6. InHand = <<>> /\ InHand' = <<>>
  BY <1>5 DEF InHand, LoopCancel
<1>7. done \o <<i>> \in Seq(Items)
  BY <1>1, <1>2, ConcatProperties
<1>8. Log = done \o pending
  <2>1. done \o pending \in Seq(Items)
    BY <1>1, ConcatProperties
  <2> QED
    BY <1>1, <1>5, <1>6, <2>1, ConcatEmptySeq DEF Log
<1>9. Log' = (done \o <<i>>) \o Tail(pending)
  <2>1. (done \o <<i>>) \o Tail(pending) \in Seq(Items)
    BY <1>2, <1>7, ConcatProperties
  <2> QED
    BY <1>4, <1>5, <1>6, <1>7, <2>1, ConcatEmptySeq DEF Log, LoopCancel
<1>10. (done \o <<i>>) \o Tail(pending) = done \o pending
  BY <1>1, <1>2, ConcatAssociative
<1> QED
  BY <1>8, <1>9, <1>10

LEMMA LogStep ==
  ASSUME Control, [Next]_vars
  PROVE  \/ Log' = Log /\ Taken' = Taken
         \/ \E i \in Items : PushTaken(i)
<1> USE DEF Log, InHand, ItemsOf, Taken, Control, Typed, TypeOK
<1>1. ASSUME NEW i \in Items, PushRefused(i) \/ PushNotify(i)
      PROVE  Log' = Log /\ Taken' = Taken
  <2>1. Log' = Log
    BY <1>1 DEF PushRefused, PushNotify
  <2>2. Taken' = Taken
    BY <1>1 DEF PushRefused, PushNotify
  <2> QED
    BY <2>1, <2>2
<1>2. ASSUME NEW s \in Stoppers, Stop(s) PROVE Log' = Log /\ Taken' = Taken
  BY <1>2 DEF Stop, StopFlag, StopNotify, StopLockJoin, StopJoin
<1>3. CASE LoopSleep \/ LoopSpuriousWake \/ LoopExit
  BY <1>3 DEF LoopSleep, LoopSpuriousWake, LoopExit, callers
<1>4. CASE LoopTake \/ LoopRan \/ LoopStop \/ LoopCancel
  <2>1. Log' = Log
    BY <1>4, LogAfterTake, LogAfterRan, LogAfterStop, LogAfterCancel
  <2>2. pusher' = pusher
    BY <1>4 DEF LoopTake, LoopRan, LoopStop, LoopCancel, callers
  <2> QED
    BY <2>1, <2>2
<1>5. CASE UNCHANGED vars
  BY <1>5 DEF vars
<1> QED
  BY <1>1, <1>2, <1>3, <1>4, <1>5 DEF Next, Push, Loop

-----------------------------------------------------------------------------
(***************************************************************************)
(* Conservation, and what a returned stop() means.                         *)
(***************************************************************************)

LEMMA InitConservation == Init => Conservation
<1> SUFFICES ASSUME Init PROVE Conservation
  OBVIOUS
<1>1. ItemsOf(served) = <<>>
  BY DEF Init, ItemsOf
<1>2. Log = <<>>
  BY <1>1, EmptySeq, ConcatEmptySeq DEF Init, Log, InHand
<1>3. Taken = {}
  BY DEF Init, Taken
<1>4. DOMAIN Log = {}
  BY <1>2
<1> QED
  BY <1>3, <1>4 DEF Conservation

LEMMA NextConservation ==
  Control /\ Conservation /\ [Next]_vars => Conservation'
<1> SUFFICES ASSUME Control, Conservation, [Next]_vars PROVE Conservation'
  OBVIOUS
<1>1. CASE Log' = Log /\ Taken' = Taken
  BY <1>1 DEF Conservation
<1>2. ASSUME NEW i \in Items, PushTaken(i) PROVE Conservation'
  <2>1. Log \in Seq(Items) /\ Log' = Append(Log, i)
    BY <1>2, LogTyped, LogAfterPush DEF Control
  <2> DEFINE n == Len(Log)
  <2>2. n \in Nat /\ DOMAIN Log = 1..n /\ DOMAIN Log' = 1..(n + 1)
    BY <2>1, AppendProperties, LenProperties
  <2>3. /\ \A k \in 1..n : Log'[k] = Log[k]
        /\ Log'[n + 1] = i
    BY <2>1, AppendProperties
  <2>4. i \notin Taken
    BY <1>2 DEF PushTaken, Taken
  <2>5. Taken' = Taken \union {i}
    BY <1>2 DEF PushTaken, Taken, Control, Typed, TypeOK
  <2>6. \A k \in 1..n : Log[k] \in Taken
    BY <2>2 DEF Conservation
  <2>7. ASSUME NEW j \in DOMAIN Log', NEW k \in DOMAIN Log', Log'[j] = Log'[k]
        PROVE  j = k
    BY <2>2, <2>3, <2>4, <2>6, <2>7 DEF Conservation
  <2>8. {Log'[k] : k \in DOMAIN Log'} = Taken'
    <3>1. {Log'[k] : k \in 1..(n + 1)} = {Log[k] : k \in 1..n} \union {i}
      BY <2>2, <2>3
    <3> QED
      BY <2>2, <2>5, <3>1 DEF Conservation
  <2> QED
    BY <2>7, <2>8 DEF Conservation
<1> QED
  BY <1>1, <1>2, LogStep

\* An item that push() took is in exactly one place until it is answered, and
\* is answered once; a refused item never is (push() and loop()).
THEOREM ItemsConserved == Safety => []Conservation
  BY InitConservation, NextConservation, ControlInvariant, PTL DEF Safety

LEMMA ReturnedMeansDrained == Control => DrainedOnReturn
<1> SUFFICES ASSUME Control, NEW s \in Stoppers, stopper[s] = "returned"
             PROVE  worker = "exited" /\ ItemsOf(served) = Log
  BY DEF DrainedOnReturn
<1>1. worker = "exited" /\ queue = <<>> /\ pending = <<>> /\ current = NoItem
  BY DEF Control, Joined, Drain, Typed, HoldsItem
<1>2. ItemsOf(served) \in Seq(Items)
  BY ItemsOfTyped DEF Control, Typed, TypeOK
<1>3. Log = ItemsOf(served) \o <<>> \o <<>> \o <<>>
  BY <1>1 DEF Log, InHand
<1>4. Log = ItemsOf(served)
  BY <1>2, <1>3, ConcatEmptySeq
<1> QED
  BY <1>1, <1>4

\* When a call of stop() returns, the worker thread is gone and every taken
\* item has been answered (stop() joins loop(), which cancels the backlog).
THEOREM ReturnedIsDrained == Safety => []DrainedOnReturn
  BY ReturnedMeansDrained, ControlInvariant, PTL

-----------------------------------------------------------------------------
(***************************************************************************)
(* The queue implements FifoService.                                       *)
(***************************************************************************)

Refused == {i \in Items : pusher[i] = "refused"}

LEMMA InitService == Init => Service!Init
<1> SUFFICES ASSUME Init PROVE Service!Init
  OBVIOUS
<1>1. ItemsOf(served) = <<>>
  BY DEF Init, ItemsOf
<1>2. Log = <<>>
  BY <1>1, EmptySeq, ConcatEmptySeq DEF Init, Log, InHand
<1> QED
  BY <1>2 DEF Init, Service!Init

\* The k-th answer given is to the k-th item taken.
LEMMA NextUnanswered ==
  ASSUME Typed, NEW i \in Items, NEW rest \in Seq(Items),
         Log = (ItemsOf(served) \o <<i>>) \o rest
  PROVE  /\ Len(served) < Len(Log)
         /\ Log[Len(served) + 1] = i
<1> DEFINE done == ItemsOf(served)
           n    == Len(served)
<1>1. done \in Seq(Items) /\ Len(done) = n /\ n \in Nat
  BY ItemsOfTyped, LenProperties DEF Typed, TypeOK
<1>2. <<i>> \in Seq(Items) /\ Len(<<i>>) = 1 /\ <<i>>[1] = i
  OBVIOUS
<1>3. /\ done \o <<i>> \in Seq(Items)
      /\ Len(done \o <<i>>) = n + 1
      /\ (done \o <<i>>)[n + 1] = i
  BY <1>1, <1>2, ConcatProperties
<1>4. Len(rest) \in Nat
  BY LenProperties
<1>5. Len(Log) = n + 1 + Len(rest) /\ Log[n + 1] = i
  <2> DEFINE front == done \o <<i>>
  <2>1. Log = front \o rest /\ front \in Seq(Items) /\ Len(front) = n + 1
    BY <1>3
  <2>2. /\ Len(Log) = Len(front) + Len(rest)
        /\ \A k \in 1..(Len(front) + Len(rest)) :
             Log[k] = IF k <= Len(front) THEN front[k] ELSE rest[k - Len(front)]
    <3> HIDE DEF front
    <3>1. /\ Len(front \o rest) = Len(front) + Len(rest)
          /\ \A k \in 1..(Len(front) + Len(rest)) :
               (front \o rest)[k] = IF k <= Len(front) THEN front[k]
                                                       ELSE rest[k - Len(front)]
      BY <2>1, ConcatProperties
    <3> QED
      BY <2>1, <3>1
  <2>3. Log[n + 1] = front[n + 1]
    <3> HIDE DEF front
    <3> QED
      BY <1>1, <1>4, <2>1, <2>2, SMTT(30)
  <2> QED
    BY <1>3, <2>1, <2>2, <2>3
<1> QED
  BY <1>1, <1>4, <1>5

LEMMA RanIsAnswer ==
  ASSUME Control, LoopRan
  PROVE  Service!Answer("ran")
<1>1. current \in Items /\ queue \in Seq(Items) /\ ItemsOf(served) \in Seq(Items)
  BY ItemsOfTyped DEF Control, Typed, TypeOK, HoldsItem, LoopRan
<1>2. Log = (ItemsOf(served) \o <<current>>) \o queue
  <2>1. pending = <<>> /\ InHand = <<current>>
    BY <1>1 DEF Control, Drain, InHand, LoopRan
  <2>2. ItemsOf(served) \o <<current>> \in Seq(Items)
    BY <1>1, ConcatProperties
  <2> QED
    BY <2>1, <2>2, ConcatEmptySeq DEF Log
<1>3. Len(served) < Len(Log) /\ Log[Len(served) + 1] = current
  BY <1>1, <1>2, NextUnanswered DEF Control
<1>4. ~Service!Cancelling
  BY DEF Service!Cancelling, Control, Drain, LoopRan
<1>5. Log' = Log
  BY LogAfterRan
<1>6. stop' = stop /\ pusher' = pusher
  BY DEF LoopRan, callers
<1>7. served' = Append(served, [item |-> Log[Len(served) + 1], how |-> "ran"])
  BY <1>3 DEF LoopRan
<1> QED
  BY <1>3, <1>4, <1>5, <1>6, <1>7 DEF Service!Answer

LEMMA CancelIsAnswer ==
  ASSUME Control, LoopCancel
  PROVE  Service!Answer("cancelled")
<1> DEFINE i == Head(pending)
<1>1. /\ ItemsOf(served) \in Seq(Items)
      /\ i \in Items /\ Tail(pending) \in Seq(Items) /\ <<i>> \in Seq(Items)
      /\ <<i>> \o Tail(pending) = pending
      /\ pending \in Seq(Items)
  BY ItemsOfTyped, HeadThenTail DEF Control, Typed, TypeOK, LoopCancel
<1>2. Log = (ItemsOf(served) \o <<i>>) \o Tail(pending)
  <2>1. queue = <<>> /\ InHand = <<>>
    BY DEF Control, Drain, Typed, HoldsItem, InHand, LoopCancel
  <2>2. ItemsOf(served) \o pending \in Seq(Items)
    BY <1>1, ConcatProperties
  <2>3. Log = ItemsOf(served) \o pending
    BY <1>1, <2>1, <2>2, ConcatEmptySeq DEF Log
  <2> QED
    BY <1>1, <2>3, ConcatAssociative
<1>3. Len(served) < Len(Log) /\ Log[Len(served) + 1] = i
  BY <1>1, <1>2, NextUnanswered DEF Control
<1>4. stop
  BY DEF Control, Drain, LoopCancel
<1>5. Log' = Log
  BY LogAfterCancel
<1>6. stop' = stop /\ pusher' = pusher
  BY DEF LoopCancel, callers
<1>7. served' = Append(served, [item |-> Log[Len(served) + 1], how |-> "cancelled"])
  BY <1>3 DEF LoopCancel
<1> QED
  BY <1>3, <1>4, <1>5, <1>6, <1>7 DEF Service!Answer

LEMMA PushIsTakeOrRefuse ==
  ASSUME Control, Conservation, NEW i \in Items, PushTaken(i) \/ PushRefused(i)
  PROVE  Service!Take(i) \/ Service!Refuse(i)
<1>1. Service!Fresh(i)
  BY DEF Service!Fresh, Conservation, Taken, PushTaken, PushRefused
<1>2. CASE PushTaken(i)
  <2>1. Log' = Append(Log, i)
    BY <1>2, LogAfterPush
  <2>2. Refused' = Refused
    BY <1>2 DEF PushTaken, Refused, Control, Typed, TypeOK
  <2> QED
    BY <1>1, <1>2, <2>1, <2>2 DEF Service!Take, Refused, PushTaken
<1>3. CASE PushRefused(i)
  <2>1. Log' = Log
    BY <1>3 DEF PushRefused, Log, InHand, ItemsOf
  <2>2. Refused' = Refused \union {i}
    BY <1>3 DEF PushRefused, Refused, Control, Typed, TypeOK
  <2> QED
    BY <1>1, <1>3, <2>1, <2>2 DEF Service!Refuse, Refused, PushRefused
<1> QED
  BY <1>2, <1>3

LEMMA NextService ==
  Control /\ Conservation /\ [Next]_vars => [Service!Next]_(Service!vars)
<1> SUFFICES ASSUME Control, Conservation, [Next]_vars
             PROVE  [Service!Next]_(Service!vars)
  OBVIOUS
<1> USE DEF Service!vars
<1>1. ASSUME NEW i \in Items, PushTaken(i) \/ PushRefused(i)
      PROVE  [Service!Next]_(Service!vars)
  <2>1. Service!Take(i) \/ Service!Refuse(i)
    BY <1>1, PushIsTakeOrRefuse
  <2> QED
    BY <2>1 DEF Service!Next
<1>2. ASSUME NEW i \in Items, PushNotify(i) PROVE UNCHANGED Service!vars
  <2>1. Refused' = Refused
    BY <1>2 DEF PushNotify, Refused, Control, Typed, TypeOK
  <2> QED
    BY <1>2, <2>1 DEF PushNotify, Refused, Log, InHand, ItemsOf
<1>3. ASSUME NEW s \in Stoppers, Stop(s)
      PROVE  [Service!Next]_(Service!vars)
  <2>1. Log' = Log
    BY <1>3 DEF Stop, StopFlag, StopNotify, StopLockJoin, StopJoin, Log, InHand,
                ItemsOf
  <2>2. served' = served /\ pusher' = pusher
    BY <1>3 DEF Stop, StopFlag, StopNotify, StopLockJoin, StopJoin
  <2>3. CASE stop' = TRUE
    BY <2>1, <2>2, <2>3 DEF Service!Next, Service!Close
  <2>4. CASE stop' = stop
    BY <2>1, <2>2, <2>4
  <2>5. stop' = TRUE \/ stop' = stop
    BY <1>3 DEF Stop, StopFlag, StopNotify, StopLockJoin, StopJoin
  <2> QED
    BY <2>3, <2>4, <2>5
<1>4. CASE LoopSleep \/ LoopSpuriousWake \/ LoopExit
  <2>1. /\ stop' = stop /\ served' = served /\ pusher' = pusher
        /\ queue' = queue /\ pending' = pending /\ current' = current
    BY <1>4 DEF LoopSleep, LoopSpuriousWake, LoopExit, callers
  <2>2. Log' = Log
    BY <2>1 DEF Log, InHand, ItemsOf
  <2> QED
    BY <2>1, <2>2
<1>5. CASE LoopTake \/ LoopStop
  <2>1. Log' = Log
    BY <1>5, LogAfterTake, LogAfterStop
  <2>2. stop' = stop /\ served' = served /\ pusher' = pusher
    BY <1>5 DEF LoopTake, LoopStop, callers
  <2> QED
    BY <2>1, <2>2
<1>6. CASE LoopRan
  BY <1>6, RanIsAnswer DEF Service!Next, Service!Ways
<1>7. CASE LoopCancel
  BY <1>7, CancelIsAnswer DEF Service!Next, Service!Ways
<1>8. CASE UNCHANGED vars
  BY <1>8 DEF vars, Log, InHand, ItemsOf
<1> QED
  BY <1>1, <1>2, <1>3, <1>4, <1>5, <1>6, <1>7, <1>8 DEF Next, Push, Loop

\* Whatever threads call push() and stop(), and however they interleave with
\* loop(), the queue behaves as a FIFO service: answers in the order of the
\* pushes, each item once, cancellations only after stop() and last.
THEOREM ImplementsService == Safety => ServiceSafety
  BY InitService, NextService, ControlInvariant, ItemsConserved, PTL
  DEF Safety, ServiceSafety, Service!Safety
=============================================================================
