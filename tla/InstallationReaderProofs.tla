---------------------- MODULE InstallationReaderProofs ----------------------
(***************************************************************************)
(* Proofs about InstallationReader for every set of launches and of        *)
(* refreshes and every sleep budget: type correctness, the order of the    *)
(* destructor, what launch() reports, and that the hand-written launch     *)
(* loop implements the safety part of FifoService.                         *)
(***************************************************************************)
EXTENDS InstallationReader, SequenceTheorems, TLAPS

USE ReaderAssumption

-----------------------------------------------------------------------------
(***************************************************************************)
(* The types.  That a frame goes to a call, and an answer names one, needs *)
(* the launch thread to hold a request whenever it works on one; that only *)
(* launches have instances, that no refresh is sent one.                   *)
(***************************************************************************)

Working == {"launching", "spawned", "probing", "replying", "ending"}

HoldsRequest == launcher \in Working <=> current # NoLaunch

RefreshFrames == \A r \in Refreshes : mailbox[r] \in Seq({"end", "notFound"})

Typed == TypeOK /\ HoldsRequest /\ RefreshFrames

Replies == [item : Launches, how : {"ran", "cancelled"}]

LEMMA InitTyped == Init => Typed
<1> SUFFICES ASSUME Init PROVE Typed
  OBVIOUS
<1>1. mailbox \in [Calls -> Seq(Frames)] /\ RefreshFrames
  BY EmptySeq DEF Init, RefreshFrames, Calls
<1>2. refreshOpen = TRUE /\ refreshLog = <<>> /\ refreshServed = <<>>
  BY DEF Init, Refresh!Init
<1>3. /\ queue \in Seq(Launches) /\ pending \in Seq(Launches)
      /\ answers \in Seq([item : Launches, how : {"ran", "cancelled"}])
      /\ refreshLog \in Seq(Refreshes)
      /\ refreshServed \in Seq([item : Refreshes, how : {"ran", "cancelled"}])
  BY <1>2, EmptySeq DEF Init
<1>4. HoldsRequest
  BY DEF Init, HoldsRequest, Working
<1>5. TypeOK
  <2>1. /\ future \in [Calls -> {"none", "pending", "ok", "notFound", "failed"}]
        /\ app \in [Launches -> {"none", "spawned", "listed", "published", "gone"}]
        /\ sleeps \in 0..MaxSleeps
    BY DEF Init
  <2> QED
    BY <1>1, <1>2, <1>3, <2>1 DEF Init, TypeOK
<1> QED
  BY <1>1, <1>4, <1>5 DEF Typed

LEMMA PostTyped ==
  ASSUME Typed, NEW c \in Calls, NEW f \in Frames, Post(c, f),
         c \in Refreshes => f \in {"end", "notFound"}
  PROVE  mailbox' \in [Calls -> Seq(Frames)] /\ RefreshFrames'
<1>1. mailbox' \in [Calls -> Seq(Frames)]
  BY AppendProperties DEF Typed, TypeOK, Post
<1>2. RefreshFrames'
  BY AppendProperties DEF Typed, TypeOK, RefreshFrames, Post, Calls
<1> QED
  BY <1>1, <1>2

LEMMA NextTyped == Typed /\ [Next]_vars => Typed'
<1> SUFFICES ASSUME Typed, [Next]_vars PROVE Typed'
  OBVIOUS
<1> USE DEF Typed, TypeOK, HoldsRequest, Working, NotifyOne, refreshVars
<1>u. mailbox' = mailbox => RefreshFrames'
  BY DEF RefreshFrames
<1>1. ASSUME NEW l \in Launches, Launch(l) PROVE Typed'
  <2>1. queue' \in Seq(Launches)
    BY <1>1, AppendProperties DEF Launch
  <2>2. future' \in [Calls -> {"none", "pending", "ok", "notFound", "failed"}]
    BY <1>1 DEF Launch, Calls
  <2> QED
    BY <1>u, <1>1, <2>1, <2>2 DEF Launch
<1>2. ASSUME NEW l \in Launches, AppSteps(l) PROVE Typed'
  BY <1>u, <1>2, SMTT(30) DEF AppSteps, launchVars
<1>3. ASSUME NEW r \in Refreshes, RefreshAppstream(r) PROVE Typed'
  <2>1. /\ refreshLog' \in Seq(Refreshes)
        /\ UNCHANGED <<refreshOpen, refreshServed>>
    BY <1>3, AppendProperties DEF RefreshAppstream, Refresh!Take
  <2>2. future' \in [Calls -> {"none", "pending", "ok", "notFound", "failed"}]
    BY <1>3 DEF RefreshAppstream, Calls
  <2> QED
    BY <1>u, <1>3, <2>1, <2>2 DEF RefreshAppstream, launchVars
<1>4. ASSUME NEW c \in Calls, Deliver(c) PROVE Typed'
  <2>1. /\ Head(mailbox[c]) \in Frames /\ Tail(mailbox[c]) \in Seq(Frames)
        /\ c \in Refreshes => /\ Head(mailbox[c]) \in {"end", "notFound"}
                              /\ Tail(mailbox[c]) \in Seq({"end", "notFound"})
    BY <1>4, HeadTailProperties DEF Deliver, RefreshFrames
  <2>2. CASE Head(mailbox[c]) = "instance"
    <3>1. c \in Launches
      BY <2>1, <2>2 DEF Calls
    <3>2. mailbox' = [mailbox EXCEPT ![c] = Tail(mailbox[c])]
      BY <1>4, <2>2 DEF Deliver
    <3>3. mailbox' \in [Calls -> Seq(Frames)]
      BY <2>1, <3>2
    <3>4. RefreshFrames'
      BY <3>1, <3>2 DEF RefreshFrames, Calls
    <3> QED
      BY <1>4, <2>2, <3>1, <3>3, <3>4 DEF Deliver, launchVars
  <2>3. CASE Head(mailbox[c]) # "instance"
    <3>1. mailbox' = [mailbox EXCEPT ![c] = <<>>]
      BY <1>4, <2>3 DEF Deliver
    <3>2. mailbox' \in [Calls -> Seq(Frames)]
      BY <3>1, EmptySeq
    <3>3. RefreshFrames'
      BY <3>1, EmptySeq DEF RefreshFrames, Calls
    <3>4. future' \in [Calls -> {"none", "pending", "ok", "notFound", "failed"}]
      BY <1>4, <2>1, <2>3 DEF Deliver, Frames
    <3> QED
      BY <1>4, <2>3, <3>2, <3>3, <3>4 DEF Deliver, launchVars
  <2> QED
    BY <2>2, <2>3
<1>5. CASE LaunchNotify \/ CloseFlag
  BY <1>u, <1>5, ZenonT(40) DEF LaunchNotify, CloseFlag
<1>6. CASE Close
  <2>1. CASE CloseNotify
    BY <1>u, <2>1 DEF CloseNotify
  <2>2. CASE CloseRefreshes
    BY <1>u, <2>2 DEF CloseRefreshes, Refresh!Close, launchVars
  <2>3. CASE CloseRefreshesDone \/ CloseJoin
    BY <1>u, <2>3, ZenonT(40) DEF CloseRefreshesDone, CloseJoin, launchVars
  <2> QED
    BY <1>6, <2>1, <2>2, <2>3 DEF Close
<1>7. CASE LoopSleep \/ LaunchReapAsync \/ ProbeEnds \/ ProbeSleeps \/ LoopExit
  <2>1. CASE ProbeSleeps
    <3>1. sleeps' \in 0..MaxSleeps
      BY <2>1 DEF ProbeSleeps
    <3> QED
      BY <1>u, <2>1, <3>1 DEF ProbeSleeps, SeenNow
  <2>2. CASE LaunchReapAsync
    <3>1. reaper' \subseteq Launches /\ sleeps' \in 0..MaxSleeps
      BY <2>2 DEF LaunchReapAsync
    <3> QED
      BY <1>u, <2>2, <3>1 DEF LaunchReapAsync
  <2>3. CASE LoopSleep \/ ProbeEnds \/ LoopExit
    BY <1>u, <2>3, ZenonT(40) DEF LoopSleep, ProbeEnds, LoopExit
  <2> QED
    BY <1>7, <2>1, <2>2, <2>3
<1>8. CASE LoopTake
  BY <1>u, <1>8, HeadTailProperties DEF LoopTake
<1>9. ASSUME NEW frame \in {"notFound", "failed"}, LaunchFails(frame) PROVE Typed'
  <2>1. mailbox' \in [Calls -> Seq(Frames)] /\ RefreshFrames'
    BY <1>9, PostTyped DEF LaunchFails, Calls, Frames
  <2>2. answers' \in Seq(Replies)
    BY <1>9, AppendProperties DEF LaunchFails, Replies
  <2> QED
    BY <1>9, <2>1, <2>2 DEF LaunchFails, Replies
<1>10. CASE LaunchSpawns
  BY <1>u, <1>10 DEF LaunchSpawns
<1>11. CASE ReplyInstance
  <2>1. mailbox' \in [Calls -> Seq(Frames)] /\ RefreshFrames'
    BY <1>11, PostTyped DEF ReplyInstance, Calls, Frames
  <2> QED
    BY <1>11, <2>1 DEF ReplyInstance
<1>12. CASE ReplyEnd
  <2>1. mailbox' \in [Calls -> Seq(Frames)] /\ RefreshFrames'
    BY <1>12, PostTyped DEF ReplyEnd, Calls, Frames
  <2>2. answers' \in Seq(Replies)
    BY <1>12, AppendProperties DEF ReplyEnd, Replies
  <2> QED
    BY <1>12, <2>1, <2>2 DEF ReplyEnd, Replies
<1>13. CASE LoopStop
  BY <1>u, <1>13, EmptySeq DEF LoopStop
<1>14. CASE LoopCancel
  <2>1. Head(pending) \in Launches /\ Tail(pending) \in Seq(Launches)
    BY <1>14, HeadTailProperties DEF LoopCancel
  <2>2. mailbox' \in [Calls -> Seq(Frames)] /\ RefreshFrames'
    BY <1>14, <2>1, PostTyped DEF LoopCancel, Calls, Frames
  <2>3. answers' \in Seq(Replies)
    BY <1>14, <2>1, AppendProperties DEF LoopCancel, Replies
  <2> QED
    BY <1>14, <2>1, <2>2, <2>3 DEF LoopCancel, Replies
<1>15. ASSUME NEW how \in Refresh!Ways, NEW frame \in {"end", "notFound"},
              RefreshDone(how, frame)
       PROVE  Typed'
  <2> DEFINE n == Len(refreshServed) + 1
             r == refreshLog[n]
  <2>1. n \in 1..Len(refreshLog)
    BY <1>15, LenProperties DEF RefreshDone, Refresh!Answer
  <2>2. r \in Refreshes
    BY <2>1, ElementOfSeq
  <2>3. mailbox' \in [Calls -> Seq(Frames)] /\ RefreshFrames'
    BY <1>15, <2>2, PostTyped DEF RefreshDone, Calls, Frames
  <2>4. /\ refreshServed' \in Seq([item : Refreshes, how : {"ran", "cancelled"}])
        /\ UNCHANGED <<refreshOpen, refreshLog>>
    BY <1>15, <2>2, AppendProperties DEF RefreshDone, Refresh!Answer, Refresh!Ways
  <2> QED
    BY <1>15, <2>3, <2>4 DEF RefreshDone, launchVars
<1>16. CASE UNCHANGED vars
  BY <1>u, <1>16 DEF vars, launchVars
<1> QED
  BY <1>1, <1>2, <1>3, <1>4, <1>5, <1>6, <1>7, <1>8, <1>9, <1>10, <1>11, <1>12, <1>13,
     <1>14, <1>15, <1>16 DEF Next, Launcher, Refresher

\* Every variable of the reader keeps its type (the isolate, the launch thread and
\* the refresh thread in any interleaving).
THEOREM TypeCorrect == Safety => []TypeOK
<1>1. Typed => TypeOK
  BY DEF Typed
<1> QED
  BY <1>1, InitTyped, NextTyped, PTL DEF Safety
-----------------------------------------------------------------------------
(***************************************************************************)
(* The order of the destructor.                                            *)
(***************************************************************************)

\* close() sets launch_stop_ first, then waits for both threads, then drops the
\* installation.
ClosesInOrder ==
  /\ stop <=> dart \in {"flagged", "notified", "refreshStopping", "joining", "closed"}
  /\ ~alive <=> dart = "closed"
  /\ dart \in {"joining", "closed"} => Len(refreshServed) = Len(refreshLog)
  /\ dart = "closed" => launcher = "exited"

\* The backlog moves in one piece from launch_queue_ to the launch thread, and
\* only once launch_stop_ is set; nothing is left when the thread exits.
Drain ==
  /\ launcher \in {"cancelling", "exited"} => stop /\ queue = <<>>
  /\ pending # <<>> => launcher = "cancelling"
  /\ \A k \in DOMAIN answers :
       answers[k].how = "cancelled" => launcher \in {"cancelling", "exited"}

Control == Typed /\ ClosesInOrder /\ Drain

LEMMA InitControl == Init => Control
<1> SUFFICES ASSUME Init PROVE Control
  OBVIOUS
<1>1. DOMAIN answers = {}
  BY DEF Init
<1> QED
  BY <1>1, InitTyped DEF Init, Control, ClosesInOrder, Drain

LEMMA NextClosesInOrder == Control /\ [Next]_vars => ClosesInOrder'
<1> SUFFICES ASSUME Control, [Next]_vars PROVE ClosesInOrder'
  OBVIOUS
<1> USE DEF Control, ClosesInOrder, Typed, TypeOK, NotifyOne
<1>1. ASSUME NEW l \in Launches, Launch(l) \/ AppSteps(l) PROVE ClosesInOrder'
  BY <1>1 DEF Launch, AppSteps, launchVars, refreshVars
<1>2. ASSUME NEW r \in Refreshes, RefreshAppstream(r) PROVE ClosesInOrder'
  BY <1>2 DEF RefreshAppstream, launchVars
<1>3. ASSUME NEW c \in Calls, Deliver(c) PROVE ClosesInOrder'
  BY <1>3 DEF Deliver, launchVars, refreshVars
<1>4. CASE LaunchNotify \/ CloseFlag \/ CloseNotify
  BY <1>4 DEF LaunchNotify, CloseFlag, CloseNotify, refreshVars
<1>5. CASE CloseRefreshes \/ CloseRefreshesDone \/ CloseJoin
  BY <1>5 DEF CloseRefreshes, CloseRefreshesDone, CloseJoin, launchVars, refreshVars
<1>6. CASE Launcher
  <2>1. UNCHANGED <<dart, stop, alive, refreshLog, refreshServed>>
    BY <1>6 DEF Launcher, LoopSleep, LoopTake, LaunchFails, LaunchSpawns, LaunchReapAsync,
                ProbeEnds, ProbeSleeps, ReplyInstance, ReplyEnd, LoopStop, LoopCancel,
                LoopExit, refreshVars
  <2>2. launcher # "exited"
    BY <1>6 DEF Launcher, LoopSleep, LoopTake, LaunchFails, LaunchSpawns, LaunchReapAsync,
                ProbeEnds, ProbeSleeps, ReplyInstance, ReplyEnd, LoopStop, LoopCancel,
                LoopExit
  <2> QED
    BY <2>1, <2>2
<1>7. ASSUME NEW how \in Refresh!Ways, NEW frame \in {"end", "notFound"},
             RefreshDone(how, frame)
      PROVE  ClosesInOrder'
  <2>1. UNCHANGED <<dart, stop, alive, launcher>>
    BY <1>7 DEF RefreshDone, launchVars
  <2>2. dart \notin {"joining", "closed"}
    BY <1>7, LenProperties DEF RefreshDone, Refresh!Answer
  <2> QED
    BY <2>1, <2>2
<1>8. CASE UNCHANGED vars
  BY <1>8 DEF vars, launchVars, refreshVars
<1> QED
  BY <1>1, <1>2, <1>3, <1>4, <1>5, <1>6, <1>7, <1>8 DEF Next, Close, Refresher

LEMMA NextDrain == Control /\ [Next]_vars => Drain'
<1> SUFFICES ASSUME Control, [Next]_vars PROVE Drain'
  OBVIOUS
<1> USE DEF Control, ClosesInOrder, Drain, Typed, TypeOK, NotifyOne
<1>1. ASSUME NEW l \in Launches, Launch(l) \/ AppSteps(l) PROVE Drain'
  BY <1>1 DEF Launch, AppSteps, launchVars
<1>2. ASSUME NEW r \in Refreshes, RefreshAppstream(r) PROVE Drain'
  BY <1>2 DEF RefreshAppstream, launchVars
<1>3. ASSUME NEW c \in Calls, Deliver(c) PROVE Drain'
  BY <1>3 DEF Deliver, launchVars
<1>4. CASE LaunchNotify \/ CloseFlag \/ CloseNotify
  BY <1>4 DEF LaunchNotify, CloseFlag, CloseNotify
<1>5. CASE CloseRefreshes \/ CloseRefreshesDone \/ CloseJoin
  BY <1>5 DEF CloseRefreshes, CloseRefreshesDone, CloseJoin, launchVars
<1>6. CASE LoopSleep \/ LoopTake \/ LaunchSpawns \/ LaunchReapAsync \/ ProbeEnds
             \/ ProbeSleeps \/ ReplyInstance \/ LoopStop \/ LoopExit
  BY <1>6 DEF LoopSleep, LoopTake, LaunchSpawns, LaunchReapAsync, ProbeEnds, ProbeSleeps,
              ReplyInstance, LoopStop, LoopExit
<1>7. ASSUME NEW frame \in {"notFound", "failed"}, LaunchFails(frame) \/ ReplyEnd
      PROVE  Drain'
  <2> DEFINE a == [item |-> current, how |-> "ran"]
  <2>1. a \in Replies /\ a.how # "cancelled" /\ answers \in Seq(Replies)
    BY <1>7 DEF LaunchFails, ReplyEnd, HoldsRequest, Working, Replies
  <2>2. answers' = Append(answers, a)
    BY <1>7 DEF LaunchFails, ReplyEnd
  <2>3. \A k \in DOMAIN answers' :
          answers'[k] = a \/ (k \in DOMAIN answers /\ answers'[k] = answers[k])
    BY <2>1, <2>2, AppendProperties, LenProperties
  <2>4. \A k \in DOMAIN answers : answers[k].how # "cancelled"
    BY <1>7 DEF LaunchFails, ReplyEnd
  <2>5. \A k \in DOMAIN answers' : answers'[k].how # "cancelled"
    BY <2>1, <2>3, <2>4
  <2>6. /\ launcher' = "checking" /\ pending' = pending /\ launcher # "cancelling"
    BY <1>7 DEF LaunchFails, ReplyEnd
  <2> QED
    BY <2>5, <2>6
<1>8. CASE LoopCancel
  BY <1>8, HeadTailProperties DEF LoopCancel
<1>9. CASE Refresher
  BY <1>9 DEF Refresher, RefreshDone, launchVars
<1>10. CASE UNCHANGED vars
  BY <1>10 DEF vars, launchVars
<1> QED
  BY <1>1, <1>2, <1>3, <1>4, <1>5, <1>6, <1>7, <1>8, <1>9, <1>10 DEF Next, Close, Launcher

LEMMA ControlInvariant == Safety => []Control
<1>1. Control /\ [Next]_vars => Control'
  BY NextTyped, NextClosesInOrder, NextDrain DEF Control
<1> QED
  BY <1>1, InitControl, PTL DEF Safety

\* When the destructor has dropped the installation, the launch thread has exited
\* and every refresh has been answered (~InstallationReader()).
THEOREM DroppedLast == Safety => []InstallationOutlivesThreads
<1>1. Control => InstallationOutlivesThreads
  BY DEF Control, ClosesInOrder, InstallationOutlivesThreads
<1> QED
  BY <1>1, ControlInvariant, PTL
-----------------------------------------------------------------------------
(***************************************************************************)
(* What launch() reports: where each launch is, told from what its port    *)
(* and its future hold.                                                    *)
(***************************************************************************)

Untouched(l) == mailbox[l] = <<>> /\ app[l] = "none" /\ l \notin instance

Distinct(q) == \A j, k \in DOMAIN q : q[j] = q[k] => j = k

\* What waits in a queue waits once, and nothing has happened to it.
Waits(q) ==
  /\ Distinct(q)
  /\ \A k \in DOMAIN q : q[k] # current /\ future[q[k]] = "pending" /\ Untouched(q[k])

NotBegun == \A l \in Launches : future[l] = "none" => Untouched(l) /\ l # current

\* The launch in hand has posted what the launch thread has got to.
InHand ==
  current # NoLaunch =>
    /\ future[current] = "pending"
    /\ launcher = "launching" => Untouched(current)
    /\ launcher # "launching" => app[current] # "none"
    /\ launcher \in {"probing", "replying", "ending"} => current \in reaper
    /\ launcher \in {"spawned", "probing", "replying"} =>
         mailbox[current] = <<>> /\ current \notin instance
    /\ launcher = "ending" => \/ mailbox[current] = <<"instance">>
                              \/ mailbox[current] = <<>> /\ current \in instance

\* A terminal frame is the last one, and says what has happened.
PostedIsTrue ==
  \A l \in Launches :
    /\ mailbox[l] \in {<<>>, <<"instance">>, <<"instance", "end">>, <<"end">>,
                       <<"failed">>, <<"notFound">>}
    /\ mailbox[l] = <<"instance">> => l = current
    /\ mailbox[l] \in {<<"instance", "end">>, <<"end">>} =>
         l # current /\ app[l] # "none" /\ l \in reaper
    /\ mailbox[l] = <<"end">> => l \in instance
    /\ mailbox[l] \in {<<"failed">>, <<"notFound">>} => l # current /\ app[l] = "none"

EndedIsOver ==
  \A l \in Launches :
    /\ future[l] \in {"ok", "notFound", "failed"} => l # current
    /\ future[l] = "ok" => app[l] # "none" /\ l \in reaper
    /\ future[l] \in {"notFound", "failed"} => app[l] = "none"

Reported ==
  Waits(queue) /\ Waits(pending) /\ NotBegun /\ InHand /\ PostedIsTrue /\ EndedIsOver
\* What the listener finds at the head of each mailbox, and leaves.
LEMMA Mailboxes ==
  /\ \A f \in Frames : Append(<<>>, f) = <<f>>
  /\ Append(<<"instance">>, "end") = <<"instance", "end">>
  /\ Head(<<"instance">>) = "instance" /\ Tail(<<"instance">>) = <<>>
  /\ Head(<<"instance", "end">>) = "instance" /\ Tail(<<"instance", "end">>) = <<"end">>
  /\ Head(<<"end">>) = "end" /\ Head(<<"failed">>) = "failed"
  /\ Head(<<"notFound">>) = "notFound"
<1>1. \A f \in Frames : Append(<<>>, f) = <<f>>
  OBVIOUS
<1>2. Append(<<"instance">>, "end") = <<"instance", "end">>
  <2> DEFINE s == Append(<<"instance">>, "end")
             t == <<"instance", "end">>
  <2>1. <<"instance">> \in Seq(Frames) /\ Len(<<"instance">>) = 1 /\ "end" \in Frames
    BY DEF Frames
  <2>2. s \in Seq(Frames) /\ Len(s) = 2 /\ s[1] = "instance" /\ s[2] = "end"
    BY <2>1, AppendProperties
  <2>3. t \in Seq(Frames) /\ Len(t) = 2 /\ t[1] = "instance" /\ t[2] = "end"
    BY DEF Frames
  <2> HIDE DEF s, t
  <2>4. s = t
    BY <2>2, <2>3, SeqEqual
  <2> QED
    BY <2>4 DEF s, t
<1>3. Tail(<<"instance">>) = <<>>
  OBVIOUS
<1>4. Tail(<<"instance", "end">>) = <<"end">>
  OBVIOUS
<1>5. /\ Head(<<"instance">>) = "instance" /\ Head(<<"instance", "end">>) = "instance"
      /\ Head(<<"end">>) = "end" /\ Head(<<"failed">>) = "failed"
      /\ Head(<<"notFound">>) = "notFound"
  OBVIOUS
<1> QED
  BY <1>1, <1>2, <1>3, <1>4, <1>5

LEMMA Different ==
  /\ <<>> \notin {<<"instance">>, <<"instance", "end">>, <<"end">>, <<"failed">>, <<"notFound">>}
  /\ <<"instance">> \notin {<<"instance", "end">>, <<"end">>, <<"failed">>, <<"notFound">>}
  /\ <<"instance", "end">> \notin {<<"end">>, <<"failed">>, <<"notFound">>}
  /\ <<"end">> \notin {<<"failed">>, <<"notFound">>}
  /\ <<"failed">> # <<"notFound">>
<1>1. \A f, g : <<f>> = <<g>> => f = g
  <2> SUFFICES ASSUME NEW f, NEW g, <<f>> = <<g>> PROVE f = g
    OBVIOUS
  <2>1. <<f>>[1] = f /\ <<g>>[1] = g
    OBVIOUS
  <2> QED
    BY <2>1
<1>2. /\ Len(<<"instance", "end">>) = 2 /\ Len(<<>>) = 0
      /\ \A f : Len(<<f>>) = 1
  OBVIOUS
<1>3. /\ Len(<<"instance">>) = 1 /\ Len(<<"end">>) = 1 /\ Len(<<"failed">>) = 1
      /\ Len(<<"notFound">>) = 1
  BY <1>2
<1>4. /\ <<"instance">> # <<"end">> /\ <<"instance">> # <<"failed">>
      /\ <<"instance">> # <<"notFound">> /\ <<"end">> # <<"failed">>
      /\ <<"end">> # <<"notFound">> /\ <<"failed">> # <<"notFound">>
  BY <1>1
<1> QED
  BY <1>2, <1>3, <1>4

LEMMA InitReported == Init => Reported
<1> SUFFICES ASSUME Init PROVE Reported
  OBVIOUS
<1>1. \A l \in Launches : mailbox[l] = <<>> /\ future[l] = "none" /\ app[l] = "none"
  BY DEF Init, Calls
<1>2. queue = <<>> /\ pending = <<>> /\ current = NoLaunch /\ instance = {}
  BY DEF Init
<1>3. Waits(queue) /\ Waits(pending)
  BY <1>2 DEF Waits, Distinct
<1> QED
  BY <1>1, <1>2, <1>3, Different
  DEF Reported, NotBegun, Untouched, InHand, PostedIsTrue, EndedIsOver
LEMMA QueueTyped ==
  ASSUME NEW q \in Seq(Launches)
  PROVE  Len(q) \in Nat /\ DOMAIN q = 1..Len(q) /\ \A k \in DOMAIN q : q[k] \in Launches
  BY LenProperties, ElementOfSeq

\* Refreshes, the isolate's other business and the probe leave all reports alone.
LEMMA StillReported ==
  ASSUME Typed, Typed', Reported,
         \A l \in Launches : /\ future'[l] = future[l] /\ mailbox'[l] = mailbox[l]
                             /\ app'[l] = "none" <=> app[l] = "none",
         UNCHANGED <<instance, queue, pending, current, reaper>>,
         \/ current = NoLaunch \/ launcher' = launcher
         \/ launcher = "probing" /\ launcher' = "replying"
  PROVE  Reported'
<1>1. \A q \in {queue, pending} : \A k \in DOMAIN q : q[k] \in Launches
  BY QueueTyped DEF Typed, TypeOK
<1>2. Waits(queue)' /\ Waits(pending)'
  BY <1>1 DEF Reported, Waits, Distinct, Untouched
<1>3. NotBegun' /\ PostedIsTrue' /\ EndedIsOver'
  BY DEF Reported, NotBegun, Untouched, PostedIsTrue, EndedIsOver
<1>4. InHand'
  BY DEF Typed, TypeOK, Reported, InHand, Untouched
<1> QED
  BY <1>2, <1>3, <1>4 DEF Reported

LEMMA DeliverReported ==
  ASSUME Control, Typed', Reported, NEW l \in Launches, Deliver(l)
  PROVE  Reported'
<1> USE DEF Control, Typed, TypeOK, HoldsRequest, Working
<1>1. /\ UNCHANGED <<queue, pending, current, reaper, launcher, app>>
      /\ future[l] = "pending" /\ mailbox[l] # <<>>
      /\ \A m \in Launches \ {l} : /\ future'[m] = future[m] /\ mailbox'[m] = mailbox[m]
                                   /\ m \in instance' <=> m \in instance
  BY DEF Deliver, launchVars, Calls
<1>2. \A q \in {queue, pending} : \A k \in DOMAIN q : q[k] \in Launches \ {l}
  BY <1>1, QueueTyped DEF Reported, Waits, Untouched
<1>3. Waits(queue)' /\ Waits(pending)'
  BY <1>1, <1>2 DEF Reported, Waits, Distinct, Untouched
<1>4. CASE mailbox[l] = <<"instance">>
  <2>1. l \in instance' /\ future'[l] = "pending" /\ mailbox'[l] = <<>>
    BY <1>1, <1>4, Mailboxes DEF Deliver, Calls
  <2>2. l = current /\ launcher = "ending"
    <3>1. l = current /\ current # NoLaunch /\ mailbox[current] # <<>>
      BY <1>4, Different DEF Reported, PostedIsTrue
    <3>2. launcher \in Working
      BY <3>1
    <3> QED
      BY <3>1, <3>2 DEF Reported, InHand, Untouched
  <2>3. NotBegun' /\ PostedIsTrue' /\ EndedIsOver'
    <3>1. NotBegun' /\ EndedIsOver'
      BY <1>1, <2>1 DEF Reported, NotBegun, Untouched, EndedIsOver
    <3>2. PostedIsTrue'
      BY <1>1, <2>1, Different, ZenonT(40) DEF Reported, PostedIsTrue
    <3> QED
      BY <3>1, <3>2
  <2>4. InHand'
    BY <1>1, <2>1, <2>2 DEF Reported, InHand
  <2> QED
    BY <1>3, <2>3, <2>4 DEF Reported
<1>5. CASE mailbox[l] = <<"instance", "end">>
  <2>1. l \in instance' /\ future'[l] = "pending" /\ mailbox'[l] = <<"end">>
    BY <1>1, <1>5, Mailboxes DEF Deliver, Calls
  <2>2. l # current /\ app[l] # "none" /\ l \in reaper
    BY <1>5 DEF Reported, PostedIsTrue
  <2>3. NotBegun' /\ EndedIsOver' /\ InHand'
    BY <1>1, <2>1, <2>2 DEF Reported, NotBegun, Untouched, EndedIsOver, InHand
  <2>4. PostedIsTrue'
    BY <1>1, <2>1, <2>2, Different, ZenonT(40) DEF Reported, PostedIsTrue
  <2> QED
    BY <1>3, <2>3, <2>4 DEF Reported
<1>6. CASE mailbox[l] \in {<<"end">>, <<"failed">>, <<"notFound">>}
  <2>1. /\ l # current /\ mailbox'[l] = <<>>
        /\ mailbox[l] = <<"end">> => l \in instance
    BY <1>1, <1>6, Mailboxes, Different DEF Reported, PostedIsTrue, Deliver, Calls
  <2>2. /\ mailbox[l] = <<"end">> => future'[l] = "ok"
        /\ mailbox[l] = <<"failed">> => future'[l] = "failed"
        /\ mailbox[l] = <<"notFound">> => future'[l] = "notFound"
    BY <1>1, <1>6, <2>1, Mailboxes DEF Deliver, Calls
  <2>3. future'[l] \in {"ok", "notFound", "failed"}
    BY <1>6, <2>2
  <2>4. NotBegun' /\ InHand'
    <3>1. NotBegun'
      BY <1>1, <2>1, <2>3 DEF Reported, NotBegun, Untouched
    <3>2. current # NoLaunch => current \in Launches \ {l}
      BY <2>1
    <3>3. InHand'
      BY <1>1, <3>2 DEF Reported, Untouched, InHand
    <3> QED
      BY <3>1, <3>3
  <2>5. PostedIsTrue'
    BY <1>1, <2>1, Different, ZenonT(40) DEF Reported, PostedIsTrue
  <2>6. EndedIsOver'
    BY <1>1, <1>6, <2>1, <2>2, Different DEF Reported, PostedIsTrue, EndedIsOver
  <2> QED
    BY <1>3, <2>4, <2>5, <2>6 DEF Reported
<1> QED
  BY <1>1, <1>4, <1>5, <1>6 DEF Reported, PostedIsTrue

LEMMA LaunchReported ==
  ASSUME Control, Typed', Reported, NEW l \in Launches, Launch(l)
  PROVE  Reported'
<1> USE DEF Control, Typed, TypeOK
<1>1. /\ UNCHANGED <<mailbox, instance, pending, current, reaper, launcher, app>>
      /\ future[l] = "none" /\ future'[l] = "pending"
      /\ \A m \in Launches \ {l} : future'[m] = future[m]
      /\ queue' = Append(queue, l)
  BY DEF Launch, Calls
<1>2. Untouched(l) /\ l # current
  BY <1>1 DEF Reported, NotBegun
<1>3. /\ \A k \in DOMAIN queue : queue[k] \in Launches \ {l}
      /\ \A k \in DOMAIN pending : pending[k] \in Launches \ {l}
  BY <1>1, QueueTyped DEF Reported, Waits
<1>4. Waits(pending)'
  BY <1>1, <1>3 DEF Reported, Waits, Distinct, Untouched
<1>5. /\ Len(queue) \in Nat /\ DOMAIN queue = 1..Len(queue)
      /\ DOMAIN queue' = 1..(Len(queue) + 1)
      /\ \A k \in DOMAIN queue : queue'[k] = queue[k]
      /\ queue'[Len(queue) + 1] = l
  BY <1>1, QueueTyped, AppendProperties
<1>6. Waits(queue)'
  <2>1. Distinct(queue)'
    <3> SUFFICES ASSUME NEW j \in DOMAIN queue', NEW k \in DOMAIN queue',
                        queue'[j] = queue'[k]
                 PROVE  j = k
      BY DEF Distinct
    <3>1. /\ j \in DOMAIN queue \/ j = Len(queue) + 1
          /\ k \in DOMAIN queue \/ k = Len(queue) + 1
      BY <1>5
    <3> QED
      BY <1>3, <1>5, <3>1 DEF Reported, Waits, Distinct
  <2>2. ASSUME NEW k \in DOMAIN queue'
        PROVE  queue'[k] # current /\ future'[queue'[k]] = "pending" /\ Untouched(queue'[k])
    <3>1. k \in DOMAIN queue \/ queue'[k] = l
      BY <1>5
    <3> QED
      BY <1>1, <1>2, <1>3, <1>5, <3>1 DEF Reported, Waits
  <2> QED
    BY <1>1, <2>1, <2>2 DEF Waits, Untouched
<1>7. NotBegun' /\ PostedIsTrue' /\ EndedIsOver' /\ InHand'
  BY <1>1, <1>2 DEF Reported, NotBegun, Untouched, PostedIsTrue, EndedIsOver, InHand
<1> QED
  BY <1>4, <1>6, <1>7 DEF Reported
LEMMA TakeReported ==
  ASSUME Control, Typed', Reported, LoopTake
  PROVE  Reported'
<1> USE DEF Control, Typed, TypeOK
<1>1. /\ UNCHANGED <<mailbox, future, instance, pending, reaper, app>>
      /\ queue # <<>> /\ queue' = Tail(queue)
      /\ current' = Head(queue) /\ launcher' = "launching"
      /\ current = NoLaunch /\ pending = <<>>
  BY DEF LoopTake, HoldsRequest, Working, Drain
<1>2. /\ \A k \in DOMAIN queue : queue[k] \in Launches
      /\ DOMAIN queue = 1..Len(queue) /\ Len(queue) \in Nat \ {0}
      /\ Head(queue) = queue[1]
  BY <1>1, QueueTyped, EmptySeq
<1>3. /\ DOMAIN queue' = 1..(Len(queue) - 1)
      /\ \A k \in DOMAIN queue' : queue'[k] = queue[k + 1]
  BY <1>1, <1>2, HeadTailProperties, LenProperties
<1>4. /\ current' \in Launches
      /\ future[current'] = "pending" /\ Untouched(current')
      /\ \A k \in DOMAIN queue' : queue'[k] # current'
  <2>1. 1 \in DOMAIN queue /\ current' = queue[1]
    BY <1>1, <1>2
  <2>2. \A k \in DOMAIN queue' : k + 1 \in DOMAIN queue /\ k + 1 # 1
    BY <1>2, <1>3
  <2>3. Distinct(queue) /\ future[queue[1]] = "pending" /\ Untouched(queue[1])
    BY <2>1 DEF Reported, Waits
  <2>4. \A k \in DOMAIN queue' : queue[k + 1] # queue[1]
    BY <2>1, <2>2, <2>3 DEF Distinct
  <2> QED
    BY <1>2, <1>3, <2>1, <2>3, <2>4
<1>5. Waits(queue)'
  <2>1. \A k \in DOMAIN queue' : k + 1 \in DOMAIN queue
    BY <1>2, <1>3
  <2>2. ASSUME NEW j \in DOMAIN queue', NEW k \in DOMAIN queue', queue'[j] = queue'[k]
        PROVE  j = k
    <3>1. j + 1 = k + 1
      BY <1>3, <2>1, <2>2 DEF Reported, Waits, Distinct
    <3> QED
      BY <1>2, <1>3, <3>1
  <2>3. \A k \in DOMAIN queue' : future[queue'[k]] = "pending" /\ Untouched(queue'[k])
    BY <1>3, <2>1 DEF Reported, Waits
  <2> QED
    BY <1>1, <1>4, <2>2, <2>3 DEF Waits, Distinct, Untouched
<1>6. Waits(pending)'
  BY <1>1 DEF Waits, Distinct
<1>7. NotBegun' /\ EndedIsOver'
  BY <1>1, <1>4 DEF Reported, NotBegun, Untouched, EndedIsOver
<1>8. PostedIsTrue'
  BY <1>1, <1>4, Different DEF Reported, PostedIsTrue, Untouched
<1>9. InHand'
  BY <1>1, <1>4 DEF InHand, Untouched
<1> QED
  BY <1>5, <1>6, <1>7, <1>8, <1>9 DEF Reported

\* What the launch thread posts for the launch it has in hand.
LEMMA HandReported ==
  ASSUME Control, Typed', Reported,
         \/ \E frame \in {"notFound", "failed"} : LaunchFails(frame)
         \/ LaunchSpawns \/ LaunchReapAsync \/ ReplyInstance \/ ReplyEnd
  PROVE  Reported'
<1> USE DEF Control, Typed, TypeOK
<1> DEFINE l == current
<1>1. /\ l \in Launches /\ l # NoLaunch
      /\ UNCHANGED <<future, instance, queue, pending>>
      /\ current' \in {l, NoLaunch}
      /\ \A m \in Launches \ {l} : /\ mailbox'[m] = mailbox[m] /\ app'[m] = app[m]
                                   /\ m \in reaper' <=> m \in reaper
  BY DEF LaunchFails, LaunchSpawns, LaunchReapAsync, ReplyInstance, ReplyEnd, Post,
         HoldsRequest, Working, Calls
<1>2. /\ \A k \in DOMAIN queue : queue[k] \in Launches \ {l}
      /\ \A k \in DOMAIN pending : pending[k] \in Launches \ {l}
  BY QueueTyped DEF Reported, Waits
<1>3. Waits(queue)' /\ Waits(pending)'
  BY <1>1, <1>2 DEF Reported, Waits, Distinct, Untouched
<1>4. future[l] = "pending"
  BY <1>1 DEF Reported, InHand
<1>5. NotBegun'
  BY <1>1, <1>4 DEF Reported, NotBegun, Untouched
<1>7. EndedIsOver'
  BY <1>1, <1>4 DEF Reported, EndedIsOver
<1>8. \A m \in Launches \ {l} : mailbox[m] # <<"instance">>
  BY <1>1 DEF Reported, PostedIsTrue
<1>9. ASSUME NEW frame \in {"notFound", "failed"}, LaunchFails(frame) PROVE Reported'
  <2>1. Untouched(l)
    BY <1>1, <1>9 DEF LaunchFails, Reported, InHand
  <2>2. mailbox'[l] = <<frame>> /\ app'[l] = "none" /\ current' = NoLaunch
    BY <1>1, <1>9, <2>1, Mailboxes DEF LaunchFails, Post, Untouched, Frames, Calls
  <2>3. PostedIsTrue'
    BY <1>1, <1>8, <2>2, Different, ZenonT(40) DEF Reported, PostedIsTrue
  <2> QED
    BY <1>3, <1>5, <1>7, <2>2, <2>3 DEF Reported, InHand
<1>10. CASE LaunchSpawns
  <2>1. /\ Untouched(l) /\ mailbox'[l] = <<>> /\ app'[l] = "spawned"
        /\ current' = l /\ launcher' = "spawned"
    BY <1>1, <1>10 DEF LaunchSpawns, Reported, InHand, Untouched
  <2>2. PostedIsTrue'
    BY <1>1, <1>8, <2>1, Different, ZenonT(40) DEF Reported, PostedIsTrue
  <2>3. InHand'
    BY <1>1, <1>4, <2>1 DEF InHand, Untouched
  <2> QED
    BY <1>3, <1>5, <1>7, <2>2, <2>3 DEF Reported
<1>11. CASE LaunchReapAsync
  <2>1. /\ mailbox[l] = <<>> /\ l \notin instance /\ app[l] # "none"
        /\ mailbox'[l] = <<>> /\ app'[l] = app[l]
        /\ current' = l /\ launcher' = "probing" /\ l \in reaper'
    BY <1>1, <1>11 DEF LaunchReapAsync, Reported, InHand
  <2>2. PostedIsTrue'
    BY <1>1, <1>8, <2>1, Different, ZenonT(40) DEF Reported, PostedIsTrue
  <2>3. InHand'
    BY <1>1, <1>4, <2>1 DEF InHand
  <2> QED
    BY <1>3, <1>5, <1>7, <2>2, <2>3 DEF Reported
<1>12. CASE ReplyInstance
  <2>1. mailbox[l] = <<>> /\ app[l] # "none" /\ l \in reaper
    BY <1>1, <1>12 DEF ReplyInstance, Reported, InHand
  <2>2. /\ mailbox'[l] = <<"instance">> /\ app'[l] = app[l]
        /\ current' = l /\ launcher' = "ending" /\ l \in reaper'
    BY <1>1, <1>12, <2>1, Mailboxes DEF ReplyInstance, Post, Frames, Calls
  <2>3. PostedIsTrue'
    BY <1>1, <1>8, <2>1, <2>2, Different, ZenonT(40) DEF Reported, PostedIsTrue
  <2>4. InHand'
    BY <1>1, <1>4, <2>1, <2>2 DEF InHand
  <2> QED
    BY <1>3, <1>5, <1>7, <2>3, <2>4 DEF Reported
<1>13. CASE ReplyEnd
  <2>1. /\ mailbox[l] = <<"instance">> \/ (mailbox[l] = <<>> /\ l \in instance)
        /\ app[l] # "none" /\ l \in reaper
    <3>1. launcher = "ending"
      BY <1>13 DEF ReplyEnd
    <3> QED
      BY <1>1, <3>1 DEF Reported, InHand
  <2>2. /\ mailbox'[l] = <<"instance", "end">> \/ (mailbox'[l] = <<"end">> /\ l \in instance)
        /\ app'[l] = app[l] /\ current' = NoLaunch /\ l \in reaper'
    <3>1. mailbox'[l] = Append(mailbox[l], "end") /\ UNCHANGED <<app, reaper>>
          /\ current' = NoLaunch
      BY <1>1, <1>13 DEF ReplyEnd, Post, Calls
    <3>2. Append(<<>>, "end") = <<"end">>
      BY Mailboxes DEF Frames
    <3> QED
      BY <2>1, <3>1, <3>2, Mailboxes
  <2>3. PostedIsTrue'
    BY <1>1, <1>8, <2>1, <2>2, Different, ZenonT(40) DEF Reported, PostedIsTrue
  <2> QED
    BY <1>3, <1>5, <1>7, <2>2, <2>3 DEF Reported, InHand
<1> QED
  BY <1>9, <1>10, <1>11, <1>12, <1>13

LEMMA StopReported ==
  ASSUME Control, Typed', Reported, LoopStop
  PROVE  Reported'
<1>1. /\ UNCHANGED <<mailbox, future, instance, reaper, app, current>>
      /\ queue' = <<>> /\ pending' = queue
      /\ current = NoLaunch
  BY DEF LoopStop, Control, Typed, HoldsRequest, Working
<1>2. Waits(queue)' /\ Waits(pending)'
  BY <1>1 DEF Reported, Waits, Distinct, Untouched
<1> QED
  BY <1>1, <1>2
  DEF Reported, NotBegun, Untouched, InHand, PostedIsTrue, EndedIsOver

LEMMA CancelReported ==
  ASSUME Control, Typed', Reported, LoopCancel
  PROVE  Reported'
<1> USE DEF Control, Typed, TypeOK
<1> DEFINE l == Head(pending)
<1>1. /\ UNCHANGED <<future, instance, queue, reaper, app, current>>
      /\ pending # <<>> /\ pending' = Tail(pending)
      /\ current = NoLaunch /\ queue = <<>>
      /\ Post(l, "failed")
  BY DEF LoopCancel, HoldsRequest, Working, Drain
<1>2. /\ \A k \in DOMAIN pending : pending[k] \in Launches
      /\ DOMAIN pending = 1..Len(pending) /\ Len(pending) \in Nat \ {0}
      /\ l = pending[1] /\ 1 \in DOMAIN pending
  BY <1>1, QueueTyped, EmptySeq
<1>3. /\ DOMAIN pending' = 1..(Len(pending) - 1)
      /\ \A k \in DOMAIN pending' : pending'[k] = pending[k + 1]
  BY <1>1, <1>2, HeadTailProperties, LenProperties
<1>4. /\ l \in Launches /\ l # NoLaunch
      /\ future[l] = "pending" /\ Untouched(l)
  <2>1. future[pending[1]] = "pending" /\ Untouched(pending[1])
    BY <1>2 DEF Reported, Waits
  <2> QED
    BY <1>2, <2>1 DEF Untouched
<1>5. /\ mailbox'[l] = <<"failed">>
      /\ \A m \in Launches \ {l} : mailbox'[m] = mailbox[m]
  BY <1>1, <1>4, Mailboxes DEF Post, Untouched, Frames, Calls
<1>6. Waits(pending)'
  <2>1. \A k \in DOMAIN pending' : k + 1 \in DOMAIN pending /\ k + 1 # 1
    BY <1>2, <1>3
  <2>2. \A k \in DOMAIN pending' : pending'[k] \in Launches \ {l}
    <3>1. \A k \in DOMAIN pending' : pending[k + 1] # pending[1]
      BY <1>2, <2>1 DEF Reported, Waits, Distinct
    <3> QED
      BY <1>2, <1>3, <2>1, <3>1
  <2>3. ASSUME NEW j \in DOMAIN pending', NEW k \in DOMAIN pending', pending'[j] = pending'[k]
        PROVE  j = k
    <3>1. j + 1 = k + 1
      BY <1>3, <2>1, <2>3 DEF Reported, Waits, Distinct
    <3> QED
      BY <1>2, <1>3, <3>1
  <2>4. \A k \in DOMAIN pending' : /\ pending'[k] # current /\ future[pending'[k]] = "pending"
                                   /\ Untouched(pending'[k])
    BY <1>3, <2>1 DEF Reported, Waits
  <2> QED
    BY <1>1, <1>5, <2>2, <2>3, <2>4 DEF Waits, Distinct, Untouched
<1>7. Waits(queue)'
  BY <1>1 DEF Waits, Distinct
<1>8. NotBegun' /\ EndedIsOver' /\ InHand'
  BY <1>1, <1>4, <1>5 DEF Reported, NotBegun, Untouched, EndedIsOver, InHand
<1>9. PostedIsTrue'
  BY <1>1, <1>4, <1>5, Different, ZenonT(40) DEF Reported, PostedIsTrue, Untouched
<1> QED
  BY <1>6, <1>7, <1>8, <1>9 DEF Reported

LEMMA NextReported == Control /\ Reported /\ [Next]_vars => Reported'
<1> SUFFICES ASSUME Control, Reported, [Next]_vars PROVE Reported'
  OBVIOUS
<1>t. Typed /\ Typed'
  BY NextTyped DEF Control
<1>1. ASSUME NEW l \in Launches, AppSteps(l) PROVE Reported'
  BY <1>1, <1>t, StillReported DEF AppSteps, launchVars, Typed, TypeOK
<1>2. ASSUME NEW r \in Refreshes, RefreshAppstream(r) PROVE Reported'
  <2>1. \A l \in Launches : future'[l] = future[l]
    BY <1>2, <1>t DEF RefreshAppstream, Typed, TypeOK, Calls
  <2> QED
    BY <1>2, <1>t, <2>1, StillReported DEF RefreshAppstream, launchVars
<1>3. ASSUME NEW c \in Calls, Deliver(c) PROVE Reported'
  <2>1. CASE c \in Launches
    BY <1>3, <1>t, <2>1, DeliverReported
  <2>2. CASE c \in Refreshes
    <3>1. \A l \in Launches : future'[l] = future[l] /\ mailbox'[l] = mailbox[l]
      BY <1>3, <1>t, <2>2 DEF Deliver, Typed, TypeOK, Calls
    <3>2. Head(mailbox[c]) # "instance"
      BY <1>3, <1>t, <2>2, HeadTailProperties DEF Deliver, Typed, RefreshFrames
    <3>3. UNCHANGED <<instance, app, queue, pending, current, reaper, launcher>>
      BY <1>3, <3>2 DEF Deliver, launchVars
    <3> QED
      BY <1>t, <3>1, <3>3, StillReported
  <2> QED
    BY <2>1, <2>2 DEF Calls
<1>4. CASE LaunchNotify \/ CloseFlag \/ CloseNotify \/ LoopSleep \/ LoopExit
  <2>1. current = NoLaunch \/ launcher' = launcher
    BY <1>4, <1>t DEF LaunchNotify, CloseFlag, CloseNotify, LoopSleep, LoopExit, NotifyOne,
                      Typed, HoldsRequest, Working
  <2>2. UNCHANGED <<future, mailbox, app, instance, queue, pending, current, reaper>>
    BY <1>4 DEF LaunchNotify, CloseFlag, CloseNotify, LoopSleep, LoopExit
  <2> QED
    BY <1>t, <2>1, <2>2, StillReported
<1>5. CASE CloseRefreshes \/ CloseRefreshesDone \/ CloseJoin
  BY <1>5, <1>t, StillReported
  DEF CloseRefreshes, CloseRefreshesDone, CloseJoin, launchVars
<1>6. CASE ProbeEnds \/ ProbeSleeps
  BY <1>6, <1>t, StillReported DEF ProbeEnds, ProbeSleeps
<1>7. ASSUME NEW how \in Refresh!Ways, NEW frame \in {"end", "notFound"},
             RefreshDone(how, frame)
      PROVE  Reported'
  <2> DEFINE r == refreshLog[Len(refreshServed) + 1]
  <2>1. Len(refreshServed) + 1 \in 1..Len(refreshLog)
    BY <1>7, <1>t, LenProperties DEF RefreshDone, Refresh!Answer, Typed, TypeOK
  <2>2. r \in Refreshes
    BY <1>t, <2>1, ElementOfSeq DEF Typed, TypeOK
  <2>3. \A l \in Launches : mailbox'[l] = mailbox[l]
    BY <1>7, <1>t, <2>2 DEF RefreshDone, Post, Typed, TypeOK, Calls
  <2>4. UNCHANGED <<future, instance, app, queue, pending, current, reaper, launcher>>
    BY <1>7 DEF RefreshDone, launchVars
  <2> QED
    BY <1>t, <2>3, <2>4, StillReported
<1>8. CASE UNCHANGED vars
  BY <1>8, <1>t, StillReported DEF vars, launchVars
<1>9. CASE Next
  BY <1>1, <1>2, <1>3, <1>4, <1>5, <1>6, <1>7, <1>9, <1>t, LaunchReported, TakeReported,
     HandReported, StopReported, CancelReported DEF Next, Close, Launcher, Refresher
<1> QED
  BY <1>8, <1>9

\* What launch() reports is what has happened, whatever close() interrupts: "ok"
\* for a launch that spawned an app whose process is reaped, an error for one that
\* spawned none (launch_impl(), the cancelled backlog, the listener in Dart).
THEOREM ReportsAreFaithful == Safety => []LaunchReportFaithful
<1>1. Control /\ Reported /\ [Next]_vars => Reported'
  BY NextReported
<1>2. Reported => LaunchReportFaithful
  BY DEF Reported, EndedIsOver, LaunchReportFaithful
<1> QED
  BY <1>1, <1>2, InitReported, ControlInvariant, PTL DEF Safety
-----------------------------------------------------------------------------
(***************************************************************************)
(* The launch loop implements FifoService.  LaunchLog, the launches taken, *)
(* is changed by launch() only, at its end.                                *)
(***************************************************************************)

ItemsOf(s) == [k \in DOMAIN s |-> s[k].item]
Hand == IF current = NoLaunch THEN <<>> ELSE <<current>>

LEMMA LogIs == LaunchLog = ((ItemsOf(answers) \o Hand) \o pending) \o queue
  BY DEF LaunchLog, ItemsOf, Hand

LEMMA LogIsNext ==
  LaunchLog' = ((ItemsOf(answers') \o Hand') \o pending') \o queue'
  BY DEF LaunchLog, ItemsOf, Hand

LEMMA ItemsOfTyped ==
  ASSUME NEW s \in Seq(Replies)
  PROVE  /\ ItemsOf(s) \in Seq(Launches)
         /\ Len(ItemsOf(s)) = Len(s)
         /\ \A k \in 1..Len(s) : ItemsOf(s)[k] = s[k].item
<1> DEFINE n == Len(s)
<1>1. n \in Nat /\ DOMAIN s = 1..n /\ s \in [1..n -> Replies]
  BY LenProperties
<1>2. ItemsOf(s) = [k \in 1..n |-> s[k].item]
  BY <1>1 DEF ItemsOf
<1>3. \A k \in 1..n : s[k].item \in Launches
  BY <1>1 DEF Replies
<1>4. ItemsOf(s) \in [1..n -> Launches]
  BY <1>2, <1>3
<1>5. ItemsOf(s) \in Seq(Launches)
  BY <1>1, <1>4, SeqDef
<1>6. Len(ItemsOf(s)) = n
  BY <1>1, <1>4, <1>5, LenProperties
<1> QED
  BY <1>2, <1>5, <1>6

LEMMA ItemsOfAppend ==
  ASSUME NEW s \in Seq(Replies), NEW a \in Replies
  PROVE  ItemsOf(Append(s, a)) = ItemsOf(s) \o <<a.item>>
<1> DEFINE left  == ItemsOf(Append(s, a))
           right == Append(ItemsOf(s), a.item)
<1>1. a.item \in Launches
  BY DEF Replies
<1>2. /\ Append(s, a) \in Seq(Replies) /\ Len(Append(s, a)) = Len(s) + 1
      /\ Len(s) \in Nat
      /\ ItemsOf(s) \in Seq(Launches) /\ Len(ItemsOf(s)) = Len(s)
  BY AppendProperties, LenProperties, ItemsOfTyped
<1>3. left \in Seq(Launches) /\ Len(left) = Len(s) + 1
  BY <1>2, ItemsOfTyped
<1>4. right \in Seq(Launches) /\ Len(right) = Len(s) + 1
  BY <1>1, <1>2, AppendProperties
<1>5. ASSUME NEW k \in 1..Len(left) PROVE left[k] = right[k]
  <2>1. left[k] = Append(s, a)[k].item
    BY <1>2, <1>3, ItemsOfTyped
  <2>2. CASE k = Len(s) + 1
    <3>1. Append(s, a)[k] = a /\ right[k] = a.item
      BY <1>1, <1>2, <2>2, AppendProperties
    <3> QED
      BY <2>1, <3>1
  <2>3. CASE k \in 1..Len(s)
    <3>1. Append(s, a)[k] = s[k] /\ right[k] = ItemsOf(s)[k]
      BY <1>1, <1>2, <2>3, AppendProperties
    <3>2. ItemsOf(s)[k] = s[k].item
      BY <2>3, ItemsOfTyped
    <3> QED
      BY <2>1, <3>1, <3>2
  <2> QED
    BY <1>2, <1>3, <2>2, <2>3
<1>6. left = right
  BY <1>3, <1>4, <1>5, SeqEqual
<1> QED
  BY <1>1, <1>2, <1>6, AppendIsConcat

LEMMA HeadThenTail ==
  ASSUME NEW q \in Seq(Launches), q # <<>>
  PROVE  /\ Head(q) \in Launches
         /\ Tail(q) \in Seq(Launches)
         /\ <<Head(q)>> \in Seq(Launches)
         /\ <<Head(q)>> \o Tail(q) = q
<1>1. /\ Head(q) \in Launches
      /\ Tail(q) \in Seq(Launches)
      /\ Len(q) \in Nat /\ Len(Tail(q)) = Len(q) - 1
      /\ \A k \in 1..(Len(q) - 1) : Tail(q)[k] = q[k + 1]
  BY HeadTailProperties, LenProperties
<1>2. <<Head(q)>> \in Seq(Launches) /\ Len(<<Head(q)>>) = 1
  BY <1>1
<1> DEFINE whole == <<Head(q)>> \o Tail(q)
<1>3. whole \in Seq(Launches) /\ Len(whole) = Len(q)
  BY <1>1, <1>2, ConcatProperties
<1>4. ASSUME NEW k \in 1..Len(q) PROVE whole[k] = q[k]
  BY <1>1, <1>2, ConcatProperties
<1>5. whole = q
  BY <1>3, <1>4, SeqEqual
<1> QED
  BY <1>1, <1>2, <1>5

LEMMA PartsTyped ==
  ASSUME Typed
  PROVE  /\ ItemsOf(answers) \in Seq(Launches) /\ Hand \in Seq(Launches)
         /\ pending \in Seq(Launches) /\ queue \in Seq(Launches)
         /\ answers \in Seq(Replies)
<1>1. answers \in Seq(Replies)
  BY DEF Typed, TypeOK, Replies
<1>2. Hand \in Seq(Launches)
  BY EmptySeq DEF Typed, TypeOK, Hand
<1> QED
  BY <1>1, <1>2, ItemsOfTyped DEF Typed, TypeOK

\* The k-th answer is to the k-th launch taken.
LEMMA NextUnanswered ==
  ASSUME Typed, NEW l \in Launches, NEW rest \in Seq(Launches),
         LaunchLog = (ItemsOf(answers) \o <<l>>) \o rest
  PROVE  Len(answers) < Len(LaunchLog) /\ LaunchLog[Len(answers) + 1] = l
<1> DEFINE front == ItemsOf(answers) \o <<l>>
           n     == Len(answers)
<1>1. /\ ItemsOf(answers) \in Seq(Launches) /\ Len(ItemsOf(answers)) = n /\ n \in Nat
      /\ Len(rest) \in Nat
  BY PartsTyped, ItemsOfTyped, LenProperties
<1>2. <<l>> \in Seq(Launches) /\ Len(<<l>>) = 1 /\ <<l>>[1] = l
  OBVIOUS
<1>3. front \in Seq(Launches) /\ Len(front) = n + 1 /\ front[n + 1] = l
  BY <1>1, <1>2, ConcatProperties
<1> HIDE DEF front
<1>4. LaunchLog = front \o rest
  BY DEF front
<1>5. /\ Len(front \o rest) = Len(front) + Len(rest)
      /\ \A k \in 1..(Len(front) + Len(rest)) :
           (front \o rest)[k] = IF k <= Len(front) THEN front[k] ELSE rest[k - Len(front)]
  BY <1>3, ConcatProperties
<1>6. n + 1 \in 1..(Len(front) + Len(rest)) /\ n + 1 <= Len(front)
  BY <1>1, <1>3
<1>7. (front \o rest)[n + 1] = l
  BY <1>3, <1>5, <1>6
<1>8. n < Len(front \o rest)
  BY <1>1, <1>3, <1>5
<1> QED
  BY <1>4, <1>7, <1>8

LEMMA TakeKeepsLog ==
  ASSUME Control, LoopTake
  PROVE  LaunchLog' = LaunchLog
<1> DEFINE done == ItemsOf(answers)
<1>1. done \in Seq(Launches) /\ queue \in Seq(Launches) /\ queue # <<>>
  BY PartsTyped DEF Control, LoopTake
<1>2. /\ Head(queue) \in Launches /\ Tail(queue) \in Seq(Launches)
      /\ <<Head(queue)>> \in Seq(Launches) /\ <<Head(queue)>> \o Tail(queue) = queue
  BY <1>1, HeadThenTail
<1>3. /\ pending = <<>> /\ pending' = <<>> /\ current = NoLaunch
      /\ current' = Head(queue) /\ queue' = Tail(queue) /\ answers' = answers
  BY DEF Control, Drain, Typed, HoldsRequest, Working, LoopTake
<1>4. Hand = <<>> /\ Hand' = <<Head(queue)>>
  BY <1>2, <1>3 DEF Hand
<1>5. LaunchLog = done \o queue
  BY <1>1, <1>3, <1>4, LogIs, ConcatEmptySeq
<1>6. done \o <<Head(queue)>> \in Seq(Launches)
  BY <1>1, <1>2, ConcatProperties
<1>7. LaunchLog' = (done \o <<Head(queue)>>) \o Tail(queue)
  BY <1>3, <1>4, <1>6, LogIsNext, ConcatEmptySeq
<1> QED
  BY <1>1, <1>2, <1>5, <1>7, ConcatAssociative

LEMMA StopKeepsLog ==
  ASSUME Control, LoopStop
  PROVE  LaunchLog' = LaunchLog
<1> DEFINE front == ItemsOf(answers) \o Hand
<1>1. front \in Seq(Launches) /\ queue \in Seq(Launches)
  BY PartsTyped, ConcatProperties DEF Control
<1>2. pending = <<>> /\ pending' = queue /\ queue' = <<>> /\ answers' = answers /\ Hand' = Hand
  BY DEF Control, Drain, LoopStop, Hand
<1>3. front \o queue \in Seq(Launches)
  BY <1>1, ConcatProperties
<1>4. LaunchLog = front \o queue
  BY <1>1, <1>2, LogIs, ConcatEmptySeq
<1>5. LaunchLog' = (front \o queue) \o <<>>
  BY <1>2, LogIsNext
<1> QED
  BY <1>3, <1>4, <1>5, ConcatEmptySeq

\* An answer to the launch in hand is a step of the service.
LEMMA RanIsAnswer ==
  ASSUME Control, ReplyEnd \/ \E frame \in {"notFound", "failed"} : LaunchFails(frame)
  PROVE  LaunchService!Answer("ran")
<1> DEFINE done == ItemsOf(answers)
           a    == [item |-> current, how |-> "ran"]
<1>1. /\ current \in Launches /\ current # NoLaunch
      /\ launcher \notin {"cancelling", "exited"}
      /\ current' = NoLaunch /\ answers' = Append(answers, a)
      /\ UNCHANGED <<stop, queue, pending>>
  BY DEF ReplyEnd, LaunchFails, Control, Typed, TypeOK, HoldsRequest, Working
<1>2. /\ done \in Seq(Launches) /\ queue \in Seq(Launches) /\ answers \in Seq(Replies)
      /\ <<current>> \in Seq(Launches) /\ done \o <<current>> \in Seq(Launches)
  BY <1>1, PartsTyped, ConcatProperties DEF Control
<1>3. a \in Replies /\ a.item = current
  BY <1>1 DEF Replies
<1>4. ItemsOf(answers') = done \o <<current>>
  BY <1>1, <1>2, <1>3, ItemsOfAppend
<1>5. pending = <<>> /\ Hand = <<current>> /\ Hand' = <<>>
  BY <1>1 DEF Control, Drain, Hand
<1>6. LaunchLog = (done \o <<current>>) \o queue
  BY <1>2, <1>5, LogIs, ConcatEmptySeq
<1>7. LaunchLog' = (done \o <<current>>) \o queue
  BY <1>1, <1>2, <1>4, <1>5, LogIsNext, ConcatEmptySeq
<1>8. Len(answers) < Len(LaunchLog) /\ LaunchLog[Len(answers) + 1] = current
  BY <1>1, <1>2, <1>6, NextUnanswered DEF Control
<1>9. ~LaunchService!Cancelling
  BY <1>1 DEF LaunchService!Cancelling, Control, Drain
<1> QED
  BY <1>1, <1>6, <1>7, <1>8, <1>9 DEF LaunchService!Answer

LEMMA CancelIsAnswer ==
  ASSUME Control, LoopCancel
  PROVE  LaunchService!Answer("cancelled")
<1> DEFINE done == ItemsOf(answers)
           l    == Head(pending)
           a    == [item |-> l, how |-> "cancelled"]
<1>1. /\ pending # <<>> /\ queue = <<>> /\ queue' = <<>> /\ stop
      /\ pending' = Tail(pending) /\ answers' = Append(answers, a) /\ UNCHANGED stop
      /\ Hand = <<>> /\ Hand' = <<>>
  BY DEF LoopCancel, Control, Drain, Typed, HoldsRequest, Working, Hand
<1>2. done \in Seq(Launches) /\ pending \in Seq(Launches) /\ answers \in Seq(Replies)
  BY PartsTyped DEF Control
<1>3. /\ l \in Launches /\ Tail(pending) \in Seq(Launches) /\ <<l>> \in Seq(Launches)
      /\ <<l>> \o Tail(pending) = pending
  BY <1>1, <1>2, HeadThenTail
<1>4. a \in Replies /\ a.item = l
  BY <1>3 DEF Replies
<1>5. ItemsOf(answers') = done \o <<l>>
  BY <1>1, <1>2, <1>4, ItemsOfAppend
<1>6. /\ done \o <<l>> \in Seq(Launches) /\ done \o pending \in Seq(Launches)
      /\ (done \o <<l>>) \o Tail(pending) = done \o pending
  <2>1. (done \o <<l>>) \o Tail(pending) = done \o (<<l>> \o Tail(pending))
    BY <1>2, <1>3, ConcatAssociative
  <2> QED
    BY <1>2, <1>3, <2>1, ConcatProperties
<1>7. LaunchLog = done \o pending
  BY <1>1, <1>2, <1>6, LogIs, ConcatEmptySeq
<1>8. LaunchLog' = (done \o <<l>>) \o Tail(pending)
  <2>1. (done \o <<l>>) \o Tail(pending) \in Seq(Launches)
    BY <1>6
  <2> QED
    BY <1>1, <1>5, <1>6, <2>1, LogIsNext, ConcatEmptySeq
<1>9. Len(answers) < Len(LaunchLog) /\ LaunchLog[Len(answers) + 1] = l
  BY <1>3, <1>6, <1>7, NextUnanswered DEF Control
<1> QED
  BY <1>1, <1>6, <1>7, <1>8, <1>9 DEF LaunchService!Answer

\* Only launches that have begun are in the log.
LogBegun == \A k \in DOMAIN LaunchLog : future[LaunchLog[k]] # "none"

LEMMA LaunchIsTake ==
  ASSUME Control, LogBegun, NEW l \in Launches, Launch(l)
  PROVE  LaunchService!Take(l) /\ LogBegun'
<1> DEFINE front == (ItemsOf(answers) \o Hand) \o pending
<1>1. front \in Seq(Launches) /\ queue \in Seq(Launches)
  BY PartsTyped, ConcatProperties DEF Control
<1>2. /\ queue' = Append(queue, l) /\ UNCHANGED <<stop, answers, pending>> /\ Hand' = Hand
      /\ ~stop /\ future[l] = "none" /\ future' = [future EXCEPT ![l] = "pending"]
  BY DEF Launch, Hand, Control, ClosesInOrder
<1>3. LaunchLog \in Seq(Launches) /\ LaunchLog = front \o queue
  BY <1>1, LogIs, ConcatProperties
<1>4. LaunchLog' = Append(LaunchLog, l)
  <2>1. LaunchLog' = front \o Append(queue, l)
    BY <1>2, LogIsNext
  <2>2. Append(queue, l) = queue \o <<l>> /\ <<l>> \in Seq(Launches)
    BY <1>1, AppendIsConcat
  <2>3. front \o (queue \o <<l>>) = (front \o queue) \o <<l>>
    BY <1>1, <2>2, ConcatAssociative
  <2>4. Append(LaunchLog, l) = LaunchLog \o <<l>>
    BY <1>3, AppendIsConcat
  <2> QED
    BY <1>3, <2>1, <2>2, <2>3, <2>4
<1>5. LaunchService!Take(l)
  BY <1>2, <1>4 DEF LaunchService!Take, LaunchService!Fresh, LogBegun
<1>6. LogBegun'
  <2>1. \A k \in DOMAIN LaunchLog' :
          LaunchLog'[k] = l \/ (k \in DOMAIN LaunchLog /\ LaunchLog'[k] = LaunchLog[k])
    <3>1. /\ LaunchLog' \in Seq(Launches) /\ Len(LaunchLog') = Len(LaunchLog) + 1
          /\ \A k \in 1..Len(LaunchLog) : LaunchLog'[k] = LaunchLog[k]
          /\ LaunchLog'[Len(LaunchLog) + 1] = l
      BY <1>3, <1>4, AppendProperties
    <3>2. /\ DOMAIN LaunchLog = 1..Len(LaunchLog) /\ Len(LaunchLog) \in Nat
          /\ DOMAIN LaunchLog' = 1..(Len(LaunchLog) + 1)
      BY <1>3, <3>1, LenProperties
    <3> QED
      BY <3>1, <3>2
  <2>2. \A m \in Launches : future[m] # "none" => future'[m] # "none"
    BY <1>2 DEF Control, Typed, TypeOK, Calls
  <2>3. future'[l] = "pending" /\ \A k \in DOMAIN LaunchLog : LaunchLog[k] \in Launches
    BY <1>2, <1>3, QueueTyped DEF Control, Typed, TypeOK, Calls
  <2> QED
    BY <2>1, <2>2, <2>3 DEF LogBegun
<1> QED
  BY <1>5, <1>6

LEMMA NextService ==
  Control /\ LogBegun /\ [Next]_vars =>
    [LaunchService!Next]_(LaunchService!vars) /\ LogBegun'
<1> SUFFICES ASSUME Control, LogBegun, [Next]_vars
             PROVE  [LaunchService!Next]_(LaunchService!vars) /\ LogBegun'
  OBVIOUS
<1>t. Typed /\ Typed'
  BY NextTyped DEF Control
<1>b. \A l \in Launches : future[l] # "none" => future'[l] # "none"
  <2>1. ASSUME NEW c \in Calls, Deliver(c) PROVE future'[c] # "none"
    BY <1>t, <2>1, HeadTailProperties DEF Deliver, Typed, TypeOK, Frames
  <2>2. ASSUME NEW c \in Calls, Deliver(c)
        PROVE  \A l \in Launches : future[l] # "none" => future'[l] # "none"
    <3>1. \A l \in Launches \ {c} : future'[l] = future[l]
      BY <1>t, <2>2 DEF Deliver, Typed, TypeOK, Calls
    <3> QED
      BY <2>1, <2>2, <3>1
  <2>3. ASSUME NEW c \in Calls, future' = [future EXCEPT ![c] = "pending"]
        PROVE  \A l \in Launches : future[l] # "none" => future'[l] # "none"
    BY <1>t, <2>3 DEF Typed, TypeOK, Calls
  <2>4. CASE future' = future
    BY <2>4
  <2>5. \/ \E c \in Calls : Deliver(c) \/ future' = [future EXCEPT ![c] = "pending"]
        \/ future' = future
    BY DEF Next, Launch, RefreshAppstream, AppSteps, LaunchNotify, CloseFlag, Close,
           CloseNotify, CloseRefreshes, CloseRefreshesDone, CloseJoin, Launcher, LoopSleep,
           LoopTake, LaunchFails, LaunchSpawns, LaunchReapAsync, ProbeEnds, ProbeSleeps,
           ReplyInstance, ReplyEnd, LoopStop, LoopCancel, LoopExit, Refresher, RefreshDone,
           Calls, vars
  <2> QED
    BY <2>2, <2>3, <2>4, <2>5
<1>k. ASSUME LaunchLog' = LaunchLog PROVE LogBegun'
  <2>1. LaunchLog \in Seq(Launches)
    BY <1>t, PartsTyped, LogIs, ConcatProperties
  <2> QED
    BY <1>b, <1>k, <2>1, QueueTyped DEF LogBegun
<1>s. ASSUME UNCHANGED <<answers, queue, pending, current>>, stop' = stop \/ stop' = TRUE
      PROVE  [LaunchService!Next]_(LaunchService!vars) /\ LogBegun'
  <2>1. LaunchLog' = LaunchLog
    BY <1>s DEF LaunchLog
  <2>2. CASE stop' = TRUE
    BY <1>s, <1>k, <2>1, <2>2 DEF LaunchService!Next, LaunchService!Close
  <2>3. CASE stop' = stop
    BY <1>s, <1>k, <2>1, <2>3 DEF LaunchService!vars
  <2> QED
    BY <1>s, <2>2, <2>3
<1>1. ASSUME NEW l \in Launches, Launch(l)
      PROVE  [LaunchService!Next]_(LaunchService!vars) /\ LogBegun'
  BY <1>1, LaunchIsTake DEF LaunchService!Next
<1>2. CASE LoopTake \/ LoopStop
  <2>1. LaunchLog' = LaunchLog
    BY <1>2, TakeKeepsLog, StopKeepsLog
  <2>2. UNCHANGED <<stop, answers>>
    BY <1>2 DEF LoopTake, LoopStop
  <2> QED
    BY <1>k, <2>1, <2>2 DEF LaunchService!vars
<1>3. CASE ReplyEnd \/ \E frame \in {"notFound", "failed"} : LaunchFails(frame)
  <2>1. LaunchService!Answer("ran")
    BY <1>3, RanIsAnswer
  <2> QED
    BY <1>k, <2>1 DEF LaunchService!Next, LaunchService!Answer, LaunchService!Ways
<1>4. CASE LoopCancel
  <2>1. LaunchService!Answer("cancelled")
    BY <1>4, CancelIsAnswer
  <2> QED
    BY <1>k, <2>1 DEF LaunchService!Next, LaunchService!Answer, LaunchService!Ways
<1>5. CASE LoopSleep \/ LaunchSpawns \/ LaunchReapAsync \/ ProbeEnds \/ ProbeSleeps
             \/ ReplyInstance \/ LoopExit
  BY <1>5, <1>s DEF LoopSleep, LaunchSpawns, LaunchReapAsync, ProbeEnds, ProbeSleeps,
                    ReplyInstance, LoopExit
<1>6. CASE LaunchNotify \/ CloseFlag \/ Close
  BY <1>6, <1>s DEF LaunchNotify, CloseFlag, Close, CloseNotify, CloseRefreshes,
                    CloseRefreshesDone, CloseJoin, launchVars
<1>7. ASSUME \/ \E l \in Launches : AppSteps(l)
             \/ \E r \in Refreshes : RefreshAppstream(r)
             \/ \E c \in Calls : Deliver(c)
             \/ Refresher \/ UNCHANGED vars
      PROVE  [LaunchService!Next]_(LaunchService!vars) /\ LogBegun'
  <2>1. UNCHANGED launchVars
    BY <1>7 DEF AppSteps, RefreshAppstream, Deliver, Refresher, RefreshDone, vars
  <2> QED
    BY <1>s, <2>1 DEF launchVars
<1> QED
  BY <1>1, <1>2, <1>3, <1>4, <1>5, <1>6, <1>7 DEF Next, Launcher

LEMMA InitService == Init => LaunchService!Init /\ LogBegun
<1> SUFFICES ASSUME Init PROVE LaunchService!Init /\ LogBegun
  OBVIOUS
<1>1. ItemsOf(answers) = <<>> /\ Hand = <<>> /\ pending = <<>> /\ queue = <<>>
  BY DEF Init, ItemsOf, Hand
<1>2. LaunchLog = <<>>
  BY <1>1, LogIs, EmptySeq, ConcatEmptySeq
<1>3. DOMAIN LaunchLog = {}
  BY <1>2
<1> QED
  BY <1>2, <1>3 DEF Init, LaunchService!Init, LogBegun

\* The hand-written launch loop is a FIFO service, whatever the isolate, the
\* launched apps and the refreshes do: launches are answered in the order of the
\* calls, each once, cancelled only after close() and never run after the first
\* that is cancelled (launch_loop()).
THEOREM ImplementsService == Safety => LaunchService!Safety
  BY InitService, NextService, ControlInvariant, PTL DEF Safety, LaunchService!Safety
=============================================================================
