--------------------------- MODULE PermissionFlow ---------------------------
(***************************************************************************)
(* ensureLaunchPermissions() of lib/src/portal/permission_flow.dart, run   *)
(* by several launches of one app at once, over the client of the          *)
(* PermissionStore in lib/src/portal/permission_store.dart, and that       *)
(* client's removeAllForApp(), called when the app is uninstalled.         *)
(*                                                                         *)
(* External: the PermissionStore serves the calls of the one D-Bus         *)
(* connection in order and may fail them; other programs, the portals'     *)
(* own dialogs among them, write to it too.                                *)
(***************************************************************************)
EXTENDS Integers, SequencesExt

CONSTANTS
  Launches,          \* calls of ensureLaunchPermissions()
  NumPermissions,    \* permissions the app's metadata asks for
  Devices,           \* those in the table of devices, whose ids are listed
  SharedDevices,     \* those another app has a permission for, too
  MaxDisturbances,   \* bound: writes of other programs and errors of the service
  ListenerMayLeave   \* may the listener leave while a prompt is open?

ASSUME FlowAssumption ==
  /\ {NumPermissions, MaxDisturbances} \subseteq Nat
  /\ NumPermissions > 0
  /\ SharedDevices \subseteq Devices /\ Devices \subseteq 1..NumPermissions
  /\ ListenerMayLeave \in BOOLEAN
  \* A launch is none of the requests of removeAllForApp().
  /\ Launches \intersect ({"list", "delete", "failed"} \X Nat) = {}

Permissions == 1..NumPermissions
Decisions == {"granted", "denied"}
Stored == Decisions \union {"ask", "notSet"}

VARIABLES
  store,     \* the status stored for each permission
  disturbed, \* writes of other programs and errors of the service so far
  bus,       \* calls sent and not yet served, in order
  replies,   \* replies sent and not yet delivered, in order
  pc,        \* where each launch is
  at,        \* the permission it is at
  value,     \* what it sets, or what the service replied
  result,    \* what it has found for its last permission
  listener,  \* somebody listens to requests
  closed,    \* close() has been called
  removal,   \* where removeAllForApp() is
  targets,   \* the permissions it has yet to see deleted
  broken,    \* a deletion has failed
  answered,  \* history: the answer to the prompt the launch is at
  held,      \* history: decisions stored while the launch was at its permission
  fresh      \* history: permissions written while removeAllForApp() was running

service == <<store, disturbed, held, fresh>>
wire == <<bus, replies>>
flow == <<listener, closed>>
call == <<pc, at, value, result>>
removing == <<removal, targets, broken>>
vars == <<service, wire, flow, call, removing, answered>>

List == <<"list", 0>>
Delete(p) == <<"delete", p>>
Failed(p) == <<"failed", p>>
Removals == {List} \union {Delete(p) : p \in Permissions}

TypeOK ==
  /\ store \in [Permissions -> Stored]
  /\ disturbed \in 0..MaxDisturbances
  /\ ToSet(bus) \subseteq Launches \union Removals
  /\ ToSet(replies) \subseteq Launches \union Removals \union {Failed(p) : p \in 0..NumPermissions}
  /\ pc \in [Launches -> {"idle", "getting", "prompted", "cancelled", "setting",
                          "done", "failed"}]
  /\ at \in [Launches -> Permissions]
  /\ value \in [Launches -> Stored \union {"error"}]
  /\ result \in [Launches -> Stored \union {"none"}]
  /\ listener \in BOOLEAN /\ closed \in BOOLEAN
  /\ answered \in [Launches -> Decisions \union {"none"}]
  /\ held \in [Launches -> SUBSET Decisions]
  /\ removal \in {"idle", "listing", "deleting", "done", "failed"}
  /\ targets \subseteq Permissions /\ fresh \subseteq Permissions
  /\ broken \in BOOLEAN

Init ==
  /\ store \in [Permissions -> {"granted", "notSet"}]
  /\ disturbed = 0
  /\ bus = <<>> /\ replies = <<>>
  /\ pc = [c \in Launches |-> "idle"]
  /\ at = [c \in Launches |-> 1]
  /\ value = [c \in Launches |-> "notSet"]
  /\ result = [c \in Launches |-> "none"]
  /\ listener = FALSE /\ closed = FALSE
  /\ answered = [c \in Launches |-> "none"]
  /\ held = [c \in Launches |-> {}]
  /\ removal = "idle"
  /\ targets = {} /\ fresh = {}
  /\ broken = FALSE

-----------------------------------------------------------------------------
(***************************************************************************)
(* External: the PermissionStore.                                          *)
(***************************************************************************)

Busy == {"getting", "prompted", "cancelled", "setting"}
Running == {"listing", "deleting"}

Write(p, status) ==
  /\ store' = [store EXCEPT ![p] = status]
  /\ fresh' = IF removal \in Running THEN fresh \union {p} ELSE fresh
  /\ held' = [c \in Launches |->
       IF pc[c] \in Busy /\ at[c] = p THEN held[c] \union ({status} \intersect Decisions)
       ELSE held[c]]

\* Bounds: so many disturbances, and only while a call runs.
Disturbs ==
  /\ disturbed < MaxDisturbances
  /\ disturbed' = disturbed + 1

OtherWrites(p, status) ==
  /\ removal \in Running \/ \E c \in Launches : pc[c] \in Busy
  /\ Disturbs
  /\ status # store[p]
  /\ Write(p, status)
  /\ UNCHANGED <<wire, flow, call, removing, answered>>

\* The next call is served, or fails.
Served(c) ==
  /\ bus # <<>> /\ c = Head(bus)
  /\ bus' = Tail(bus)
  /\ replies' = Append(replies, c)
  /\ UNCHANGED <<pc, at, result, flow, removing, answered>>

ServerGets(c) ==
  /\ pc[c] = "getting"
  /\ Served(c)
  /\ value' = [value EXCEPT ![c] = store[at[c]]]
  /\ UNCHANGED service

ServerSets(c) ==
  /\ pc[c] = "setting"
  /\ Served(c)
  /\ Write(at[c], value[c])
  /\ UNCHANGED <<value, disturbed>>

ServerFails(c) ==
  /\ Disturbs
  /\ Served(c)
  /\ value' = [value EXCEPT ![c] = "error"]
  /\ UNCHANGED <<store, held, fresh>>

-----------------------------------------------------------------------------
(***************************************************************************)
(* ensureLaunchPermissions(): the loop over the permissions.               *)
(***************************************************************************)

Replied(c) == replies # <<>> /\ c = Head(replies)

\* Slip: one permission too many.
ResolvedPastEnd(c, status) ==
  /\ result' = [result EXCEPT ![c] = status]
  /\ value' = [value EXCEPT ![c] = "notSet"]
  /\ answered' = [answered EXCEPT ![c] = "none"]
  /\ IF at[c] <= NumPermissions
     THEN /\ at' = [at EXCEPT ![c] = @ + 1]
          /\ pc' = [pc EXCEPT ![c] = "getting"]
          /\ bus' = Append(bus, c)
          /\ held' = [held EXCEPT ![c] = {}]
     ELSE /\ pc' = [pc EXCEPT ![c] = "done"]
          /\ at' = [at EXCEPT ![c] = 1]
          /\ held' = [held EXCEPT ![c] = {}]
          /\ UNCHANGED bus

\* result[permission] = status; the next one is read, or the call returns.
Resolved(c, status) ==
  /\ result' = [result EXCEPT ![c] = status]
  /\ value' = [value EXCEPT ![c] = "notSet"]
  /\ answered' = [answered EXCEPT ![c] = "none"]
  /\ IF at[c] < NumPermissions
     THEN /\ at' = [at EXCEPT ![c] = @ + 1]
          /\ pc' = [pc EXCEPT ![c] = "getting"]
          /\ bus' = Append(bus, c)
          /\ held' = [held EXCEPT ![c] = {store[at[c] + 1]} \intersect Decisions]
     ELSE /\ pc' = [pc EXCEPT ![c] = "done"]
          /\ at' = [at EXCEPT ![c] = 1]
          /\ held' = [held EXCEPT ![c] = {}]
          /\ UNCHANGED bus

Call(c) ==
  /\ pc[c] = "idle"
  /\ pc' = [pc EXCEPT ![c] = "getting"]
  /\ bus' = Append(bus, c)
  /\ held' = [held EXCEPT ![c] = {store[1]} \intersect Decisions]
  /\ UNCHANGED <<store, disturbed, fresh, replies, at, value, result, flow, removing, answered>>

GetReturnsDecided(c) ==
  /\ Replied(c) /\ pc[c] = "getting"
  /\ value[c] \notin {"notSet", "error"}
  /\ replies' = Tail(replies)
  /\ Resolved(c, value[c])
  /\ UNCHANGED <<store, disturbed, fresh, flow, removing>>

\* Not set, and nobody listens.
GetReturnsUnasked(c) ==
  /\ Replied(c) /\ pc[c] = "getting"
  /\ value[c] = "notSet" /\ ~listener
  /\ replies' = Tail(replies)
  /\ Resolved(c, "ask")
  /\ UNCHANGED <<store, disturbed, fresh, flow, removing>>

\* Not set: _prompt().
GetReturnsPrompt(c) ==
  /\ Replied(c) /\ pc[c] = "getting"
  /\ value[c] = "notSet" /\ listener
  /\ replies' = Tail(replies)
  /\ pc' = [pc EXCEPT ![c] = "prompted"]
  /\ UNCHANGED <<service, bus, at, value, result, flow, removing, answered>>

SetReturns(c) ==
  /\ Replied(c) /\ pc[c] = "setting"
  /\ value[c] # "error"
  /\ replies' = Tail(replies)
  /\ Resolved(c, value[c])
  /\ UNCHANGED <<store, disturbed, fresh, flow, removing>>

\* An error of the store ends the call.
CallFails(c) ==
  /\ Replied(c)
  /\ value[c] = "error"
  /\ replies' = Tail(replies)
  /\ pc' = [pc EXCEPT ![c] = "failed"]
  /\ value' = [value EXCEPT ![c] = "notSet"]
  /\ held' = [held EXCEPT ![c] = {}]
  /\ answered' = [answered EXCEPT ![c] = "none"]
  /\ at' = [at EXCEPT ![c] = 1]
  /\ result' = [result EXCEPT ![c] = "none"]
  /\ UNCHANGED <<store, disturbed, fresh, bus, flow, removing>>

\* Slip: cancelled is denied.
PromptDenied(c) ==
  /\ pc[c] = "cancelled"
  /\ Resolved(c, "denied")
  /\ UNCHANGED <<store, disturbed, fresh, replies, flow, removing>>

\* A cancelled prompt resolves to ask and stores nothing.
PromptCancelled(c) ==
  /\ pc[c] = "cancelled"
  /\ Resolved(c, "ask")
  /\ UNCHANGED <<store, disturbed, fresh, replies, flow, removing>>

-----------------------------------------------------------------------------
(***************************************************************************)
(* The user interface: respond(), listening to requests, close().          *)
(***************************************************************************)

Respond(c, status) ==
  /\ pc[c] = "prompted"
  /\ pc' = [pc EXCEPT ![c] = "setting"]
  /\ value' = [value EXCEPT ![c] = status]
  /\ bus' = Append(bus, c)
  /\ answered' = [answered EXCEPT ![c] = status]
  /\ UNCHANGED <<service, replies, at, result, flow, removing>>

ListenerArrives ==
  /\ ~listener /\ ~closed
  /\ listener' = TRUE
  /\ UNCHANGED <<service, wire, call, closed, removing, answered>>

ListenerLeaves ==
  /\ listener
  /\ ListenerMayLeave \/ \A c \in Launches : pc[c] # "prompted"
  /\ listener' = FALSE
  /\ UNCHANGED <<service, wire, call, closed, removing, answered>>

\* Slip: the controller is closed, the prompts are forgotten.
CloseForgets ==
  /\ ~closed
  /\ closed' = TRUE
  /\ listener' = FALSE
  /\ UNCHANGED <<service, wire, call, removing, answered>>

\* Every open prompt is cancelled; the stream ends, and with it the listening.
Close ==
  /\ ~closed
  /\ closed' = TRUE
  /\ listener' = FALSE
  /\ pc' = [c \in Launches |-> IF pc[c] = "prompted" THEN "cancelled" ELSE pc[c]]
  /\ UNCHANGED <<service, wire, at, value, result, removing, answered>>

-----------------------------------------------------------------------------
(***************************************************************************)
(* removeAllForApp(): the ids of the devices are listed, then everything   *)
(* is deleted at once, in whatever order the ids were listed; the call     *)
(* ends when every deletion has.  That an entry does not exist is no       *)
(* error.                                                                  *)
(***************************************************************************)

RemoveAllForApp ==
  /\ removal = "idle"
  /\ removal' = "listing"
  /\ bus' = Append(bus, List)
  /\ UNCHANGED <<service, replies, flow, call, targets, broken, answered>>

ServedRemoval(request, reply) ==
  /\ bus # <<>> /\ Head(bus) = request
  /\ bus' = Tail(bus)
  /\ replies' = Append(replies, reply)
  /\ UNCHANGED <<flow, call, removal, broken>>

\* The ids of the table: those this app or another has a permission for.
ServerLists ==
  /\ ServedRemoval(List, List)
  /\ targets' = (Permissions \ Devices) \union SharedDevices
                  \union {p \in Devices : store[p] # "notSet"}
  /\ UNCHANGED <<service, answered>>

ServerDeletes(p) ==
  /\ ServedRemoval(Delete(p), Delete(p))
  /\ store' = [store EXCEPT ![p] = "notSet"]
  /\ UNCHANGED <<targets, fresh, held, disturbed, answered>>

ServerFailsRemoval(request) ==
  /\ Disturbs
  /\ ServedRemoval(request, Failed(request[2]))
  /\ UNCHANGED <<store, held, fresh, targets, answered>>

ListReturns ==
  /\ replies # <<>> /\ Head(replies) = List
  /\ replies' = Tail(replies)
  /\ \E order \in SetToSeqs(targets) :
       bus' = bus \o [i \in DOMAIN order |-> Delete(order[i])]
  /\ removal' = IF targets = {} THEN "done" ELSE "deleting"
  /\ UNCHANGED <<service, flow, call, targets, broken, answered>>

ListFails ==
  /\ replies # <<>> /\ Head(replies) = Failed(0)
  /\ replies' = Tail(replies)
  /\ removal' = "failed"
  /\ fresh' = {}
  /\ UNCHANGED <<store, disturbed, held, bus, flow, call, targets, broken, answered>>

\* Slip: the call ends with the first deletion.
DeleteReturnsFirst(p, ok) ==
  /\ replies # <<>> /\ Head(replies) = IF ok THEN Delete(p) ELSE Failed(p)
  /\ replies' = Tail(replies)
  /\ targets' = targets \ {p}
  /\ broken' = (broken \/ ~ok)
  /\ removal' = IF broken' THEN "failed" ELSE "done"
  /\ fresh' = (IF removal' = "deleting" THEN fresh ELSE {})
  /\ UNCHANGED <<store, disturbed, held, bus, flow, call, answered>>

\* Future.wait() waits for all of them, then fails if one has.
DeleteReturns(p, ok) ==
  /\ replies # <<>> /\ Head(replies) = IF ok THEN Delete(p) ELSE Failed(p)
  /\ replies' = Tail(replies)
  /\ targets' = targets \ {p}
  /\ broken' = (broken \/ ~ok)
  /\ removal' = IF targets' # {} THEN removal ELSE IF broken' THEN "failed" ELSE "done"
  /\ fresh' = (IF removal' = "deleting" THEN fresh ELSE {})
  /\ UNCHANGED <<store, disturbed, held, bus, flow, call, answered>>

Removal ==
  \/ RemoveAllForApp \/ ServerLists \/ ListReturns \/ ListFails
  \/ \E p \in Permissions :
       ServerDeletes(p) \/ \E ok \in BOOLEAN : DeleteReturns(p, ok)
  \/ \E request \in Removals : ServerFailsRemoval(request)

-----------------------------------------------------------------------------
Isolate(c) ==
  \/ GetReturnsDecided(c) \/ GetReturnsUnasked(c) \/ GetReturnsPrompt(c)
  \/ SetReturns(c) \/ CallFails(c) \/ PromptCancelled(c)

Server(c) == ServerGets(c) \/ ServerSets(c) \/ ServerFails(c)

Answered(c) == \E status \in Decisions : Respond(c, status)

Next ==
  \/ \E c \in Launches : Call(c) \/ Isolate(c) \/ Server(c) \/ Answered(c)
  \/ \E p \in Permissions, status \in Decisions : OtherWrites(p, status)
  \/ ListenerArrives \/ ListenerLeaves \/ Close
  \/ Removal

(***************************************************************************)
(* Fairness: the service replies, the isolate runs, and who listens to     *)
(* requests answers them, as the comment on requests asks.  Nobody need    *)
(* listen, launch or close.                                                *)
(***************************************************************************)
Fairness ==
  \A c \in Launches :
    /\ WF_vars(Isolate(c))
    /\ WF_vars(Server(c))
    /\ WF_vars(listener /\ Answered(c))
    /\ WF_vars(Removal /\ removal # "idle")

Safety == Init /\ [][Next]_vars

Spec == Safety /\ Fairness

-----------------------------------------------------------------------------
(***************************************************************************)
(* What must hold.                                                         *)
(***************************************************************************)

\* Only an answer decides: a status is stored by an answer to the prompt of a
\* launch that is at that permission, never for a cancelled or unseen prompt
\* (other programs and removeAllForApp() apart); and a launch takes a permission
\* for granted or denied only if the store said so while it was at it, whatever
\* the other launches did (ensureLaunchPermissions(), close()).
AnswersDecide ==
  [][/\ \A p \in Permissions : store'[p] # store[p] =>
          \/ disturbed' # disturbed
          \/ removal = "deleting" /\ store'[p] = "notSet"
          \/ \E c \in Launches : at[c] = p /\ answered[c] = store'[p]
     /\ \A c \in Launches :
          at'[c] > at[c] \/ (pc'[c] = "done" /\ pc[c] # "done") =>
            result'[c] \in held[c] \union {"ask"}]_vars

\* When removeAllForApp() returns, nothing is left of what was stored when it
\* was called: what there is was written meanwhile, by an answer that was under
\* way or by another program, devices that were not yet listed among it
\* (removeAllForApp(), delete(), list()).
RemovalIsClean ==
  [][removal # "done" /\ removal' = "done" =>
       \A p \in Permissions : store'[p] = "notSet" \/ p \in fresh]_vars

\* A prompt does not block its launch for ever: it is answered, cancelled by
\* close(), or the call ends without it (_prompt(), respond(), close()).  It
\* needs a listener that stays while it is asked (ListenerMayLeave).
LaunchSettles ==
  \A c \in Launches : pc[c] = "getting" ~> pc[c] \in {"done", "failed"}

=============================================================================
