------------------------ MODULE PermissionFlowProofs ------------------------
(***************************************************************************)
(* Proofs about PermissionFlow for every set of launches, permissions and  *)
(* devices and any number of disturbances: type correctness, that only an  *)
(* answer decides (AnswersDecide), and that removeAllForApp() leaves       *)
(* nothing of what was stored when it was called (RemovalIsClean).         *)
(***************************************************************************)
EXTENDS PermissionFlow, FiniteSetTheorems, TLAPS

-----------------------------------------------------------------------------
(***************************************************************************)
(* What is on the bus, and how it got there.                               *)
(***************************************************************************)

Sent == ToSet(bus)
Back == ToSet(replies)

\* What answers removeAllForApp(); its requests come back as they are.
Replies == Removals \union {Failed(p) : p \in 0..NumPermissions}

Wired ==
  /\ bus \in Seq(Launches \union Removals)
  /\ replies \in Seq(Launches \union Replies)
  /\ IsInjective(bus) /\ IsInjective(replies)

\* A launch waits for one call at a time, and while it does its value is what
\* it sets, or nothing yet.
WaitsForOne(c) ==
  /\ pc[c] = "idle" => at[c] = 1 /\ value[c] = "notSet"
  /\ c \notin Sent \intersect Back
  /\ c \in Sent \union Back => pc[c] \in {"getting", "setting"}
  /\ c \in Sent => value[c] = IF pc[c] = "getting" THEN "notSet" ELSE answered[c]
  /\ pc[c] = "setting" => answered[c] \in Decisions /\ value[c] \in {answered[c], "error"}

\* What the store has for the permission a launch is at, it was seen to have;
\* and so was what the service told the launch.
SawTheStore(c) ==
  /\ pc[c] \in Busy => {store[at[c]]} \intersect Decisions \subseteq held[c]
  /\ c \in Back => {value[c]} \intersect Decisions \subseteq held[c]

\* One listing or the deletions are under way, each of them once.
ListsOnce ==
  /\ List \in Sent \union Back \/ Failed(0) \in Back => removal = "listing"
  /\ List \notin Sent \intersect Back
  /\ Failed(0) \in Back => List \notin Sent \union Back
  /\ removal \in {"idle", "listing"} => ~broken

DeletesOnce(p) ==
  /\ Delete(p) \in Sent \union Back \/ Failed(p) \in Back =>
       removal = "deleting" /\ p \in targets
  /\ Delete(p) \notin Sent \intersect Back
  /\ Failed(p) \in Back => Delete(p) \notin Sent \union Back

\* What is no target any more was deleted, or could not be; what was written
\* since is fresh.
Cleared(p) ==
  /\ removal = "deleting" \/ List \in Back =>
       p \in targets \/ broken \/ store[p] = "notSet" \/ p \in fresh
  /\ Delete(p) \in Back => store[p] = "notSet" \/ p \in fresh

Flow ==
  /\ TypeOK
  /\ Wired
  /\ \A c \in Launches : WaitsForOne(c) /\ SawTheStore(c)
  /\ ListsOnce
  /\ \A p \in Permissions : DeletesOnce(p) /\ Cleared(p)

-----------------------------------------------------------------------------
(***************************************************************************)
(* Queues without repetitions, as sets.                                    *)
(***************************************************************************)

\* A new element is added at the end.
LEMMA Appended ==
  ASSUME NEW S, NEW s \in Seq(S), NEW x \in S
  PROVE  /\ Append(s, x) \in Seq(S)
         /\ ToSet(Append(s, x)) = ToSet(s) \union {x}
         /\ IsInjective(s) /\ x \notin ToSet(s) => IsInjective(Append(s, x))
<1> DEFINE t == Append(s, x)
<1>1. /\ t \in Seq(S) /\ Len(t) = Len(s) + 1
      /\ \A i \in 1..Len(s) : t[i] = s[i]
      /\ t[Len(s) + 1] = x
      /\ DOMAIN s = 1..Len(s) /\ DOMAIN t = 1..(Len(s) + 1) /\ Len(s) \in Nat
  OBVIOUS
<1> HIDE DEF t
<1>2. ToSet(t) = ToSet(s) \union {x}
  <2>1. ASSUME NEW y \in ToSet(t) PROVE y \in ToSet(s) \union {x}
    BY <1>1, <2>1 DEF ToSet
  <2>2. ASSUME NEW y \in ToSet(s) PROVE y \in ToSet(t)
    BY <1>1, <2>2 DEF ToSet
  <2>3. x \in ToSet(t)
    BY <1>1 DEF ToSet
  <2> QED
    BY <2>1, <2>2, <2>3
<1>3. ASSUME IsInjective(s), x \notin ToSet(s) PROVE IsInjective(t)
  <2> SUFFICES ASSUME NEW a \in DOMAIN t, NEW b \in DOMAIN t, t[a] = t[b] PROVE a = b
    BY DEF IsInjective
  <2>1. \A i \in 1..Len(s) : s[i] # x
    BY <1>1, <1>3 DEF ToSet
  <2>2. \A i, j \in 1..Len(s) : s[i] = s[j] => i = j
    BY <1>1, <1>3 DEF IsInjective
  <2> QED
    BY <1>1, <2>1, <2>2
<1> QED
  BY <1>1, <1>2, <1>3 DEF t

\* The first element is taken.
LEMMA Taken ==
  ASSUME NEW S, NEW s \in Seq(S), s # <<>>, IsInjective(s)
  PROVE  /\ Tail(s) \in Seq(S) /\ IsInjective(Tail(s))
         /\ Head(s) \in S /\ Head(s) \in ToSet(s)
         /\ ToSet(Tail(s)) = ToSet(s) \ {Head(s)}
<1> DEFINE t == Tail(s)
<1>1. /\ t \in Seq(S) /\ Len(s) \in Nat \ {0} /\ Head(s) = s[1] /\ s[1] \in S
      /\ \A i \in 1..(Len(s) - 1) : t[i] = s[i + 1]
      /\ DOMAIN s = 1..Len(s) /\ DOMAIN t = 1..(Len(s) - 1)
  OBVIOUS
<1> HIDE DEF t
<1>2. \A i, j \in 1..Len(s) : s[i] = s[j] => i = j
  BY <1>1 DEF IsInjective
<1>3. IsInjective(t)
  BY <1>1, <1>2 DEF IsInjective
<1>4. Head(s) \in ToSet(s)
  BY <1>1 DEF ToSet
<1>5. ToSet(t) = ToSet(s) \ {Head(s)}
  <2>1. ASSUME NEW y \in ToSet(t) PROVE y \in ToSet(s) \ {Head(s)}
    <3>1. PICK i \in 1..(Len(s) - 1) : y = s[i + 1]
      BY <1>1, <2>1 DEF ToSet
    <3> QED
      BY <1>1, <1>2, <3>1 DEF ToSet
  <2>2. ASSUME NEW y \in ToSet(s) \ {Head(s)} PROVE y \in ToSet(t)
    <3>1. PICK i \in 1..Len(s) : y = s[i]
      BY <1>1, <2>2 DEF ToSet
    <3>2. i # 1 /\ i - 1 \in 1..(Len(s) - 1) /\ t[i - 1] = s[(i - 1) + 1]
      BY <1>1, <2>2, <3>1
    <3> QED
      BY <1>1, <3>1, <3>2 DEF ToSet
  <2> QED
    BY <2>1, <2>2
<1> QED
  BY <1>1, <1>3, <1>4, <1>5 DEF t

\* Elements that are none of s are added, each of them once.
LEMMA Extended ==
  ASSUME NEW S, NEW s \in Seq(S), NEW n \in Nat, NEW t \in [1..n -> S],
         IsInjective(s), IsInjective(t), \A x \in ToSet(t) : x \notin ToSet(s)
  PROVE  /\ s \o t \in Seq(S) /\ IsInjective(s \o t)
         /\ ToSet(s \o t) = ToSet(s) \union ToSet(t)
<1> DEFINE u == s \o t
<1>1. /\ t \in Seq(S) /\ Len(t) = n /\ DOMAIN t = 1..n
      /\ Len(s) \in Nat /\ DOMAIN s = 1..Len(s)
  OBVIOUS
<1>2. /\ u \in Seq(S) /\ DOMAIN u = 1..(Len(s) + n)
      /\ \A i \in 1..(Len(s) + n) : u[i] = IF i <= Len(s) THEN s[i] ELSE t[i - Len(s)]
  BY <1>1
<1> HIDE DEF u
<1>3. \A i \in 1..Len(s) : u[i] = s[i] /\ i \in 1..(Len(s) + n)
  BY <1>1, <1>2
<1>4. \A i \in 1..n : u[Len(s) + i] = t[i] /\ Len(s) + i \in 1..(Len(s) + n)
  BY <1>1, <1>2
<1>5. \A i \in 1..(Len(s) + n) : i \notin 1..Len(s) =>
        i - Len(s) \in 1..n /\ u[i] = t[i - Len(s)]
  BY <1>1, <1>2
<1>6. ToSet(u) = ToSet(s) \union ToSet(t)
  <2>1. ASSUME NEW y \in ToSet(u) PROVE y \in ToSet(s) \union ToSet(t)
    BY <1>1, <1>2, <1>3, <1>5 DEF ToSet
  <2>2. ASSUME NEW y \in ToSet(s) PROVE y \in ToSet(u)
    BY <1>1, <1>2, <1>3, <2>2 DEF ToSet
  <2>3. ASSUME NEW y \in ToSet(t) PROVE y \in ToSet(u)
    <3>1. PICK i \in 1..n : y = t[i]
      BY <1>1, <2>3 DEF ToSet
    <3>2. Len(s) + i \in DOMAIN u /\ u[Len(s) + i] = y
      BY <1>2, <1>4, <3>1
    <3> QED
      BY <3>2 DEF ToSet
  <2> QED
    BY <2>1, <2>2, <2>3
<1>7. IsInjective(u)
  <2> SUFFICES ASSUME NEW a \in 1..(Len(s) + n), NEW b \in 1..(Len(s) + n), u[a] = u[b]
               PROVE  a = b
    BY <1>2 DEF IsInjective
  <2>1. \A i, j \in 1..Len(s) : s[i] = s[j] => i = j
    BY <1>1 DEF IsInjective
  <2>2. \A i, j \in 1..n : t[i] = t[j] => i = j
    BY <1>1 DEF IsInjective
  <2>3. \A i \in 1..Len(s), j \in 1..n : s[i] # t[j]
    BY <1>1 DEF ToSet
  <2>4. CASE a \in 1..Len(s) /\ b \in 1..Len(s)
    BY <1>3, <2>1, <2>4
  <2>5. CASE a \in 1..Len(s) /\ b \notin 1..Len(s)
    BY <1>3, <1>5, <2>3, <2>5
  <2>6. CASE a \notin 1..Len(s) /\ b \in 1..Len(s)
    BY <1>3, <1>5, <2>3, <2>6
  <2>7. CASE a \notin 1..Len(s) /\ b \notin 1..Len(s)
    <3>1. a - Len(s) = b - Len(s)
      BY <1>5, <2>2, <2>7
    <3> QED
      BY <1>1, <3>1
  <2> QED
    BY <2>4, <2>5, <2>6, <2>7
<1> QED
  BY <1>2, <1>6, <1>7 DEF u

\* A queue of elements of S holds some of them.
LEMMA Within ==
  ASSUME NEW S, NEW s \in Seq(S)
  PROVE  ToSet(s) \subseteq S
  BY DEF ToSet

\* A request that is served goes from one queue to the other.
LEMMA Passed ==
  ASSUME Wired, bus # <<>>, bus' = Tail(bus), NEW x, replies' = Append(replies, x),
         x \in Launches \union Replies,
         x \notin Back
  PROVE  /\ Wired'
         /\ Head(bus) \in Sent /\ Sent' = Sent \ {Head(bus)} /\ Back' = Back \union {x}
<1>1. /\ Tail(bus) \in Seq(Launches \union Removals) /\ IsInjective(Tail(bus))
      /\ Head(bus) \in Sent /\ ToSet(Tail(bus)) = Sent \ {Head(bus)}
  BY Taken DEF Wired, Sent
<1>2. /\ replies' \in Seq(Launches \union Replies)
      /\ ToSet(replies') = Back \union {x} /\ IsInjective(replies')
  BY Appended DEF Wired, Back
<1> QED
  BY <1>1, <1>2 DEF Wired, Sent, Back

\* A reply is delivered.
LEMMA Delivered ==
  ASSUME Wired, replies # <<>>
  PROVE  /\ Tail(replies) \in Seq(Launches \union Replies)
         /\ IsInjective(Tail(replies))
         /\ Head(replies) \in Back /\ ToSet(Tail(replies)) = Back \ {Head(replies)}
  BY Taken DEF Wired, Back

\* A request is sent.
LEMMA Requested ==
  ASSUME Wired, NEW x \in Launches \union Removals, x \notin Sent
  PROVE  /\ Append(bus, x) \in Seq(Launches \union Removals)
         /\ IsInjective(Append(bus, x))
         /\ ToSet(Append(bus, x)) = Sent \union {x}
  BY Appended DEF Wired, Sent

-----------------------------------------------------------------------------
(***************************************************************************)
(* What a step leaves alone.                                               *)
(***************************************************************************)

\* The requests and replies of removeAllForApp() are no launches, and all
\* different.
LEMMA Apart ==
  /\ \A c \in Launches : c \notin Replies
  /\ \A p \in 0..NumPermissions : List # Delete(p) /\ List # Failed(p)
  /\ \A p, q \in 0..NumPermissions :
       /\ Delete(p) # Failed(q)
       /\ p # q => Delete(p) # Delete(q) /\ Failed(p) # Failed(q)
  /\ {List, Failed(0)} \subseteq Replies
  /\ \A p \in Permissions : {Delete(p), Failed(p)} \subseteq Replies
<1> USE FlowAssumption DEF List, Delete, Failed
<1>1. NumPermissions \in Nat /\ Permissions \subseteq 0..NumPermissions
  BY DEF Permissions
<1>2. Replies \subseteq {"list", "delete", "failed"} \X Nat
  BY <1>1 DEF Replies, Removals
<1>3. {List, Failed(0)} \subseteq Replies
  BY <1>1 DEF Replies, Removals
<1>4. \A p \in Permissions : {Delete(p), Failed(p)} \subseteq Replies
  BY <1>1 DEF Replies, Removals
<1>5. \A p \in 0..NumPermissions : List # Delete(p) /\ List # Failed(p)
  OBVIOUS
<1>6. \A p, q \in 0..NumPermissions :
       /\ Delete(p) # Failed(q)
       /\ p # q => Delete(p) # Delete(q) /\ Failed(p) # Failed(q)
  OBVIOUS
<1> QED
  BY <1>2, <1>3, <1>4, <1>5, <1>6

\* removeAllForApp() is where it was, and what is written is fresh.
LEMMA RemovalKept ==
  ASSUME ListsOnce, \A p \in Permissions : DeletesOnce(p) /\ Cleared(p),
         UNCHANGED removing,
         \A x \in Replies : (x \in Sent' <=> x \in Sent) /\ (x \in Back' <=> x \in Back),
         \A p \in Permissions : \/ store'[p] = store[p] /\ (p \in fresh => p \in fresh')
                                \/ removal \in Running => p \in fresh'
  PROVE  ListsOnce' /\ \A p \in Permissions : DeletesOnce(p)' /\ Cleared(p)'
<1>1. ListsOnce'
  BY Apart DEF ListsOnce, removing
<1>2. ASSUME NEW p \in Permissions PROVE DeletesOnce(p)'
  BY <1>2, Apart DEF DeletesOnce, removing
<1>3. ASSUME NEW p \in Permissions PROVE Cleared(p)'
  BY <1>3, Apart DEF Cleared, ListsOnce, DeletesOnce, removing, Running
<1> QED
  BY <1>1, <1>2, <1>3

\* A launch is where it was, and has seen what is written.
LEMMA LaunchKept ==
  ASSUME NEW d \in Launches, WaitsForOne(d), SawTheStore(d),
         pc'[d] = pc[d], at'[d] = at[d], value'[d] = value[d], answered'[d] = answered[d],
         d \in Sent' <=> d \in Sent, d \in Back' <=> d \in Back,
         held[d] \subseteq held'[d],
         \/ store'[at[d]] = store[at[d]]
         \/ pc[d] \in Busy => {store'[at[d]]} \intersect Decisions \subseteq held'[d]
  PROVE  WaitsForOne(d)' /\ SawTheStore(d)'
  BY DEF WaitsForOne, SawTheStore

\* The launches at a permission see what is written to it.
LEMMA Written ==
  ASSUME TypeOK, NEW p \in Permissions, NEW status \in Stored, Write(p, status)
  PROVE  /\ store' \in [Permissions -> Stored] /\ fresh' \subseteq Permissions
         /\ held' \in [Launches -> SUBSET Decisions]
         /\ \A q \in Permissions : \/ store'[q] = store[q] /\ (q \in fresh => q \in fresh')
                                   \/ removal \in Running => q \in fresh'
         /\ \A d \in Launches :
              /\ held[d] \subseteq held'[d]
              /\ \/ store'[at[d]] = store[at[d]]
                 \/ pc[d] \in Busy => {store'[at[d]]} \intersect Decisions \subseteq held'[d]
<1> USE DEF TypeOK
<1>1. store' \in [Permissions -> Stored] /\ fresh' \subseteq Permissions
  BY DEF Write
<1>2. held' \in [Launches -> SUBSET Decisions]
  BY DEF Write
<1>3. ASSUME NEW q \in Permissions
      PROVE  \/ store'[q] = store[q] /\ (q \in fresh => q \in fresh')
             \/ removal \in Running => q \in fresh'
  BY <1>3 DEF Write
<1>4. ASSUME NEW d \in Launches PROVE held[d] \subseteq held'[d]
  BY <1>4 DEF Write
<1>5. ASSUME NEW d \in Launches, store'[at[d]] # store[at[d]], pc[d] \in Busy
      PROVE  {store'[at[d]]} \intersect Decisions \subseteq held'[d]
  <2>1. at[d] = p /\ store'[at[d]] = status
    BY <1>5 DEF Write
  <2> QED
    BY <1>5, <2>1 DEF Write
<1> QED
  BY <1>1, <1>2, <1>3, <1>4, <1>5

-----------------------------------------------------------------------------
(***************************************************************************)
(* The steps of the launches.                                              *)
(***************************************************************************)

\* The requests and replies of removeAllForApp() are not those of a launch.
LEMMA OnlyTheLaunchs ==
  ASSUME NEW c \in Launches, NEW Old, NEW New,
         New \subseteq Old \union {c}, Old \subseteq New \union {c}
  PROVE  /\ \A x \in Replies : x \in New <=> x \in Old
         /\ \A d \in Launches \ {c} : d \in New <=> d \in Old
  BY Apart

LEMMA WiredTypes ==
  ASSUME Wired
  PROVE  /\ ToSet(bus) \subseteq Launches \union Removals
         /\ ToSet(replies) \subseteq
              Launches \union Removals \union {Failed(p) : p \in 0..NumPermissions}
  BY Within DEF Wired, Replies

\* A launch that waits for nothing goes on to its next permission, or returns.
LEMMA ResolvedFlow ==
  ASSUME Flow, NEW c \in Launches, NEW status \in Stored, c \notin Sent,
         Resolved(c, status), UNCHANGED <<store, disturbed, fresh, flow, removing>>,
         replies' \in Seq(Launches \union Replies),
         IsInjective(replies'), Back' = Back \ {c}
  PROVE  Flow'
<1> USE FlowAssumption DEF Flow, flow, removing
<1>1. CASE at[c] < NumPermissions
  <2>1. Wired' /\ Sent' = Sent \union {c}
    BY <1>1, Requested DEF Resolved, Wired, Sent
  <2>2. at[c] + 1 \in Permissions
    BY <1>1 DEF TypeOK, Permissions
  <2>3. held' = [held EXCEPT ![c] = {store[at[c] + 1]} \intersect Decisions]
        /\ at' = [at EXCEPT ![c] = at[c] + 1]
        /\ pc' = [pc EXCEPT ![c] = "getting"]
        /\ result' = [result EXCEPT ![c] = status]
        /\ value' = [value EXCEPT ![c] = "notSet"]
        /\ answered' = [answered EXCEPT ![c] = "none"]
    BY <1>1 DEF Resolved
  <2>4. TypeOK'
    BY <2>1, <2>2, <2>3, WiredTypes DEF TypeOK, Wired, ToSet, Stored, Replies
  <2>5. WaitsForOne(c)' /\ SawTheStore(c)'
    <3>1. /\ pc'[c] = "getting" /\ at'[c] = at[c] + 1 /\ value'[c] = "notSet"
          /\ held'[c] = {store[at[c] + 1]} \intersect Decisions
      BY <2>3 DEF TypeOK
    <3> QED
      BY <2>1, <3>1 DEF WaitsForOne, SawTheStore
  <2>6. ASSUME NEW d \in Launches \ {c} PROVE WaitsForOne(d)' /\ SawTheStore(d)'
    <3>1. /\ pc'[d] = pc[d] /\ at'[d] = at[d] /\ value'[d] = value[d]
          /\ answered'[d] = answered[d] /\ held'[d] = held[d]
      BY <2>3, <2>6 DEF TypeOK
    <3> QED
      BY <2>1, <2>6, <3>1, LaunchKept
  <2>7. ListsOnce' /\ \A p \in Permissions : DeletesOnce(p)' /\ Cleared(p)'
    BY <2>1, OnlyTheLaunchs, RemovalKept
  <2> QED
    BY <2>1, <2>4, <2>5, <2>6, <2>7
<1>2. CASE ~(at[c] < NumPermissions)
  <2>1. Wired' /\ Sent' = Sent
    BY <1>2 DEF Resolved, Wired, Sent
  <2>2. 1 \in Permissions
    BY DEF Permissions
  <2>3. held' = [held EXCEPT ![c] = {}]
        /\ at' = [at EXCEPT ![c] = 1]
        /\ pc' = [pc EXCEPT ![c] = "done"]
        /\ result' = [result EXCEPT ![c] = status]
        /\ value' = [value EXCEPT ![c] = "notSet"]
        /\ answered' = [answered EXCEPT ![c] = "none"]
    BY <1>2 DEF Resolved
  <2>4. TypeOK'
    BY <2>1, <2>2, <2>3, WiredTypes DEF TypeOK, Wired, ToSet, Stored, Replies
  <2>5. WaitsForOne(c)' /\ SawTheStore(c)'
    <3>1. pc'[c] = "done"
      BY <2>3 DEF TypeOK
    <3> QED
      BY <2>1, <3>1 DEF WaitsForOne, SawTheStore, Busy
  <2>6. ASSUME NEW d \in Launches \ {c} PROVE WaitsForOne(d)' /\ SawTheStore(d)'
    <3>1. /\ pc'[d] = pc[d] /\ at'[d] = at[d] /\ value'[d] = value[d]
          /\ answered'[d] = answered[d] /\ held'[d] = held[d]
      BY <2>3, <2>6 DEF TypeOK
    <3> QED
      BY <2>1, <2>6, <3>1, LaunchKept
  <2>7. ListsOnce' /\ \A p \in Permissions : DeletesOnce(p)' /\ Cleared(p)'
    BY <2>1, OnlyTheLaunchs, RemovalKept
  <2> QED
    BY <2>1, <2>4, <2>5, <2>6, <2>7
<1> QED
  BY <1>1, <1>2

\* A reply is there for the launch, which waits for no other.
LEMMA RepliedFlow ==
  ASSUME Flow, NEW c \in Launches, Replied(c), replies' = Tail(replies)
  PROVE  /\ c \in Back /\ c \notin Sent /\ Back' = Back \ {c}
         /\ replies' \in Seq(Launches \union Replies)
         /\ IsInjective(replies')
<1>1. replies # <<>> /\ c = Head(replies)
  BY DEF Replied
<1>2. /\ replies' \in Seq(Launches \union Replies)
      /\ IsInjective(replies') /\ c \in Back /\ Back' = Back \ {c}
  BY <1>1, Delivered DEF Flow, Back
<1>3. c \notin Sent
  BY <1>2 DEF Flow, WaitsForOne
<1> QED
  BY <1>2, <1>3

LEMMA ReturnsFlow ==
  ASSUME Flow, NEW c \in Launches,
         \/ GetReturnsDecided(c) \/ GetReturnsUnasked(c) \/ SetReturns(c) \/ PromptCancelled(c)
  PROVE  Flow'
<1>1. CASE GetReturnsDecided(c)
  <2>1. value[c] \in Stored
    BY <1>1 DEF GetReturnsDecided, Flow, TypeOK
  <2> QED
    BY <1>1, <2>1, RepliedFlow, ResolvedFlow DEF GetReturnsDecided
<1>2. CASE GetReturnsUnasked(c)
  BY <1>2, RepliedFlow, ResolvedFlow DEF GetReturnsUnasked, Stored
<1>3. CASE SetReturns(c)
  <2>1. value[c] \in Stored
    BY <1>3 DEF SetReturns, Flow, TypeOK
  <2> QED
    BY <1>3, <2>1, RepliedFlow, ResolvedFlow DEF SetReturns
<1>4. CASE PromptCancelled(c)
  <2>1. c \notin Sent /\ c \notin Back
    BY <1>4 DEF PromptCancelled, Flow, WaitsForOne
  <2>2. /\ IsInjective(replies') /\ Back' = Back \ {c}
        /\ replies' \in Seq(Launches \union Replies)
    BY <1>4, <2>1 DEF PromptCancelled, Flow, Wired, Back
  <2> QED
    BY <1>4, <2>1, <2>2, ResolvedFlow DEF PromptCancelled, Stored
<1> QED
  BY <1>1, <1>2, <1>3, <1>4

\* A step of one launch, which may be a write.
LEMMA OneLaunchFlow ==
  ASSUME Flow, NEW c \in Launches, TypeOK', Wired', UNCHANGED removing,
         Sent' \subseteq Sent \union {c}, Sent \subseteq Sent' \union {c},
         Back' \subseteq Back \union {c}, Back \subseteq Back' \union {c},
         \A q \in Permissions : \/ store'[q] = store[q] /\ (q \in fresh => q \in fresh')
                                \/ removal \in Running => q \in fresh',
         \A d \in Launches \ {c} :
           /\ pc'[d] = pc[d] /\ at'[d] = at[d] /\ value'[d] = value[d]
           /\ answered'[d] = answered[d] /\ held[d] \subseteq held'[d]
           /\ \/ store'[at[d]] = store[at[d]]
              \/ pc[d] \in Busy => {store'[at[d]]} \intersect Decisions \subseteq held'[d],
         WaitsForOne(c)', SawTheStore(c)'
  PROVE  Flow'
<1>1. /\ \A x \in Replies : (x \in Sent' <=> x \in Sent) /\ (x \in Back' <=> x \in Back)
      /\ \A d \in Launches \ {c} : (d \in Sent' <=> d \in Sent) /\ (d \in Back' <=> d \in Back)
  BY OnlyTheLaunchs
<1>2. ASSUME NEW d \in Launches \ {c} PROVE WaitsForOne(d)' /\ SawTheStore(d)'
  <2>1. /\ pc'[d] = pc[d] /\ at'[d] = at[d] /\ value'[d] = value[d]
        /\ answered'[d] = answered[d] /\ held[d] \subseteq held'[d]
        /\ \/ store'[at[d]] = store[at[d]]
           \/ pc[d] \in Busy => {store'[at[d]]} \intersect Decisions \subseteq held'[d]
    BY <1>2
  <2>2. WaitsForOne(d) /\ SawTheStore(d) /\ (d \in Sent' <=> d \in Sent)
        /\ (d \in Back' <=> d \in Back)
    BY <1>1, <1>2 DEF Flow
  <2> QED
    BY <1>2, <2>1, <2>2, LaunchKept
<1>3. ListsOnce' /\ \A p \in Permissions : DeletesOnce(p)' /\ Cleared(p)'
  BY <1>1, RemovalKept DEF Flow
<1> QED
  BY <1>2, <1>3 DEF Flow

\* The launch may wait for a call it has just sent.
LEMMA SendsFlow ==
  ASSUME Flow, NEW c \in Launches, bus' = Append(bus, c), replies' = replies, c \notin Sent
  PROVE  Wired' /\ Sent' = Sent \union {c} /\ Back' = Back
  BY Requested DEF Flow, Wired, Sent, Back

\* A call of a launch is served.
LEMMA ServedFlow ==
  ASSUME Flow, NEW c \in Launches, Served(c)
  PROVE  /\ Wired' /\ c \in Sent /\ Sent' = Sent \ {c} /\ Back' = Back \union {c}
         /\ pc[c] \in {"getting", "setting"}
<1>1. bus # <<>> /\ c = Head(bus) /\ bus' = Tail(bus) /\ replies' = Append(replies, c)
  BY DEF Served
<1>2. c \in Sent
  BY <1>1, Taken DEF Flow, Wired, Sent
<1>3. c \notin Back /\ pc[c] \in {"getting", "setting"}
  BY <1>2 DEF Flow, WaitsForOne
<1> QED
  BY <1>1, <1>2, <1>3, Passed DEF Flow

LEMMA CallFlow == ASSUME Flow, NEW c \in Launches, Call(c) PROVE Flow'
<1> USE DEF Call, flow
<1>1. c \notin Sent /\ c \notin Back
  BY DEF Flow, WaitsForOne
<1>2. Wired' /\ Sent' = Sent \union {c} /\ Back' = Back
  BY <1>1, SendsFlow
<1>3. 1 \in Permissions
  BY FlowAssumption DEF Permissions
<1>4. TypeOK'
  BY <1>2, <1>3, WiredTypes DEF Flow, TypeOK, removing, service, ToSet, Wired, Replies
<1>5. /\ pc'[c] = "getting" /\ held'[c] = {store[1]} \intersect Decisions
      /\ at'[c] = at[c] /\ value'[c] = value[c] /\ store' = store
  BY DEF Flow, TypeOK
<1>6. WaitsForOne(c)' /\ SawTheStore(c)'
  BY <1>1, <1>2, <1>5 DEF Flow, WaitsForOne, SawTheStore
<1> QED
  BY <1>1, <1>2, <1>4, <1>5, <1>6, OneLaunchFlow DEF Flow, TypeOK

LEMMA PromptFlow == ASSUME Flow, NEW c \in Launches, GetReturnsPrompt(c) PROVE Flow'
<1> USE DEF GetReturnsPrompt, flow, service
<1>1. /\ c \in Back /\ c \notin Sent /\ Back' = Back \ {c} /\ Sent' = Sent
      /\ Wired'
  BY RepliedFlow DEF Sent, Flow, Wired
<1>2. TypeOK'
  BY <1>1, WiredTypes DEF Flow, TypeOK, removing, ToSet, Wired, Replies
<1>3. pc'[c] = "prompted" /\ at'[c] = at[c] /\ held'[c] = held[c] /\ store' = store
  BY DEF Flow, TypeOK
<1>4. pc[c] \in Busy /\ "prompted" \in Busy
  BY DEF Busy
<1>5. WaitsForOne(c)' /\ SawTheStore(c)'
  BY <1>1, <1>3, <1>4 DEF Flow, WaitsForOne, SawTheStore
<1> QED
  BY <1>1, <1>2, <1>3, <1>5, OneLaunchFlow DEF Flow, TypeOK

LEMMA FailsFlow == ASSUME Flow, NEW c \in Launches, CallFails(c) PROVE Flow'
<1> USE DEF CallFails, flow
<1>1. /\ c \in Back /\ c \notin Sent /\ Back' = Back \ {c} /\ Sent' = Sent
      /\ Wired'
  BY RepliedFlow DEF Sent, Flow, Wired
<1>2. 1 \in Permissions
  BY FlowAssumption DEF Permissions
<1>3. TypeOK'
  BY <1>1, <1>2, WiredTypes DEF Flow, TypeOK, removing, ToSet, Wired, Stored, Replies
<1>4. pc'[c] = "failed"
  BY DEF Flow, TypeOK
<1>5. WaitsForOne(c)' /\ SawTheStore(c)'
  BY <1>1, <1>4 DEF WaitsForOne, SawTheStore, Busy
<1> QED
  BY <1>1, <1>3, <1>5, OneLaunchFlow DEF Flow, TypeOK

LEMMA RespondFlow ==
  ASSUME Flow, NEW c \in Launches, NEW status \in Decisions, Respond(c, status)
  PROVE  Flow'
<1> USE DEF Respond, flow, service
<1>1. c \notin Sent /\ c \notin Back
  BY DEF Flow, WaitsForOne
<1>2. Wired' /\ Sent' = Sent \union {c} /\ Back' = Back
  BY <1>1, SendsFlow
<1>3. TypeOK'
  BY <1>2, WiredTypes DEF Flow, TypeOK, removing, ToSet, Wired, Stored, Replies
<1>4. /\ pc'[c] = "setting" /\ value'[c] = status /\ answered'[c] = status
      /\ at'[c] = at[c] /\ held'[c] = held[c] /\ store' = store
  BY DEF Flow, TypeOK
<1>5. pc[c] \in Busy /\ "setting" \in Busy
  BY DEF Busy
<1>6. WaitsForOne(c)' /\ SawTheStore(c)'
  BY <1>1, <1>2, <1>4, <1>5 DEF Flow, WaitsForOne, SawTheStore
<1> QED
  BY <1>1, <1>2, <1>3, <1>4, <1>6, OneLaunchFlow DEF Flow, TypeOK

LEMMA ServerGetsFlow == ASSUME Flow, NEW c \in Launches, ServerGets(c) PROVE Flow'
<1> USE DEF ServerGets, flow, service
<1>1. Wired' /\ c \in Sent /\ Sent' = Sent \ {c} /\ Back' = Back \union {c}
  BY ServedFlow
<1>2. UNCHANGED <<pc, at, result, flow, removing, answered>>
  BY DEF Served
<1>3. TypeOK'
  BY <1>1, <1>2, WiredTypes DEF Flow, TypeOK, removing, ToSet, Wired, Replies
<1>4. /\ pc'[c] = "getting" /\ value'[c] = store[at[c]] /\ at'[c] = at[c]
      /\ held'[c] = held[c] /\ store' = store
  BY <1>2 DEF Flow, TypeOK
<1>5. pc[c] \in Busy
  BY DEF Busy
<1>6. WaitsForOne(c)' /\ SawTheStore(c)'
  BY <1>1, <1>4, <1>5 DEF Flow, WaitsForOne, SawTheStore
<1> QED
  BY <1>1, <1>2, <1>3, <1>4, <1>6, OneLaunchFlow DEF Flow, TypeOK

\* What is written is an answer.
LEMMA SetsAnswer ==
  ASSUME Flow, NEW c \in Launches, ServerSets(c)
  PROVE  value[c] = answered[c] /\ value[c] \in Decisions
<1>1. c \in Sent /\ pc[c] = "setting"
  BY ServedFlow DEF ServerSets
<1> QED
  BY <1>1 DEF Flow, WaitsForOne

LEMMA ServerSetsFlow == ASSUME Flow, NEW c \in Launches, ServerSets(c) PROVE Flow'
<1> USE DEF flow
<1>1. /\ Wired' /\ c \in Sent /\ Sent' = Sent \ {c} /\ Back' = Back \union {c}
      /\ pc[c] = "setting"
  BY ServedFlow DEF ServerSets
<1>2. UNCHANGED <<pc, at, value, result, flow, removing, answered, disturbed>>
  BY DEF Served, ServerSets
<1>3. /\ value[c] = answered[c] /\ value[c] \in Decisions
      /\ at[c] \in Permissions /\ value[c] \in Stored
  BY SetsAnswer DEF Flow, TypeOK, Stored
<1>4. Write(at[c], value[c])
  BY DEF ServerSets
<1>5. /\ store' \in [Permissions -> Stored] /\ fresh' \subseteq Permissions
      /\ held' \in [Launches -> SUBSET Decisions]
      /\ \A q \in Permissions : \/ store'[q] = store[q] /\ (q \in fresh => q \in fresh')
                                \/ removal \in Running => q \in fresh'
      /\ \A d \in Launches :
           /\ held[d] \subseteq held'[d]
           /\ \/ store'[at[d]] = store[at[d]]
              \/ pc[d] \in Busy => {store'[at[d]]} \intersect Decisions \subseteq held'[d]
  BY <1>3, <1>4, Written DEF Flow
<1>6. TypeOK'
  BY <1>1, <1>2, <1>5, WiredTypes DEF Flow, TypeOK, removing, ToSet, Wired, Replies
<1>7. pc[c] \in Busy
  BY <1>1 DEF Busy
<1>8. store'[at[c]] = value[c] /\ {value[c]} \intersect Decisions \subseteq held'[c]
  BY <1>3, <1>4, <1>7 DEF Write, Flow, TypeOK
<1>9. WaitsForOne(c)' /\ SawTheStore(c)'
  BY <1>1, <1>2, <1>3, <1>8 DEF WaitsForOne, SawTheStore
<1> QED
  BY <1>1, <1>2, <1>5, <1>6, <1>9, OneLaunchFlow

LEMMA ServerFailsFlow == ASSUME Flow, NEW c \in Launches, ServerFails(c) PROVE Flow'
<1> USE DEF flow
<1>1. /\ Wired' /\ c \in Sent /\ Sent' = Sent \ {c} /\ Back' = Back \union {c}
      /\ pc[c] \in {"getting", "setting"}
  BY ServedFlow DEF ServerFails
<1>2. /\ UNCHANGED <<pc, at, result, flow, removing, answered, store, held, fresh>>
      /\ value' = [value EXCEPT ![c] = "error"]
      /\ disturbed < MaxDisturbances /\ disturbed' = disturbed + 1
  BY DEF Served, ServerFails, Disturbs
<1>3. TypeOK'
  BY <1>1, <1>2, WiredTypes, FlowAssumption DEF Flow, TypeOK, removing, ToSet, Wired, Replies
<1>4. value'[c] = "error" /\ "error" \notin Decisions
  BY <1>2 DEF Flow, TypeOK, Decisions
<1>5. WaitsForOne(c)' /\ SawTheStore(c)'
  BY <1>1, <1>2, <1>4 DEF Flow, WaitsForOne, SawTheStore
<1> QED
  BY <1>1, <1>2, <1>3, <1>5, OneLaunchFlow DEF Flow, TypeOK

-----------------------------------------------------------------------------
(***************************************************************************)
(* The steps that send and answer nothing.                                 *)
(***************************************************************************)

LEMMA OtherWritesFlow ==
  ASSUME Flow, NEW p \in Permissions, NEW status \in Decisions, OtherWrites(p, status)
  PROVE  Flow'
<1> USE DEF wire, flow, call
<1>1. /\ UNCHANGED <<bus, replies, listener, closed, pc, at, value, result, removing, answered>>
      /\ Write(p, status) /\ status \in Stored
      /\ disturbed < MaxDisturbances /\ disturbed' = disturbed + 1
  BY DEF OtherWrites, Disturbs, Stored
<1>2. /\ store' \in [Permissions -> Stored] /\ fresh' \subseteq Permissions
      /\ held' \in [Launches -> SUBSET Decisions]
      /\ \A q \in Permissions : \/ store'[q] = store[q] /\ (q \in fresh => q \in fresh')
                                \/ removal \in Running => q \in fresh'
      /\ \A d \in Launches :
           /\ held[d] \subseteq held'[d]
           /\ \/ store'[at[d]] = store[at[d]]
              \/ pc[d] \in Busy => {store'[at[d]]} \intersect Decisions \subseteq held'[d]
  BY <1>1, Written DEF Flow
<1>3. Wired' /\ Sent' = Sent /\ Back' = Back
  BY <1>1 DEF Flow, Wired, Sent, Back
<1>4. TypeOK'
  BY <1>1, <1>2, FlowAssumption DEF Flow, TypeOK, removing, ToSet
<1>5. ASSUME NEW d \in Launches PROVE WaitsForOne(d)' /\ SawTheStore(d)'
  <2>1. /\ pc'[d] = pc[d] /\ at'[d] = at[d] /\ value'[d] = value[d]
        /\ answered'[d] = answered[d] /\ held[d] \subseteq held'[d]
        /\ \/ store'[at[d]] = store[at[d]]
           \/ pc[d] \in Busy => {store'[at[d]]} \intersect Decisions \subseteq held'[d]
    BY <1>1, <1>2
  <2>2. WaitsForOne(d) /\ SawTheStore(d)
    BY DEF Flow
  <2> QED
    BY <1>3, <2>1, <2>2, LaunchKept
<1>6. ListsOnce' /\ \A q \in Permissions : DeletesOnce(q)' /\ Cleared(q)'
  BY <1>1, <1>2, <1>3, RemovalKept DEF Flow
<1> QED
  BY <1>3, <1>4, <1>5, <1>6 DEF Flow

LEMMA ListenerFlow == ASSUME Flow, ListenerArrives \/ ListenerLeaves PROVE Flow'
<1>1. /\ UNCHANGED <<service, wire, call, closed, removing, answered>>
      /\ listener' \in BOOLEAN
  BY DEF ListenerArrives, ListenerLeaves
<1> USE DEF service, wire, call, removing
<1>2. Wired' /\ Sent' = Sent /\ Back' = Back
  BY <1>1 DEF Flow, Wired, Sent, Back
<1>3. TypeOK'
  BY <1>1 DEF Flow, TypeOK
<1>4. ASSUME NEW d \in Launches PROVE WaitsForOne(d)' /\ SawTheStore(d)'
  BY <1>1, <1>2 DEF Flow, WaitsForOne, SawTheStore
<1>5. ListsOnce' /\ \A q \in Permissions : DeletesOnce(q)' /\ Cleared(q)'
  BY <1>1, <1>2, RemovalKept DEF Flow
<1> QED
  BY <1>2, <1>3, <1>4, <1>5 DEF Flow

LEMMA CloseFlow == ASSUME Flow, Close PROVE Flow'
<1> USE DEF service, wire, call
<1>1. /\ UNCHANGED <<store, disturbed, held, fresh, bus, replies, at, value, result,
                     removing, answered>>
      /\ closed' = TRUE /\ listener' = FALSE
      /\ pc' = [c \in Launches |-> IF pc[c] = "prompted" THEN "cancelled" ELSE pc[c]]
  BY DEF Close
<1>2. Wired' /\ Sent' = Sent /\ Back' = Back
  BY <1>1 DEF Flow, Wired, Sent, Back
<1>3. TypeOK'
  BY <1>1 DEF Flow, TypeOK, removing, ToSet
<1>4. ASSUME NEW d \in Launches PROVE WaitsForOne(d)' /\ SawTheStore(d)'
  <2>1. pc'[d] = IF pc[d] = "prompted" THEN "cancelled" ELSE pc[d]
    BY <1>1
  <2>2. pc'[d] \in Busy => pc[d] \in Busy
    BY <2>1 DEF Busy
  <2>3. WaitsForOne(d) /\ SawTheStore(d)
    BY DEF Flow
  <2>4. WaitsForOne(d)'
    BY <1>1, <1>2, <2>1, <2>3 DEF WaitsForOne
  <2>5. SawTheStore(d)'
    BY <1>1, <1>2, <2>2, <2>3 DEF SawTheStore
  <2> QED
    BY <2>4, <2>5
<1>5. ListsOnce' /\ \A q \in Permissions : DeletesOnce(q)' /\ Cleared(q)'
  BY <1>1, <1>2, RemovalKept DEF Flow
<1> QED
  BY <1>2, <1>3, <1>4, <1>5 DEF Flow

-----------------------------------------------------------------------------
(***************************************************************************)
(* The steps of removeAllForApp().                                         *)
(***************************************************************************)

\* The launches wait as before; what is deleted is no decision.
LEMMA LaunchesKept ==
  ASSUME Flow, UNCHANGED <<pc, at, value, answered, held>>,
         \A c \in Launches : (c \in Sent' <=> c \in Sent) /\ (c \in Back' <=> c \in Back),
         \A p \in Permissions : store'[p] \in {store[p], "notSet"}
  PROVE  \A c \in Launches : WaitsForOne(c)' /\ SawTheStore(c)'
<1> SUFFICES ASSUME NEW c \in Launches PROVE WaitsForOne(c)' /\ SawTheStore(c)'
  OBVIOUS
<1>1. store'[at[c]] \in {store[at[c]], "notSet"} /\ "notSet" \notin Decisions
  BY DEF Flow, TypeOK, Decisions
<1>2. WaitsForOne(c) /\ SawTheStore(c)
  BY DEF Flow
<1> QED
  BY <1>1, <1>2, LaunchKept

LEMMA RemoveAllFlow == ASSUME Flow, RemoveAllForApp PROVE Flow'
<1> USE DEF RemoveAllForApp, service, flow, call
<1>1. List \notin Sent \union Back /\ Failed(0) \notin Back
  BY DEF Flow, ListsOnce
<1>2. /\ Wired' /\ Sent' = Sent \union {List} /\ Back' = Back
  BY <1>1, Requested DEF Flow, Wired, Sent, Back, Removals
<1>3. TypeOK'
  BY <1>2, WiredTypes DEF Flow, TypeOK, ToSet, Wired, Replies
<1>4. \A c \in Launches : WaitsForOne(c)' /\ SawTheStore(c)'
  BY <1>2, Apart, LaunchesKept
<1>5. ListsOnce'
  BY <1>1, <1>2, Apart DEF ListsOnce, Flow, removing
<1>6. ASSUME NEW p \in Permissions PROVE DeletesOnce(p)' /\ Cleared(p)'
  <2>1. Delete(p) # List /\ Delete(p) \notin Sent \union Back /\ Failed(p) \notin Back
    BY <1>6, Apart, FlowAssumption DEF Flow, DeletesOnce, Permissions
  <2> QED
    BY <1>1, <1>2, <2>1 DEF DeletesOnce, Cleared
<1> QED
  BY <1>2, <1>3, <1>4, <1>5, <1>6 DEF Flow

\* A request of removeAllForApp() is served.
LEMMA ServedRemovalFlow ==
  ASSUME Flow, NEW request \in Removals, NEW reply \in Replies, reply \notin Back,
         ServedRemoval(request, reply)
  PROVE  /\ Wired' /\ request \in Sent
         /\ Sent' = Sent \ {request} /\ Back' = Back \union {reply}
         /\ UNCHANGED <<flow, call, removal, broken>>
         /\ \A c \in Launches : (c \in Sent' <=> c \in Sent) /\ (c \in Back' <=> c \in Back)
<1>1. /\ bus # <<>> /\ Head(bus) = request /\ bus' = Tail(bus)
      /\ replies' = Append(replies, reply)
      /\ UNCHANGED <<flow, call, removal, broken>>
  BY DEF ServedRemoval
<1>2. /\ Wired' /\ request \in Sent
      /\ Sent' = Sent \ {request} /\ Back' = Back \union {reply}
  BY <1>1, Passed DEF Flow, Replies
<1>3. request \in Replies
  BY DEF Replies
<1> QED
  BY <1>1, <1>2, <1>3, Apart

\* A request that is served was sent.
LEMMA HeadSent ==
  ASSUME Flow, NEW request \in Removals, NEW reply, ServedRemoval(request, reply)
  PROVE  request \in Sent
  BY Taken DEF Flow, Wired, Sent, ServedRemoval

LEMMA ServerListsFlow == ASSUME Flow, ServerLists PROVE Flow'
<1> USE DEF ServerLists, service, flow, call
<1>1. List \in Removals /\ List \in Replies
  BY DEF Removals, Replies
<1>2. List \in Sent
  BY <1>1, HeadSent
<1>3. removal = "listing" /\ List \notin Back /\ Failed(0) \notin Back
  BY <1>2 DEF Flow, ListsOnce
<1>4. /\ Wired' /\ Sent' = Sent \ {List} /\ Back' = Back \union {List}
      /\ UNCHANGED <<flow, call, removal, broken>>
      /\ \A c \in Launches : (c \in Sent' <=> c \in Sent) /\ (c \in Back' <=> c \in Back)
  BY <1>1, <1>3, ServedRemovalFlow
<1>5. /\ targets' = (Permissions \ Devices) \union SharedDevices
                      \union {p \in Devices : store[p] # "notSet"}
      /\ UNCHANGED <<store, disturbed, held, fresh, answered>>
  OBVIOUS
<1>6. targets' \subseteq Permissions
  BY <1>5, FlowAssumption DEF Permissions
<1>7. TypeOK'
  BY <1>4, <1>5, <1>6, WiredTypes DEF Flow, TypeOK, ToSet, Wired, Replies
<1>8. \A c \in Launches : WaitsForOne(c)' /\ SawTheStore(c)'
  BY <1>4, <1>5, LaunchesKept
<1>9. ListsOnce'
  BY <1>3, <1>4, Apart, FlowAssumption DEF ListsOnce, Flow
<1>10. ASSUME NEW p \in Permissions PROVE DeletesOnce(p)' /\ Cleared(p)'
  <2>1. /\ Delete(p) # List /\ Failed(p) # List
        /\ Delete(p) \notin Sent \union Back /\ Failed(p) \notin Back
    BY <1>3, <1>10, Apart, FlowAssumption DEF Flow, DeletesOnce, Permissions
  <2>2. p \in targets' \/ store[p] = "notSet"
    BY <1>5, <1>10
  <2> QED
    BY <1>4, <1>5, <2>1, <2>2 DEF DeletesOnce, Cleared
<1> QED
  BY <1>4, <1>7, <1>8, <1>9, <1>10 DEF Flow

LEMMA ServerDeletesFlow ==
  ASSUME Flow, NEW p \in Permissions, ServerDeletes(p) PROVE Flow'
<1> USE DEF ServerDeletes, flow, call
<1>1. Delete(p) \in Removals /\ Delete(p) \in Replies
  BY DEF Removals, Replies
<1>2. Delete(p) \in Sent
  BY <1>1, HeadSent
<1>3. /\ removal = "deleting" /\ p \in targets
      /\ Delete(p) \notin Back /\ Failed(p) \notin Back
  BY <1>2 DEF Flow, DeletesOnce
<1>4. /\ Wired' /\ Sent' = Sent \ {Delete(p)} /\ Back' = Back \union {Delete(p)}
      /\ UNCHANGED <<flow, call, removal, broken>>
      /\ \A c \in Launches : (c \in Sent' <=> c \in Sent) /\ (c \in Back' <=> c \in Back)
  BY <1>1, <1>3, ServedRemovalFlow
<1>5. /\ store' = [store EXCEPT ![p] = "notSet"]
      /\ UNCHANGED <<targets, fresh, held, disturbed, answered>>
  OBVIOUS
<1>6. TypeOK'
  BY <1>4, <1>5, WiredTypes DEF Flow, TypeOK, ToSet, Wired, Stored, Replies
<1>7. \A q \in Permissions : store'[q] = IF q = p THEN "notSet" ELSE store[q]
  BY <1>5 DEF Flow, TypeOK
<1>8. \A c \in Launches : WaitsForOne(c)' /\ SawTheStore(c)'
  BY <1>4, <1>5, <1>7, LaunchesKept
<1>9. ListsOnce'
  BY <1>4, Apart, FlowAssumption DEF Flow, ListsOnce, Permissions
<1>10. ASSUME NEW q \in Permissions PROVE DeletesOnce(q)' /\ Cleared(q)'
  <2>1. /\ q # p => Delete(q) # Delete(p)
        /\ Failed(q) # Delete(p) /\ List # Delete(p)
    BY <1>10, Apart, FlowAssumption DEF Permissions
  <2>2. DeletesOnce(q) /\ Cleared(q)
    BY DEF Flow
  <2>3. DeletesOnce(q)'
    BY <1>3, <1>4, <1>5, <2>1, <2>2 DEF DeletesOnce
  <2>4. Cleared(q)'
    BY <1>3, <1>4, <1>5, <1>7, <2>1, <2>2 DEF Cleared
  <2> QED
    BY <2>3, <2>4
<1> QED
  BY <1>4, <1>6, <1>8, <1>9, <1>10 DEF Flow

LEMMA ServerFailsRemovalFlow ==
  ASSUME Flow, NEW request \in Removals, ServerFailsRemoval(request)
  PROVE  Flow'
<1> USE DEF flow, call
<1>1. /\ ServedRemoval(request, Failed(request[2]))
      /\ UNCHANGED <<store, held, fresh, targets, answered>>
      /\ disturbed < MaxDisturbances /\ disturbed' = disturbed + 1
  BY DEF ServerFailsRemoval, Disturbs
<1>2. request \in Sent
  BY <1>1, HeadSent
<1>3. CASE request = List
  <2>1. request[2] = 0
    BY <1>3 DEF List
  <2>2. /\ removal = "listing" /\ List \notin Back /\ Failed(0) \notin Back
        /\ Failed(0) \in Replies
    BY <1>2, <1>3, Apart DEF Flow, ListsOnce
  <2>3. /\ Wired' /\ Sent' = Sent \ {List} /\ Back' = Back \union {Failed(0)}
        /\ UNCHANGED <<flow, call, removal, broken>>
        /\ \A c \in Launches : (c \in Sent' <=> c \in Sent) /\ (c \in Back' <=> c \in Back)
    BY <1>1, <1>3, <2>1, <2>2, ServedRemovalFlow
  <2>4. TypeOK'
    BY <1>1, <2>3, WiredTypes, FlowAssumption DEF Flow, TypeOK, ToSet, Wired, Replies
  <2>5. \A c \in Launches : WaitsForOne(c)' /\ SawTheStore(c)'
    BY <1>1, <2>3, LaunchesKept
  <2>6. ListsOnce'
    BY <2>2, <2>3, Apart, FlowAssumption DEF ListsOnce, Flow
  <2>7. ASSUME NEW p \in Permissions PROVE DeletesOnce(p)' /\ Cleared(p)'
    <3>1. /\ Delete(p) # List /\ Failed(p) # List
          /\ Failed(p) # Failed(0) /\ Delete(p) # Failed(0) /\ List # Failed(0)
      BY <2>7, Apart, FlowAssumption DEF Permissions
    <3>2. DeletesOnce(p) /\ Cleared(p)
      BY DEF Flow
    <3> QED
      BY <1>1, <2>2, <2>3, <3>1, <3>2 DEF DeletesOnce, Cleared
  <2> QED
    BY <2>3, <2>4, <2>5, <2>6, <2>7 DEF Flow
<1>4. CASE request # List
  <2>1. PICK p \in Permissions : request = Delete(p)
    BY <1>4 DEF Removals
  <2>2. request[2] = p
    BY <2>1 DEF Delete
  <2>3. /\ removal = "deleting" /\ p \in targets
        /\ Delete(p) \notin Back /\ Failed(p) \notin Back /\ Failed(p) \in Replies
    BY <1>2, <2>1, Apart DEF Flow, DeletesOnce
  <2>4. /\ Wired' /\ Sent' = Sent \ {Delete(p)} /\ Back' = Back \union {Failed(p)}
        /\ UNCHANGED <<flow, call, removal, broken>>
        /\ \A c \in Launches : (c \in Sent' <=> c \in Sent) /\ (c \in Back' <=> c \in Back)
    BY <1>1, <2>1, <2>2, <2>3, ServedRemovalFlow
  <2>5. TypeOK'
    BY <1>1, <2>4, WiredTypes, FlowAssumption DEF Flow, TypeOK, ToSet, Wired, Replies
  <2>6. \A c \in Launches : WaitsForOne(c)' /\ SawTheStore(c)'
    BY <1>1, <2>4, LaunchesKept
  <2>7. Failed(0) # Failed(p) /\ List # Delete(p) /\ List # Failed(p)
    BY Apart, FlowAssumption DEF Permissions
  <2>8. ListsOnce'
    BY <2>4, <2>7 DEF Flow, ListsOnce
  <2>9. ASSUME NEW q \in Permissions PROVE DeletesOnce(q)' /\ Cleared(q)'
    <3>1. /\ q # p => Delete(q) # Delete(p) /\ Failed(q) # Failed(p)
          /\ Failed(p) # Delete(q) /\ Failed(q) # Delete(p)
      BY <2>9, Apart, FlowAssumption DEF Permissions
    <3>2. DeletesOnce(q) /\ Cleared(q)
      BY DEF Flow
    <3>3. DeletesOnce(q)'
      BY <1>1, <2>3, <2>4, <3>1, <3>2 DEF DeletesOnce
    <3>4. Cleared(q)'
      BY <1>1, <2>4, <2>7, <3>1, <3>2 DEF Cleared
    <3> QED
      BY <3>3, <3>4
  <2> QED
    BY <2>4, <2>5, <2>6, <2>8, <2>9 DEF Flow
<1> QED
  BY <1>3, <1>4

\* What is deleted, in some order, each once.
LEMMA Deletions ==
  ASSUME Flow, NEW order \in SetToSeqs(targets), NEW t,
         t = [i \in DOMAIN order |-> Delete(order[i])]
  PROVE  /\ Cardinality(targets) \in Nat
         /\ t \in [1..Cardinality(targets) -> Removals] /\ IsInjective(t)
         /\ ToSet(t) \subseteq {Delete(p) : p \in targets}
<1> DEFINE n == Cardinality(targets)
<1>1. n \in Nat
  <2>1. IsFiniteSet(Permissions)
    BY FS_Interval, FlowAssumption DEF Permissions
  <2>2. targets \in SUBSET Permissions
    BY DEF Flow, TypeOK
  <2>3. IsFiniteSet(targets)
    BY <2>1, <2>2, FS_Subset
  <2> QED
    BY <2>3, FS_CardinalityType
<1>2. /\ order \in [1..n -> targets]
      /\ \A i, j \in 1..n : i # j => order[i] # order[j]
  BY DEF SetToSeqs
<1> HIDE DEF n
<1>3. targets \subseteq Permissions /\ Permissions \subseteq 0..NumPermissions
  BY FlowAssumption DEF Flow, TypeOK, Permissions
<1>4. DOMAIN t = 1..n /\ \A i \in 1..n : t[i] = Delete(order[i]) /\ order[i] \in targets
  BY <1>2
<1>5. t \in [1..n -> Removals]
  BY <1>2, <1>3 DEF Removals
<1>6. \A i, j \in 1..n : t[i] = t[j] => i = j
  BY <1>2, <1>3, <1>4, Apart
<1>7. IsInjective(t)
  BY <1>4, <1>6 DEF IsInjective
<1>8. ToSet(t) \subseteq {Delete(p) : p \in targets}
  BY <1>4 DEF ToSet
<1> QED
  BY <1>1, <1>5, <1>7, <1>8 DEF n

\* A reply to removeAllForApp() is delivered.
LEMMA RemovalReplied ==
  ASSUME Flow, NEW reply \in Replies, replies # <<>>, Head(replies) = reply,
         replies' = Tail(replies)
  PROVE  /\ reply \in Back /\ Back' = Back \ {reply}
         /\ replies' \in Seq(Launches \union Replies)
         /\ IsInjective(replies')
         /\ \A c \in Launches : c \in Back' <=> c \in Back
<1>1. /\ replies' \in Seq(Launches \union Replies)
      /\ IsInjective(replies') /\ reply \in Back /\ Back' = Back \ {reply}
  BY Delivered DEF Flow, Back
<1> QED
  BY <1>1, Apart

LEMMA ListReturnsFlow == ASSUME Flow, ListReturns PROVE Flow'
<1> USE DEF service, flow, call
<1>1. /\ replies # <<>> /\ Head(replies) = List /\ replies' = Tail(replies)
      /\ removal' = IF targets = {} THEN "done" ELSE "deleting"
      /\ UNCHANGED <<store, disturbed, held, fresh, listener, closed, pc, at, value, result,
                     targets, broken, answered>>
  BY DEF ListReturns
<1>2. /\ List \in Back /\ Back' = Back \ {List} /\ IsInjective(replies')
      /\ replies' \in Seq(Launches \union Replies)
      /\ \A c \in Launches : c \in Back' <=> c \in Back
  BY <1>1, Apart, RemovalReplied
<1>3. removal = "listing" /\ List \notin Sent /\ Failed(0) \notin Back
  BY <1>2 DEF Flow, ListsOnce
<1>4. \A p \in Permissions : Delete(p) \notin Sent \union Back /\ Failed(p) \notin Back
  BY <1>3 DEF Flow, DeletesOnce
<1>5. PICK order \in SetToSeqs(targets) :
        bus' = bus \o [i \in DOMAIN order |-> Delete(order[i])]
  BY DEF ListReturns
<1> DEFINE t == [i \in DOMAIN order |-> Delete(order[i])]
<1>6. /\ Cardinality(targets) \in Nat
      /\ t \in [1..Cardinality(targets) -> Removals] /\ IsInjective(t)
      /\ ToSet(t) \subseteq {Delete(p) : p \in targets}
  BY Deletions
<1>7. bus' = bus \o t
  BY <1>5
<1> HIDE DEF t
<1>8. targets \subseteq Permissions /\ Permissions \subseteq 0..NumPermissions
  BY FlowAssumption DEF Flow, TypeOK, Permissions
<1>9. \A x \in ToSet(t) : x \notin Sent
  BY <1>4, <1>6, <1>8
<1>10. /\ bus' \in Seq(Launches \union Removals) /\ IsInjective(bus')
       /\ Sent' = Sent \union ToSet(t)
  <2> DEFINE S == Launches \union Removals
             n == Cardinality(targets)
  <2>1. bus \in Seq(S) /\ n \in Nat /\ t \in [1..n -> S] /\ IsInjective(bus) /\ IsInjective(t)
    BY <1>6 DEF Flow, Wired
  <2>2. \A x \in ToSet(t) : x \notin ToSet(bus)
    BY <1>9 DEF Sent
  <2> HIDE DEF S, n
  <2>3. /\ bus \o t \in Seq(S) /\ IsInjective(bus \o t)
        /\ ToSet(bus \o t) = ToSet(bus) \union ToSet(t)
    BY <2>1, <2>2, Extended
  <2> QED
    BY <1>7, <2>3 DEF Sent, S
<1>11. Wired'
  BY <1>2, <1>10 DEF Wired
<1>12. TypeOK'
  BY <1>1, <1>11, WiredTypes DEF Flow, TypeOK, ToSet, Wired, Replies
<1>13. \A x \in ToSet(t) : x \in Replies /\ x # List /\ x # Failed(0)
  BY <1>6, <1>8, Apart, FlowAssumption
<1>14. \A c \in Launches : WaitsForOne(c)' /\ SawTheStore(c)'
  <2>1. \A c \in Launches : c \in Sent' <=> c \in Sent
    BY <1>10, <1>13, Apart
  <2> QED
    BY <1>1, <1>2, <2>1, LaunchesKept
<1>15. ListsOnce'
  BY <1>1, <1>2, <1>3, <1>10, <1>13 DEF ListsOnce
<1>16. ASSUME NEW p \in Permissions PROVE DeletesOnce(p)' /\ Cleared(p)'
  <2>1. Delete(p) \notin Back' /\ Failed(p) \notin Back' /\ List \notin Back'
    BY <1>2, <1>4
  <2>2. Delete(p) \in Sent' => p \in targets
    <3>1. SUFFICES ASSUME Delete(p) \in Sent' PROVE p \in targets
      OBVIOUS
    <3>2. PICK q \in targets : Delete(p) = Delete(q)
      BY <1>4, <1>6, <1>10, <3>1
    <3> QED
      BY <1>8, <3>2, Apart
  <2>3. Delete(p) \in Sent' => removal' = "deleting"
    BY <1>1, <2>2
  <2>4. p \in targets \/ broken \/ store[p] = "notSet" \/ p \in fresh
    BY <1>2 DEF Flow, Cleared
  <2> QED
    BY <1>1, <2>1, <2>2, <2>3, <2>4 DEF DeletesOnce, Cleared
<1> QED
  BY <1>11, <1>12, <1>14, <1>15, <1>16 DEF Flow

LEMMA ListFailsFlow == ASSUME Flow, ListFails PROVE Flow'
<1> USE DEF flow, call
<1>1. /\ replies # <<>> /\ Head(replies) = Failed(0) /\ replies' = Tail(replies)
      /\ removal' = "failed" /\ fresh' = {}
      /\ UNCHANGED <<store, disturbed, held, bus, listener, closed, pc, at, value, result,
                     targets, broken, answered>>
  BY DEF ListFails
<1>2. /\ Failed(0) \in Back /\ Back' = Back \ {Failed(0)} /\ IsInjective(replies')
      /\ replies' \in Seq(Launches \union Replies)
      /\ \A c \in Launches : c \in Back' <=> c \in Back
  BY <1>1, Apart, RemovalReplied
<1>3. removal = "listing" /\ List \notin Sent \union Back
  BY <1>2 DEF Flow, ListsOnce
<1>4. \A p \in Permissions : Delete(p) \notin Sent \union Back /\ Failed(p) \notin Back
  BY <1>3 DEF Flow, DeletesOnce
<1>5. Wired' /\ Sent' = Sent
  BY <1>1, <1>2 DEF Flow, Wired, Sent
<1>6. TypeOK'
  BY <1>1, <1>5, WiredTypes DEF Flow, TypeOK, ToSet, Wired, Replies
<1>7. \A c \in Launches : WaitsForOne(c)' /\ SawTheStore(c)'
  BY <1>1, <1>2, <1>5, LaunchesKept
<1>8. ListsOnce'
  BY <1>1, <1>2, <1>3, <1>5 DEF ListsOnce
<1>9. ASSUME NEW p \in Permissions PROVE DeletesOnce(p)' /\ Cleared(p)'
  BY <1>1, <1>2, <1>3, <1>4, <1>5, <1>9 DEF DeletesOnce, Cleared
<1> QED
  BY <1>5, <1>6, <1>7, <1>8, <1>9 DEF Flow

\* A deletion has been answered, or has failed.
LEMMA DeletionBack ==
  ASSUME Flow, NEW p \in Permissions, NEW ok \in BOOLEAN, DeleteReturns(p, ok), NEW reply,
         reply = IF ok THEN Delete(p) ELSE Failed(p)
  PROVE  /\ reply \in Back /\ Back' = Back \ {reply} /\ IsInjective(replies')
         /\ replies' \in Seq(Launches \union Replies)
         /\ \A c \in Launches : c \in Back' <=> c \in Back
         /\ removal = "deleting" /\ p \in targets /\ Delete(p) \notin Sent
         /\ List \notin Sent \union Back /\ Failed(0) \notin Back
         /\ Delete(p) \notin Back' /\ Failed(p) \notin Back'
<1>1. replies # <<>> /\ Head(replies) = reply /\ replies' = Tail(replies) /\ reply \in Replies
  BY Apart DEF DeleteReturns
<1>2. /\ reply \in Back /\ Back' = Back \ {reply} /\ IsInjective(replies')
      /\ replies' \in Seq(Launches \union Replies)
      /\ \A c \in Launches : c \in Back' <=> c \in Back
  BY <1>1, RemovalReplied
<1>3. removal = "deleting" /\ p \in targets /\ Delete(p) \notin Sent
      /\ ~(Delete(p) \in Back /\ Failed(p) \in Back)
  BY <1>2 DEF Flow, DeletesOnce
<1>4. List \notin Sent \union Back /\ Failed(0) \notin Back
  BY <1>3 DEF Flow, ListsOnce
<1> QED
  BY <1>2, <1>3, <1>4

LEMMA DeleteReturnsFlow ==
  ASSUME Flow, NEW p \in Permissions, NEW ok \in BOOLEAN, DeleteReturns(p, ok)
  PROVE  Flow'
<1> USE DEF flow, call
<1>1. /\ targets' = targets \ {p} /\ broken' = (broken \/ ~ok)
      /\ removal' = IF targets' # {} THEN removal ELSE IF broken' THEN "failed" ELSE "done"
      /\ fresh' = (IF removal' = "deleting" THEN fresh ELSE {})
      /\ UNCHANGED <<store, disturbed, held, bus, listener, closed, pc, at, value, result,
                     answered>>
  BY DEF DeleteReturns
<1> DEFINE reply == IF ok THEN Delete(p) ELSE Failed(p)
<1>2. /\ reply \in Back /\ Back' = Back \ {reply} /\ IsInjective(replies')
      /\ replies' \in Seq(Launches \union Replies)
      /\ \A c \in Launches : c \in Back' <=> c \in Back
      /\ removal = "deleting" /\ p \in targets /\ Delete(p) \notin Sent
      /\ List \notin Sent \union Back /\ Failed(0) \notin Back
      /\ Delete(p) \notin Back' /\ Failed(p) \notin Back'
  BY DeletionBack
<1>3. Wired' /\ Sent' = Sent
  BY <1>1, <1>2 DEF Flow, Wired, Sent
<1>4. TypeOK'
  BY <1>1, <1>2, <1>3, WiredTypes DEF Flow, TypeOK, ToSet, Wired, Replies
<1>5. \A c \in Launches : WaitsForOne(c)' /\ SawTheStore(c)'
  BY <1>1, <1>2, <1>3, LaunchesKept
<1>6. ListsOnce'
  BY <1>1, <1>2, <1>3 DEF ListsOnce
<1>7. ASSUME NEW q \in Permissions PROVE DeletesOnce(q)' /\ Cleared(q)'
  <2>1. DeletesOnce(q) /\ Cleared(q)
    BY DEF Flow
  <2>2. DeletesOnce(q)'
    <3>1. CASE q = p
      BY <1>2, <1>3, <3>1 DEF DeletesOnce
    <3>2. CASE q # p
      BY <1>1, <1>2, <1>3, <2>1, <3>2 DEF DeletesOnce
    <3> QED
      BY <3>1, <3>2
  <2>3. q = p => broken' \/ store[q] = "notSet" \/ q \in fresh
    BY <1>1, <1>2, <2>1 DEF Cleared
  <2>4. Delete(q) \in Back' => removal' = "deleting"
    BY <2>2 DEF DeletesOnce
  <2>5. Cleared(q)'
    BY <1>1, <1>2, <2>1, <2>3, <2>4 DEF Cleared
  <2> QED
    BY <2>2, <2>5
<1> QED
  BY <1>3, <1>4, <1>5, <1>6, <1>7 DEF Flow

-----------------------------------------------------------------------------
(***************************************************************************)
(* The theorems.                                                           *)
(***************************************************************************)

LEMMA InitFlow == Init => Flow
<1> SUFFICES ASSUME Init PROVE Flow
  OBVIOUS
<1> USE FlowAssumption DEF Init
<1>1. 1 \in Permissions
  BY DEF Permissions
<1>2. Sent = {} /\ Back = {}
  BY DEF Sent, Back, ToSet
<1>3. Wired
  BY DEF Wired, IsInjective
<1>4. TypeOK
  <2>1. store \in [Permissions -> Stored]
    BY DEF Stored, Decisions
  <2>2. ToSet(bus) = {} /\ ToSet(replies) = {}
    BY <1>2 DEF Sent, Back
  <2>3. disturbed \in 0..MaxDisturbances
    OBVIOUS
  <2>4. /\ at \in [Launches -> Permissions] /\ held \in [Launches -> SUBSET Decisions]
        /\ value \in [Launches -> Stored \union {"error"}]
        /\ result \in [Launches -> Stored \union {"none"}]
        /\ answered \in [Launches -> Decisions \union {"none"}]
    BY <1>1 DEF Stored
  <2> QED
    BY <2>1, <2>2, <2>3, <2>4 DEF TypeOK
<1>5. \A c \in Launches : WaitsForOne(c) /\ SawTheStore(c)
  BY <1>2 DEF WaitsForOne, SawTheStore, Busy
<1>6. ListsOnce /\ \A p \in Permissions : DeletesOnce(p) /\ Cleared(p)
  BY <1>2 DEF ListsOnce, DeletesOnce, Cleared
<1> QED
  BY <1>3, <1>4, <1>5, <1>6 DEF Flow

LEMMA NextFlow == Flow /\ [Next]_vars => Flow'
<1> SUFFICES ASSUME Flow, [Next]_vars PROVE Flow'
  OBVIOUS
<1>1. ASSUME NEW c \in Launches, Call(c) \/ Isolate(c) \/ Server(c) \/ Answered(c)
      PROVE  Flow'
  <2>1. CASE Call(c)
    BY <2>1, CallFlow
  <2>2. CASE Isolate(c)
    BY <2>2, ReturnsFlow, PromptFlow, FailsFlow DEF Isolate
  <2>3. CASE Server(c)
    BY <2>3, ServerGetsFlow, ServerSetsFlow, ServerFailsFlow DEF Server
  <2>4. CASE Answered(c)
    BY <2>4, RespondFlow DEF Answered
  <2> QED
    BY <1>1, <2>1, <2>2, <2>3, <2>4
<1>2. ASSUME NEW p \in Permissions, NEW status \in Decisions, OtherWrites(p, status)
      PROVE  Flow'
  BY <1>2, OtherWritesFlow
<1>3. CASE ListenerArrives \/ ListenerLeaves
  BY <1>3, ListenerFlow
<1>4. CASE Close
  BY <1>4, CloseFlow
<1>5. CASE Removal
  BY <1>5, RemoveAllFlow, ServerListsFlow, ListReturnsFlow, ListFailsFlow, ServerDeletesFlow,
     DeleteReturnsFlow, ServerFailsRemovalFlow DEF Removal
<1>6. CASE UNCHANGED vars
  <2>1. UNCHANGED <<service, wire, flow, call, removing, answered>>
    BY <1>6 DEF vars
  <2> USE DEF service, wire, flow, call, removing
  <2>2. Wired' /\ Sent' = Sent /\ Back' = Back
    BY <2>1 DEF Flow, Wired, Sent, Back
  <2>3. TypeOK'
    BY <2>1 DEF Flow, TypeOK
  <2>4. ListsOnce' /\ \A q \in Permissions : DeletesOnce(q)' /\ Cleared(q)'
    BY <2>1, <2>2, RemovalKept DEF Flow
  <2>5. \A c \in Launches : WaitsForOne(c)' /\ SawTheStore(c)'
    BY <2>1, <2>2 DEF Flow, WaitsForOne, SawTheStore
  <2> QED
    BY <2>2, <2>3, <2>4, <2>5 DEF Flow
<1> QED
  BY <1>1, <1>2, <1>3, <1>4, <1>5, <1>6 DEF Next

\* Types are kept: the store only ever gets a status, what goes over the bus is
\* a call of a launch or a request of removeAllForApp(), and the disturbances
\* stay within their bound (setStatus(), respond(), removeAllForApp()).
THEOREM TypeCorrect == Safety => []TypeOK
<1>1. Safety => []Flow
  BY InitFlow, NextFlow, PTL DEF Safety
<1>2. Flow => TypeOK
  BY DEF Flow
<1> QED
  BY <1>1, <1>2, PTL

\* What a step stores.
LEMMA StoredByAnAnswer ==
  ASSUME Flow, [Next]_vars, NEW p \in Permissions, store'[p] # store[p]
  PROVE  \/ disturbed' # disturbed
         \/ removal = "deleting" /\ store'[p] = "notSet"
         \/ \E c \in Launches : at[c] = p /\ answered[c] = store'[p]
<1> USE DEF service, flow, call, removing, wire, vars
<1>1. ASSUME NEW c \in Launches, Call(c) \/ Isolate(c) \/ Answered(c) PROVE FALSE
  BY <1>1 DEF Call, Isolate, Answered, GetReturnsDecided, GetReturnsUnasked, GetReturnsPrompt,
     SetReturns, CallFails, PromptCancelled, Respond
<1>2. ASSUME NEW c \in Launches, Server(c)
      PROVE  \E d \in Launches : at[d] = p /\ answered[d] = store'[p]
  <2>1. CASE ServerSets(c)
    <3>1. value[c] = answered[c]
      BY <2>1, SetsAnswer
    <3>2. store' = [store EXCEPT ![at[c]] = value[c]]
      BY <2>1 DEF ServerSets, Write
    <3>3. at[c] = p /\ store'[p] = value[c]
      BY <3>2 DEF Flow, TypeOK
    <3> QED
      BY <3>1, <3>3
  <2>2. CASE ServerGets(c) \/ ServerFails(c)
    BY <2>2 DEF ServerGets, ServerFails
  <2> QED
    BY <1>2, <2>1, <2>2 DEF Server
<1>3. ASSUME NEW q \in Permissions, NEW status \in Decisions, OtherWrites(q, status)
      PROVE  disturbed' # disturbed
  BY <1>3, FlowAssumption DEF OtherWrites, Disturbs, Flow, TypeOK
<1>4. ASSUME ListenerArrives \/ ListenerLeaves \/ Close PROVE FALSE
  BY <1>4 DEF ListenerArrives, ListenerLeaves, Close
<1>5. ASSUME Removal PROVE removal = "deleting" /\ store'[p] = "notSet"
  <2>1. PICK q \in Permissions : ServerDeletes(q)
    BY <1>5 DEF Removal, RemoveAllForApp, ServerLists, ListReturns, ListFails, DeleteReturns,
       ServerFailsRemoval
  <2>2. Delete(q) \in Sent
    BY <2>1, HeadSent DEF ServerDeletes, Removals
  <2>3. store' = [store EXCEPT ![q] = "notSet"]
    BY <2>1 DEF ServerDeletes
  <2> QED
    BY <2>2, <2>3 DEF Flow, DeletesOnce, TypeOK
<1>6. ASSUME UNCHANGED vars PROVE FALSE
  BY <1>6
<1> QED
  BY <1>1, <1>2, <1>3, <1>4, <1>5, <1>6 DEF Next

\* What a launch finds.
LEMMA FoundInTheStore ==
  ASSUME Flow, [Next]_vars, NEW c \in Launches,
         at'[c] > at[c] \/ (pc'[c] = "done" /\ pc[c] # "done")
  PROVE  result'[c] \in held[c] \union {"ask"}
<1> USE DEF service, flow, call, removing, wire, vars
<1>1. PICK status \in held[c] \union {"ask"} : Resolved(c, status)
  <2>1. at[c] \in Nat
    BY FlowAssumption DEF Flow, TypeOK, Permissions
  <2>2. ASSUME NEW d \in Launches,
               GetReturnsDecided(d) \/ GetReturnsUnasked(d) \/ SetReturns(d)
                 \/ PromptCancelled(d)
        PROVE  d = c /\ \E status \in held[c] \union {"ask"} : Resolved(c, status)
    <3>1. PICK status : Resolved(d, status)
      BY <2>2 DEF GetReturnsDecided, GetReturnsUnasked, SetReturns, PromptCancelled
    <3>2. d = c
      BY <2>1, <3>1 DEF Resolved, Flow, TypeOK
    <3>3. CASE GetReturnsDecided(c)
      <4>1. c \in Back
        BY <3>3, Taken DEF GetReturnsDecided, Replied, Flow, Wired, Back
      <4>2. value[c] \in held[c] \union {"ask"}
        BY <3>3, <4>1 DEF GetReturnsDecided, Flow, TypeOK, Stored, SawTheStore
      <4> QED
        BY <3>2, <3>3, <4>2 DEF GetReturnsDecided
    <3>4. CASE SetReturns(c)
      <4>1. c \in Back
        BY <3>4, Taken DEF SetReturns, Replied, Flow, Wired, Back
      <4>2. value[c] \in held[c]
        BY <3>4, <4>1 DEF SetReturns, Flow, WaitsForOne, SawTheStore
      <4> QED
        BY <3>2, <3>4, <4>2 DEF SetReturns
    <3> QED
      BY <2>2, <3>2, <3>3, <3>4 DEF GetReturnsUnasked, PromptCancelled
  <2>3. ASSUME NEW d \in Launches,
               Call(d) \/ GetReturnsPrompt(d) \/ CallFails(d) \/ Server(d) \/ Answered(d)
        PROVE  FALSE
    <3>1. /\ at'[c] = at[c] \/ (at' = [at EXCEPT ![d] = 1])
          /\ \/ pc' = pc
             \/ \E place \in {"getting", "prompted", "failed", "setting"} :
                  pc' = [pc EXCEPT ![d] = place]
      BY <2>3 DEF Call, GetReturnsPrompt, CallFails, Server, ServerGets, ServerSets,
         ServerFails, Served, Answered, Respond
    <3>2. at'[c] = at[c] \/ at'[c] = 1
      BY <3>1 DEF Flow, TypeOK
    <3>3. ~(at'[c] > at[c])
      BY <2>1, <3>2, FlowAssumption DEF Flow, TypeOK, Permissions
    <3> QED
      BY <3>1, <3>3 DEF Flow, TypeOK
  <2>4. ASSUME \/ \E p \in Permissions, status \in Decisions : OtherWrites(p, status)
               \/ ListenerArrives \/ ListenerLeaves \/ Removal \/ UNCHANGED vars
        PROVE  FALSE
    <3>1. at' = at /\ pc' = pc
      BY <2>4 DEF OtherWrites, ListenerArrives, ListenerLeaves, Removal, RemoveAllForApp,
         ServerLists, ListReturns, ListFails, ServerDeletes, DeleteReturns,
         ServerFailsRemoval, ServedRemoval
    <3> QED
      BY <2>1, <3>1
  <2>5. ASSUME Close PROVE FALSE
    <3>1. at' = at /\ pc'[c] \in {pc[c], "cancelled"}
      BY <2>5 DEF Close
    <3> QED
      BY <2>1, <3>1
  <2> QED
    BY <2>2, <2>3, <2>4, <2>5 DEF Next, Isolate
<1> QED
  BY <1>1 DEF Resolved, Flow, TypeOK

\* Only an answer decides: what is stored answers the prompt of a launch that is
\* at the permission, other programs and removeAllForApp() apart, and a launch
\* takes for granted or denied only what the store had while it was at the
\* permission (ensureLaunchPermissions(), respond(), close()).
THEOREM OnlyAnswersDecide == Safety => AnswersDecide
<1>1. Safety => []Flow
  BY InitFlow, NextFlow, PTL DEF Safety
<1>2. Flow /\ [Next]_vars =>
        [/\ \A p \in Permissions : store'[p] # store[p] =>
              \/ disturbed' # disturbed
              \/ removal = "deleting" /\ store'[p] = "notSet"
              \/ \E c \in Launches : at[c] = p /\ answered[c] = store'[p]
         /\ \A c \in Launches :
              at'[c] > at[c] \/ (pc'[c] = "done" /\ pc[c] # "done") =>
                result'[c] \in held[c] \union {"ask"}]_vars
  BY StoredByAnAnswer, FoundInTheStore
<1> QED
  BY <1>1, <1>2, PTL DEF Safety, AnswersDecide

\* When removeAllForApp() returns, what is stored was written while it ran: every
\* id of the table that was listed was deleted, and what was not listed was not
\* set (removeAllForApp(), delete(), list()).
THEOREM RemovesAll == Safety => RemovalIsClean
<1>1. Safety => []Flow
  BY InitFlow, NextFlow, PTL DEF Safety
<1>2. ASSUME Flow, Next, removal # "done", removal' = "done", NEW p \in Permissions
      PROVE  store'[p] = "notSet" \/ p \in fresh
  <2> USE DEF service, flow, call, removing, wire
  <2>1. CASE ListReturns
    <3>1. targets = {} /\ store' = store
      BY <1>2, <2>1 DEF ListReturns
    <3>2. List \in Back
      BY <1>2, <2>1, Taken DEF ListReturns, Flow, Wired, Back
    <3>3. ~broken
      BY <1>2, <3>2 DEF Flow, ListsOnce
    <3> QED
      BY <1>2, <3>1, <3>2, <3>3 DEF Flow, Cleared
  <2>2. ASSUME NEW q \in Permissions, NEW ok \in BOOLEAN, DeleteReturns(q, ok)
        PROVE  store'[p] = "notSet" \/ p \in fresh
    <3>1. ok /\ ~broken /\ targets \ {q} = {} /\ store' = store
      BY <1>2, <2>2 DEF DeleteReturns
    <3>2. Delete(q) \in Back /\ removal = "deleting"
      BY <1>2, <2>2, <3>1, DeletionBack
    <3>3. CASE p = q
      BY <1>2, <3>1, <3>2, <3>3 DEF Flow, Cleared
    <3>4. CASE p # q
      BY <1>2, <3>1, <3>2, <3>4 DEF Flow, Cleared
    <3> QED
      BY <3>3, <3>4
  <2>3. \/ ListReturns
        \/ \E q \in Permissions, ok \in BOOLEAN : DeleteReturns(q, ok)
    <3>1. ASSUME NEW c \in Launches, Call(c) \/ Isolate(c) \/ Server(c) \/ Answered(c)
          PROVE  removal' = removal
      BY <3>1 DEF Call, Isolate, Answered, GetReturnsDecided, GetReturnsUnasked,
         GetReturnsPrompt, SetReturns, CallFails, PromptCancelled, Respond, Server, ServerGets,
         ServerSets, ServerFails, Served
    <3>2. ASSUME \/ \E q \in Permissions, status \in Decisions : OtherWrites(q, status)
                 \/ ListenerArrives \/ ListenerLeaves \/ Close
          PROVE  removal' = removal
      BY <3>2 DEF OtherWrites, ListenerArrives, ListenerLeaves, Close
    <3>3. ASSUME \/ RemoveAllForApp \/ ServerLists \/ ListFails
                 \/ \E q \in Permissions : ServerDeletes(q)
                 \/ \E request \in Removals : ServerFailsRemoval(request)
          PROVE  removal' \in {removal, "listing", "failed"}
      BY <3>3 DEF RemoveAllForApp, ServerLists, ListFails, ServerDeletes, ServerFailsRemoval,
         ServedRemoval
    <3> QED
      BY <1>2, <3>1, <3>2, <3>3 DEF Next, Removal
  <2> QED
    BY <2>1, <2>2, <2>3
<1>3. Flow /\ [Next]_vars =>
        [removal # "done" /\ removal' = "done" =>
           \A p \in Permissions : store'[p] = "notSet" \/ p \in fresh]_vars
  BY <1>2
<1> QED
  BY <1>1, <1>3, PTL DEF Safety, RemovalIsClean

=============================================================================
