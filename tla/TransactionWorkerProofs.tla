---------------------- MODULE TransactionWorkerProofs ----------------------
(***************************************************************************)
(* Proofs about TransactionWorker for every set of transactions, all their *)
(* operations and any number of changes of progress: type correctness,     *)
(* that cancel() reaches no cancellable that was given up, and that every  *)
(* future and every progress stream tells what happened.                   *)
(***************************************************************************)
EXTENDS TransactionWorker, FiniteSetTheorems, SequenceTheorems, TLAPS

-----------------------------------------------------------------------------
(***************************************************************************)
(* The codec: what is read is what was written.                            *)
(***************************************************************************)

\* The progress events, of six fields.
Events ==
  [op : {"install", "update", "uninstall"}, ref : STRING, progress : {0, 50, 100},
   bytesTransferred : {0, 1}, bytesTotal : {0}, status : {"Starting", "Downloading", "Done"}]

\* Both sides have the same six fields in the same order.
SixFields(layout) ==
  /\ DOMAIN layout = 1..6
  /\ layout[1] = <<"op", "string">> /\ layout[2] = <<"ref", "string">>
  /\ layout[3] = <<"progress", "u32">>
  /\ layout[4] = <<"bytesTransferred", "u64">> /\ layout[5] = <<"bytesTotal", "u64">>
  /\ layout[6] = <<"status", "string">>

\* A concatenation, by places.
LEMMA Joined ==
  ASSUME NEW S, NEW s \in Seq(S), NEW t \in Seq(S)
  PROVE  /\ s \o t \in Seq(S) /\ Len(s \o t) = Len(s) + Len(t)
         /\ \A i \in 1..(Len(s) + Len(t)) :
              (s \o t)[i] = IF i <= Len(s) THEN s[i] ELSE t[i - Len(s)]
  OBVIOUS

LEMMA BothHaveSixFields ==
  SixFields(TransactionProgress) /\ SixFields(DecodedTransactionProgress)
<1>1. /\ Strings(<<"op", "ref">>) = <<<<"op", "string">>, <<"ref", "string">>>>
      /\ Fields("u64", <<"bytesTransferred", "bytesTotal">>)
           = <<<<"bytesTransferred", "u64">>, <<"bytesTotal", "u64">>>>
      /\ Strings(<<"status">>) = <<<<"status", "string">>>>
  BY DEF Strings, Fields
<1>2. ASSUME NEW S, NEW s \in Seq(S), NEW t \in Seq(S), Len(s) = 2, Len(t) = 4
      PROVE  /\ DOMAIN (s \o t) = 1..6
             /\ (s \o t)[1] = s[1] /\ (s \o t)[2] = s[2] /\ (s \o t)[3] = t[1]
             /\ (s \o t)[4] = t[2] /\ (s \o t)[5] = t[3] /\ (s \o t)[6] = t[4]
  <2> DEFINE c == s \o t
  <2>1. /\ c \in Seq(S) /\ Len(c) = Len(s) + Len(t)
        /\ \A i \in 1..(Len(s) + Len(t)) : c[i] = IF i <= Len(s) THEN s[i] ELSE t[i - Len(s)]
    BY Joined
  <2> HIDE DEF c
  <2>2. /\ DOMAIN c = 1..6 /\ c[1] = s[1] /\ c[2] = s[2] /\ c[3] = t[1]
        /\ c[4] = t[2] /\ c[5] = t[3] /\ c[6] = t[4]
    BY <1>2, <2>1
  <2> QED
    BY <2>2 DEF c
<1>3. ASSUME NEW S, NEW s \in Seq(S), NEW t \in Seq(S), NEW u \in Seq(S), NEW v \in Seq(S),
             Len(s) = 2, Len(t) = 1, Len(u) = 2, Len(v) = 1
      PROVE  /\ DOMAIN (s \o t \o u \o v) = 1..6
             /\ (s \o t \o u \o v)[1] = s[1] /\ (s \o t \o u \o v)[2] = s[2]
             /\ (s \o t \o u \o v)[3] = t[1] /\ (s \o t \o u \o v)[4] = u[1]
             /\ (s \o t \o u \o v)[5] = u[2] /\ (s \o t \o u \o v)[6] = v[1]
  <2> DEFINE c == s \o t
             d == c \o u
             e == d \o v
  <2>1. /\ c \in Seq(S) /\ Len(c) = Len(s) + Len(t)
        /\ \A i \in 1..(Len(s) + Len(t)) : c[i] = IF i <= Len(s) THEN s[i] ELSE t[i - Len(s)]
    BY Joined
  <2> HIDE DEF c
  <2>2. /\ d \in Seq(S) /\ Len(d) = Len(c) + Len(u)
        /\ \A i \in 1..(Len(c) + Len(u)) : d[i] = IF i <= Len(c) THEN c[i] ELSE u[i - Len(c)]
    <3>1. c \in Seq(S)
      BY <2>1
    <3> QED
      BY <3>1, Joined
  <2> HIDE DEF d
  <2>3. /\ e \in Seq(S) /\ Len(e) = Len(d) + Len(v)
        /\ \A i \in 1..(Len(d) + Len(v)) : e[i] = IF i <= Len(d) THEN d[i] ELSE v[i - Len(d)]
    <3>1. d \in Seq(S)
      BY <2>2
    <3> QED
      BY <3>1, Joined
  <2> HIDE DEF e
  <2>4. Len(c) = 3 /\ c[1] = s[1] /\ c[2] = s[2] /\ c[3] = t[1]
    BY <1>3, <2>1
  <2>5. /\ Len(d) = 5 /\ d[1] = c[1] /\ d[2] = c[2] /\ d[3] = c[3]
        /\ d[4] = u[1] /\ d[5] = u[2]
    BY <1>3, <2>2, <2>4
  <2>6. /\ DOMAIN e = 1..6 /\ e[1] = d[1] /\ e[2] = d[2] /\ e[3] = d[3]
        /\ e[4] = d[4] /\ e[5] = d[5] /\ e[6] = v[1]
    BY <1>3, <2>3, <2>5
  <2> QED
    BY <2>4, <2>5, <2>6 DEF c, d, e
<1> DEFINE op == <<"op", "string">>
           ref == <<"ref", "string">>
           progress == <<"progress", "u32">>
           transferred == <<"bytesTransferred", "u64">>
           total == <<"bytesTotal", "u64">>
           status == <<"status", "string">>
           Pairs == {op, ref, progress, transferred, total, status}
<1>4. /\ <<op, ref>> \in Seq(Pairs) /\ <<progress, transferred, total, status>> \in Seq(Pairs)
      /\ <<progress>> \in Seq(Pairs) /\ <<transferred, total>> \in Seq(Pairs)
      /\ <<status>> \in Seq(Pairs)
  <2>1. /\ op \in Pairs /\ ref \in Pairs /\ progress \in Pairs /\ transferred \in Pairs
        /\ total \in Pairs /\ status \in Pairs
    OBVIOUS
  <2> HIDE DEF Pairs, op, ref, progress, transferred, total, status
  <2> QED
    BY <2>1
<1>5. SixFields(TransactionProgress)
  <2>1. TransactionProgress = <<op, ref>> \o <<progress, transferred, total, status>>
    BY <1>1 DEF TransactionProgress
  <2> QED
    BY <1>2, <1>4, <2>1 DEF SixFields
<1>6. SixFields(DecodedTransactionProgress)
  <2>1. DecodedTransactionProgress
          = <<op, ref>> \o <<progress>> \o <<transferred, total>> \o <<status>>
    BY <1>1 DEF DecodedTransactionProgress
  <2> QED
    BY <1>3, <1>4, <2>1 DEF SixFields
<1> QED
  BY <1>5, <1>6

LEMMA CodecFaithful ==
  ASSUME NEW e \in Events
  PROVE  BinaryRead(DecodedTransactionProgress, Write(TransactionProgress, e)) = e
<1> DEFINE L == TransactionProgress
           D == DecodedTransactionProgress
           w == Write(L, e)
           r == Read(D, w)
           At(f) == CHOOSE j \in DOMAIN D : D[j][1] = f
<1>1. SixFields(L) /\ SixFields(D)
  BY BothHaveSixFields
<1> HIDE DEF L, D
<1>2. /\ DOMAIN w = 1..6
      /\ w[1] = <<"string", e.op>> /\ w[2] = <<"string", e.ref>> /\ w[3] = <<"u32", e.progress>>
      /\ w[4] = <<"u64", e.bytesTransferred>> /\ w[5] = <<"u64", e.bytesTotal>>
      /\ w[6] = <<"string", e.status>>
  BY <1>1 DEF Write, SixFields
<1>3. /\ At("op") = 1 /\ At("ref") = 2 /\ At("progress") = 3 /\ At("bytesTransferred") = 4
      /\ At("bytesTotal") = 5 /\ At("status") = 6
  BY <1>1 DEF SixFields
<1>4. {D[i][1] : i \in DOMAIN D}
        = {"op", "ref", "progress", "bytesTransferred", "bytesTotal", "status"}
  BY <1>1 DEF SixFields
<1>5. r = [f \in {"op", "ref", "progress", "bytesTransferred", "bytesTotal", "status"} |->
            IF At(f) \in DOMAIN w /\ w[At(f)][1] = D[At(f)][2] THEN w[At(f)][2] ELSE "garbage"]
  BY <1>4 DEF Read
<1> HIDE DEF w, r, At
<1>6. /\ r.op = e.op /\ r.ref = e.ref /\ r.progress = e.progress
      /\ r.bytesTransferred = e.bytesTransferred /\ r.bytesTotal = e.bytesTotal
      /\ r.status = e.status
  BY <1>1, <1>2, <1>3, <1>5 DEF SixFields
<1>7. r = e
  BY <1>5, <1>6 DEF Events
<1> QED
  BY <1>7 DEF BinaryRead, r, w, D, L

-----------------------------------------------------------------------------
(***************************************************************************)
(* The invariant, in four parts.                                           *)
(***************************************************************************)

Progress(e) == [tag |-> "progress", payload |-> Write(TransactionProgress, e)]

Frames == {Done, Error} \union {Progress(e) : e \in Events}

\* Everything has its type.
Typed ==
  /\ dart \in {"free", "enqueued", "stopping", "joining", "closed", "crashed"}
  /\ result \in [Txs -> {"none", "pending", "ok", "error"}]
  /\ portOpen \in [Txs -> BOOLEAN]
  /\ mailbox \in [Txs -> Seq(Frames)]
  /\ queue \in Seq(Txs)
  /\ stop \in BOOLEAN
  /\ worker \in {"checking", "asleep", "running", "answered", "cleared", "exited"}
  /\ item \in Txs \union {NoTx}
  /\ currentCancel \in Txs \union {NoTx}
  /\ cancelled \subseteq Txs
  /\ freed \subseteq Txs
  /\ ops \in [Txs -> SUBSET Nat]
  /\ \A t \in Txs : ops[t] \subseteq DOMAIN Operations[t]
  /\ seen \in [Txs -> Seq(Events)]
  /\ told \in [Txs -> Seq(Events)]
  /\ outcome \in [Txs -> {"none", "ok", "error"}]
  /\ badAdd \subseteq Txs
  /\ asked \subseteq Txs
  /\ item # NoTx <=> worker \in {"running", "answered", "cleared"}

\* A transaction is queued, then the worker's, then freed; and the cancellable
\* that can be cancelled is that of the transaction the worker has.
Started(t) == outcome[t] # "none" \/ told[t] # <<>>

Held ==
  /\ currentCancel = IF worker \in {"running", "answered"} THEN item ELSE NoTx
  /\ item \notin freed
  /\ IsInjective(queue)
  /\ \A t \in ToSet(queue) : t # item /\ t \notin freed /\ ~Started(t) /\ result[t] # "none"
  /\ \A t \in Txs : result[t] = "none" => t # item /\ t \notin freed /\ ~Started(t)
  /\ worker = "running" => outcome[item] = "none"

\* What is between libflatpak and the isolate: while the port is open, it holds
\* what was told and is not yet seen, and then the answer; the error of a refused
\* operation comes before all that.
Prefixed(t) ==
  /\ Len(seen[t]) <= Len(told[t])
  /\ \A i \in 1..Len(seen[t]) : seen[t][i] = told[t][i]

Untold(t) == Len(told[t]) - Len(seen[t])

InTransit(t) ==
  /\ Len(mailbox[t]) = Untold(t) + (IF outcome[t] = "none" THEN 0 ELSE 1)
  /\ \A i \in 1..Untold(t) : mailbox[t][i] = Progress(told[t][Len(seen[t]) + i])
  /\ outcome[t] # "none" =>
       mailbox[t][Untold(t) + 1] = IF outcome[t] = "ok" THEN Done ELSE Error

Streamed(t) ==
  /\ Prefixed(t)
  /\ portOpen[t] <=> result[t] = "pending"
  /\ result[t] = "none" => t \notin badAdd /\ mailbox[t] = <<>> /\ ops[t] = {}
  /\ t \notin badAdd /\ result[t] # "none" => ops[t] = DOMAIN Operations[t]
  /\ t \notin badAdd /\ result[t] = "pending" => InTransit(t)
  /\ t \notin badAdd /\ result[t] = "ok" => outcome[t] = "ok" /\ seen[t] = told[t]
  /\ t \notin badAdd /\ result[t] = "error" => outcome[t] = "error"
  /\ t \in badAdd => result[t] # "ok"
  /\ t \in badAdd /\ result[t] = "pending" =>
       seen[t] = <<>> /\ mailbox[t] # <<>> /\ mailbox[t][1] = Error

\* The operations are told of one after the other: each is begun, changes, and is
\* done; those done are the first ones.
Count(t) == Cardinality(Completed(told[t]))
Midway(t) == told[t] # <<>> /\ told[t][Len(told[t])].status # "Done"
Downloads(t) == {i \in DOMAIN told[t] : told[t][i].status = "Downloading"}

Accounted(t) ==
  /\ Len(told[t]) = 2 * Count(t) + (IF Midway(t) THEN 1 ELSE 0) + Cardinality(Downloads(t))
  /\ Count(t) + (IF Midway(t) THEN 1 ELSE 0) <= Cardinality(ops[t])
  /\ outcome[t] = "ok" => Count(t) = Cardinality(ops[t])
  /\ t \notin badAdd => \A i \in 1..Count(t) : \E k \in Completed(told[t]) :
       /\ Cardinality({j \in Completed(told[t]) : j <= k}) = i
       /\ told[t][k].ref = Operations[t][i].ref /\ told[t][k].progress = 100

Bounded == IsFiniteSet(Changes) /\ Cardinality(Changes) <= MaxProgress

Faithful ==
  /\ Typed /\ Held
  /\ \A t \in Txs : Streamed(t)
  /\ \A t \in Txs : Accounted(t)
  /\ Bounded

-----------------------------------------------------------------------------
(***************************************************************************)
(* What the steps of a running transaction have in common.                 *)
(***************************************************************************)

LEMMA ElementOf == ASSUME NEW S, NEW s \in Seq(S), NEW i \in DOMAIN s PROVE s[i] \in S
  OBVIOUS

\* libflatpak tells of the i-th operation.
Tells(e) ==
  /\ worker = "running"
  /\ told' = [told EXCEPT ![item] = Append(@, e)]
  /\ Post(item, Progress(e))
  /\ UNCHANGED <<dart, result, portOpen, seen, ops, queue, stop, worker, item, currentCancel,
                 cancelled, freed, outcome, badAdd, asked>>

LEMMA SignalTells ==
  ASSUME Typed, item \in Txs, NEW i \in ops[item], NEW p \in {0, 50, 100}, NEW b \in {0, 1},
         NEW st \in {"Starting", "Downloading", "Done"},
         Signal(Operations[item][i], p, b, st)
  PROVE  \E e \in Events : /\ Tells(e) /\ e.ref = Operations[item][i].ref
                           /\ e.progress = p /\ e.status = st
<1> DEFINE o == Operations[item][i]
           e == [op |-> OpKind(o.type), ref |-> o.ref, progress |-> p, bytesTransferred |-> b,
                 bytesTotal |-> 0, status |-> st]
<1>1. o \in [type : OpTypes, ref : STRING]
  <2>1. Operations[item] \in Seq([type : OpTypes, ref : STRING])
    BY WorkerAssumption
  <2>2. i \in DOMAIN Operations[item]
    BY DEF Typed
  <2> QED
    BY <2>1, <2>2, ElementOf, ZenonT(40)
<1>2. o.type \in OpTypes /\ o.ref \in STRING
  BY <1>1
<1> HIDE DEF o
<1>3. OpKind(o.type) \in {"install", "update", "uninstall"}
  BY <1>2 DEF OpKind, OpTypes
<1>4. e \in Events
  BY <1>2, <1>3 DEF Events
<1>5. Tells(e)
  BY DEF Signal, Tells, Progress, dartVars, history, o
<1>6. e.ref = o.ref /\ e.progress = p /\ e.status = st
  OBVIOUS
<1> QED
  BY <1>4, <1>5, <1>6 DEF o

\* The steps in which libflatpak tells of an operation: whose turn it is, and
\* where the operation is then.
LEMMA StepTells ==
  ASSUME Typed, NewOperation \/ ProgressChanged \/ OperationDone
  PROVE  /\ item \in Txs
         /\ \E e \in Events, i \in ops[item] :
              /\ Tells(e) /\ Turn(i) /\ e.ref = Operations[item][i].ref
              /\ e.status = "Starting" <=> ~Underway
              /\ e.status = "Downloading" => Cardinality(Changes) < MaxProgress
              /\ e.status = "Done" => e.progress = 100
<1>1. item \in Txs
  BY DEF NewOperation, ProgressChanged, OperationDone, Typed
<1>2. CASE NewOperation
  <2>1. PICK i \in ops[item] : Turn(i) /\ Signal(Operations[item][i], 0, 0, "Starting")
    BY <1>2 DEF NewOperation
  <2>2. PICK e \in Events : /\ Tells(e) /\ e.ref = Operations[item][i].ref
                            /\ e.progress = 0 /\ e.status = "Starting"
    BY <1>1, <2>1, SignalTells
  <2> QED
    BY <1>1, <1>2, <2>1, <2>2 DEF NewOperation
<1>3. CASE ProgressChanged
  <2>1. PICK i \in ops[item] : Turn(i) /\ Signal(Operations[item][i], 50, 1, "Downloading")
    BY <1>3 DEF ProgressChanged
  <2>2. PICK e \in Events : /\ Tells(e) /\ e.ref = Operations[item][i].ref
                            /\ e.progress = 50 /\ e.status = "Downloading"
    BY <1>1, <2>1, SignalTells
  <2> QED
    BY <1>1, <1>3, <2>1, <2>2 DEF ProgressChanged
<1>4. CASE OperationDone
  <2>1. PICK i \in ops[item] : Turn(i) /\ Signal(Operations[item][i], 100, 0, "Done")
    BY <1>4 DEF OperationDone
  <2>2. PICK e \in Events : /\ Tells(e) /\ e.ref = Operations[item][i].ref
                            /\ e.progress = 100 /\ e.status = "Done"
    BY <1>1, <2>1, SignalTells
  <2> QED
    BY <1>1, <1>4, <2>1, <2>2 DEF OperationDone
<1> QED
  BY <1>2, <1>3, <1>4

\* What is posted to a port.
LEMMA PostTyped ==
  ASSUME Typed, NEW t \in Txs, NEW f \in Frames, Post(t, f)
  PROVE  /\ mailbox' \in [Txs -> Seq(Frames)]
         /\ \A u \in Txs : mailbox'[u] = IF u = t /\ portOpen[t] THEN Append(mailbox[t], f)
                                         ELSE mailbox[u]
<1>1. mailbox[t] \in Seq(Frames) /\ Append(mailbox[t], f) \in Seq(Frames)
  BY DEF Typed
<1>2. CASE portOpen[t]
  <2>1. mailbox' = [mailbox EXCEPT ![t] = Append(mailbox[t], f)]
    BY <1>2 DEF Post
  <2> QED
    BY <1>1, <1>2, <2>1 DEF Typed
<1>3. CASE ~portOpen[t]
  BY <1>3 DEF Post, Typed
<1> QED
  BY <1>2, <1>3

\* Sequences without repetitions, by their elements.
LEMMA Appended ==
  ASSUME NEW S, NEW s \in Seq(S), NEW x \in S
  PROVE  /\ Append(s, x) \in Seq(S)
         /\ ToSet(Append(s, x)) = ToSet(s) \union {x}
         /\ IsInjective(s) /\ x \notin ToSet(s) => IsInjective(Append(s, x))
<1> DEFINE t == Append(s, x)
<1>1. /\ t \in Seq(S) /\ Len(t) = Len(s) + 1
      /\ \A i \in 1..Len(s) : t[i] = s[i]
      /\ t[Len(s) + 1] = x
      /\ DOMAIN s = 1..Len(s) /\ DOMAIN t = 1..(Len(s) + 1) /\ Len(s) \in Nat
  OBVIOUS
<1> HIDE DEF t
<1>2. ToSet(t) = ToSet(s) \union {x}
  <2>1. ASSUME NEW y \in ToSet(t) PROVE y \in ToSet(s) \union {x}
    BY <1>1, <2>1 DEF ToSet
  <2>2. ASSUME NEW y \in ToSet(s) PROVE y \in ToSet(t)
    BY <1>1, <2>2 DEF ToSet
  <2>3. x \in ToSet(t)
    BY <1>1 DEF ToSet
  <2> QED
    BY <2>1, <2>2, <2>3
<1>3. ASSUME IsInjective(s), x \notin ToSet(s) PROVE IsInjective(t)
  <2> SUFFICES ASSUME NEW a \in DOMAIN t, NEW b \in DOMAIN t, t[a] = t[b] PROVE a = b
    BY DEF IsInjective
  <2>1. \A i \in 1..Len(s) : s[i] # x
    BY <1>1, <1>3 DEF ToSet
  <2>2. \A i, j \in 1..Len(s) : s[i] = s[j] => i = j
    BY <1>1, <1>3 DEF IsInjective
  <2> QED
    BY <1>1, <2>1, <2>2
<1> QED
  BY <1>1, <1>2, <1>3 DEF t

\* The first element is taken.
LEMMA Taken ==
  ASSUME NEW S, NEW s \in Seq(S), s # <<>>, IsInjective(s)
  PROVE  /\ Tail(s) \in Seq(S) /\ IsInjective(Tail(s))
         /\ Head(s) \in S /\ Head(s) \in ToSet(s)
         /\ ToSet(Tail(s)) = ToSet(s) \ {Head(s)}
<1> DEFINE t == Tail(s)
<1>1. /\ t \in Seq(S) /\ Len(s) \in Nat \ {0} /\ Head(s) = s[1] /\ s[1] \in S
      /\ \A i \in 1..(Len(s) - 1) : t[i] = s[i + 1]
      /\ DOMAIN s = 1..Len(s) /\ DOMAIN t = 1..(Len(s) - 1)
  OBVIOUS
<1> HIDE DEF t
<1>2. \A i, j \in 1..Len(s) : s[i] = s[j] => i = j
  BY <1>1 DEF IsInjective
<1>3. IsInjective(t)
  BY <1>1, <1>2 DEF IsInjective
<1>4. Head(s) \in ToSet(s)
  BY <1>1 DEF ToSet
<1>5. ToSet(t) = ToSet(s) \ {Head(s)}
  <2>1. ASSUME NEW y \in ToSet(t) PROVE y \in ToSet(s) \ {Head(s)}
    <3>1. PICK i \in 1..(Len(s) - 1) : y = s[i + 1]
      BY <1>1, <2>1 DEF ToSet
    <3> QED
      BY <1>1, <1>2, <3>1 DEF ToSet
  <2>2. ASSUME NEW y \in ToSet(s) \ {Head(s)} PROVE y \in ToSet(t)
    <3>1. PICK i \in 1..Len(s) : y = s[i]
      BY <1>1, <2>2 DEF ToSet
    <3>2. i # 1 /\ i - 1 \in 1..(Len(s) - 1) /\ t[i - 1] = s[(i - 1) + 1]
      BY <1>1, <2>2, <3>1
    <3> QED
      BY <1>1, <3>1, <3>2 DEF ToSet
  <2> QED
    BY <2>1, <2>2
<1> QED
  BY <1>1, <1>3, <1>4, <1>5 DEF t

-----------------------------------------------------------------------------
(***************************************************************************)
(* The types.                                                              *)
(***************************************************************************)

\* What addOps leaves: nothing but errors in the mailbox, and of the operations
\* those that were not refused.
LEMMA AddOpsEffect ==
  ASSUME Typed, NEW t \in Txs, NEW refused \in SUBSET DOMAIN Operations[t], AddOps(t, refused)
  PROVE  /\ mailbox' \in [Txs -> Seq(Frames)] /\ ops' \in [Txs -> SUBSET Nat]
         /\ \A u \in Txs : ops'[u] \subseteq DOMAIN Operations[u]
         /\ badAdd' \subseteq Txs
         /\ \A u \in Txs \ {t} : /\ mailbox'[u] = mailbox[u] /\ ops'[u] = ops[u]
                                 /\ u \in badAdd' <=> u \in badAdd
         /\ refused = {} => /\ mailbox'[t] = <<>> /\ ops'[t] = DOMAIN Operations[t]
                            /\ badAdd' = badAdd
         /\ refused # {} => /\ mailbox'[t] # <<>> /\ mailbox'[t][1] = Error
                            /\ t \in badAdd'
<1> DEFINE n == Cardinality(refused)
           posted == [i \in 1..n |-> Error]
<1>1. DOMAIN Operations[t] \subseteq Nat /\ IsFiniteSet(DOMAIN Operations[t])
  <2>1. Operations[t] \in Seq([type : OpTypes, ref : STRING])
    BY WorkerAssumption
  <2>2. DOMAIN Operations[t] = 1..Len(Operations[t]) /\ Len(Operations[t]) \in Nat
    BY <2>1
  <2> QED
    BY <2>2, FS_Interval
<1>2. IsFiniteSet(refused) /\ n \in Nat /\ (n = 0 <=> refused = {})
  BY <1>1, FS_Subset, FS_CardinalityType, FS_EmptySet
<1> HIDE DEF n
<1>3. posted \in Seq(Frames) /\ Len(posted) = n
      /\ (n # 0 => posted # <<>> /\ posted[1] = Error) /\ (n = 0 => posted = <<>>)
  BY <1>2 DEF Frames
<1>4. mailbox' = [mailbox EXCEPT ![t] = posted]
  BY DEF AddOps, n
<1>5. /\ ops' = [ops EXCEPT ![t] = DOMAIN Operations[t] \ refused]
      /\ badAdd' = IF refused # {} THEN badAdd \union {t} ELSE badAdd
  BY DEF AddOps
<1> HIDE DEF posted
<1>6. mailbox' \in [Txs -> Seq(Frames)] /\ mailbox'[t] = posted
      /\ \A u \in Txs \ {t} : mailbox'[u] = mailbox[u]
  BY <1>3, <1>4 DEF Typed
<1>7. /\ ops' \in [Txs -> SUBSET Nat] /\ ops'[t] = DOMAIN Operations[t] \ refused
      /\ \A u \in Txs \ {t} : ops'[u] = ops[u]
  BY <1>1, <1>5 DEF Typed
<1>8. \A u \in Txs : ops'[u] \subseteq DOMAIN Operations[u]
  BY <1>7 DEF Typed
<1> QED
  BY <1>2, <1>3, <1>5, <1>6, <1>7, <1>8 DEF Typed

\* The listener gets an event as it was told, or the answer.
Hears(t, e) ==
  /\ mailbox[t][1] = Progress(e)
  /\ mailbox' = [mailbox EXCEPT ![t] = Tail(mailbox[t])]
  /\ seen' = [seen EXCEPT ![t] = Append(seen[t], e)]
  /\ UNCHANGED <<result, portOpen>>

Settles(t) ==
  /\ mailbox[t][1] \in {Done, Error}
  /\ result' = [result EXCEPT ![t] =
       IF result[t] # "pending" THEN result[t]
       ELSE IF mailbox[t][1] = Done THEN "ok" ELSE "error"]
  /\ portOpen' = [portOpen EXCEPT ![t] = FALSE]
  /\ mailbox' = [mailbox EXCEPT ![t] = <<>>]
  /\ UNCHANGED seen

LEMMA DeliverEffect ==
  ASSUME Typed, NEW t \in Txs, Deliver(t)
  PROVE  /\ mailbox[t] # <<>> /\ portOpen[t]
         /\ UNCHANGED <<dart, ops, queue, stop, worker, item, currentCancel, freed, told,
                        outcome, cancelled, badAdd, asked>>
         /\ (\E e \in Events : Hears(t, e)) \/ Settles(t)
<1> DEFINE f == Head(mailbox[t])
<1>1. /\ mailbox[t] # <<>> /\ portOpen[t]
      /\ UNCHANGED <<dart, ops, queue, stop, worker, item, currentCancel, freed, told,
                     outcome, cancelled, badAdd, asked>>
  BY DEF Deliver, runVars, history
<1>2. f = mailbox[t][1] /\ f \in Frames
  BY <1>1 DEF Typed
<1>3. ASSUME f.tag = "progress" PROVE \E e \in Events : Hears(t, e)
  <2>1. PICK e \in Events : f = Progress(e)
    BY <1>2, <1>3 DEF Frames, Done, Error
  <2>2. /\ mailbox' = [mailbox EXCEPT ![t] = Tail(mailbox[t])]
        /\ seen' = [seen EXCEPT ![t] =
             Append(seen[t], BinaryRead(DecodedTransactionProgress, f.payload))]
        /\ UNCHANGED <<result, portOpen>>
    BY <1>3 DEF Deliver
  <2>3. f.payload = Write(TransactionProgress, e)
    BY <2>1 DEF Progress
  <2>4. BinaryRead(DecodedTransactionProgress, f.payload) = e
    BY <2>3, CodecFaithful
  <2>5. Hears(t, e)
    BY <1>2, <2>1, <2>2, <2>4 DEF Hears
  <2> QED
    BY <2>5
<1>4. ASSUME f.tag # "progress" PROVE Settles(t)
  <2>1. f \in {Done, Error}
    BY <1>2, <1>4 DEF Frames, Progress
  <2>2. /\ result' = [result EXCEPT ![t] =
             IF result[t] # "pending" THEN result[t] ELSE IF f = Done THEN "ok" ELSE "error"]
        /\ portOpen' = [portOpen EXCEPT ![t] = FALSE]
        /\ mailbox' = [mailbox EXCEPT ![t] = <<>>]
        /\ UNCHANGED seen
    BY <1>4 DEF Deliver
  <2> QED
    BY <1>2, <2>1, <2>2 DEF Settles
<1> QED
  BY <1>1, <1>3, <1>4

LEMMA InitTyped == Init => Typed
<1> SUFFICES ASSUME Init PROVE Typed
  OBVIOUS
<1>1. mailbox \in [Txs -> Seq(Frames)] /\ seen \in [Txs -> Seq(Events)]
      /\ told \in [Txs -> Seq(Events)]
  BY DEF Init
<1>2. ops \in [Txs -> SUBSET Nat] /\ \A t \in Txs : ops[t] \subseteq DOMAIN Operations[t]
  BY DEF Init
<1>3. /\ result \in [Txs -> {"none", "pending", "ok", "error"}]
      /\ portOpen \in [Txs -> BOOLEAN] /\ outcome \in [Txs -> {"none", "ok", "error"}]
  BY DEF Init
<1>4. /\ dart = "free" /\ queue \in Seq(Txs) /\ stop = FALSE /\ worker = "checking" /\ item = NoTx
      /\ currentCancel = NoTx /\ cancelled = {} /\ freed = {} /\ badAdd = {} /\ asked = {}
  BY DEF Init
<1> QED
  BY <1>1, <1>2, <1>3, <1>4 DEF Typed

LEMMA NextTyped == Typed /\ [Next]_vars => Typed'
<1> SUFFICES ASSUME Typed, [Next]_vars PROVE Typed'
  OBVIOUS
<1> USE DEF dartVars, runVars, history
<1>1. ASSUME NEW t \in Txs, NEW refused \in SUBSET DOMAIN Operations[t], Submit(t, refused)
      PROVE  Typed'
  <2>1. /\ mailbox' \in [Txs -> Seq(Frames)] /\ ops' \in [Txs -> SUBSET Nat]
        /\ \A u \in Txs : ops'[u] \subseteq DOMAIN Operations[u]
        /\ badAdd' \subseteq Txs
    BY <1>1, AddOpsEffect DEF Submit
  <2>2. queue' \in Seq(Txs)
    BY <1>1 DEF Submit, TxSubmit, Typed
  <2>3. /\ result' = [result EXCEPT ![t] = "pending"]
        /\ portOpen' = [portOpen EXCEPT ![t] = TRUE]
        /\ dart' = "enqueued"
        /\ UNCHANGED <<seen, stop, worker, item, currentCancel, freed, told, outcome,
                       cancelled, asked>>
    BY <1>1 DEF Submit
  <2> QED
    BY <2>1, <2>2, <2>3 DEF Typed
<1>2. ASSUME NEW t \in Txs, CreateFails(t) PROVE Typed'
  BY <1>2 DEF CreateFails, Typed
<1>3. ASSUME NEW t \in Txs, Deliver(t) PROVE Typed'
  <2>1. /\ mailbox[t] \in Seq(Frames) /\ mailbox[t] # <<>> /\ seen[t] \in Seq(Events)
        /\ UNCHANGED <<dart, ops, queue, stop, worker, item, currentCancel, freed, told,
                       outcome, cancelled, badAdd, asked>>
    BY <1>3, DeliverEffect DEF Typed
  <2>2. Tail(mailbox[t]) \in Seq(Frames) /\ <<>> \in Seq(Frames)
        /\ \A e \in Events : Append(seen[t], e) \in Seq(Events)
    BY <2>1
  <2>3. ASSUME NEW e \in Events, Hears(t, e) PROVE Typed'
    <3>1. mailbox' \in [Txs -> Seq(Frames)] /\ seen' \in [Txs -> Seq(Events)]
      BY <2>2, <2>3 DEF Hears, Typed
    <3> QED
      BY <2>1, <2>3, <3>1 DEF Hears, Typed
  <2>4. CASE Settles(t)
    <3>1. mailbox' \in [Txs -> Seq(Frames)]
      BY <2>2, <2>4 DEF Settles, Typed
    <3>2. /\ result' \in [Txs -> {"none", "pending", "ok", "error"}]
          /\ portOpen' \in [Txs -> BOOLEAN] /\ UNCHANGED seen
      BY <2>4 DEF Settles, Typed
    <3> QED
      BY <2>1, <3>1, <3>2 DEF Typed
  <2> QED
    BY <1>3, <2>3, <2>4, DeliverEffect
<1>4. ASSUME NEW t \in Txs, Cancel(t) PROVE Typed'
  BY <1>4 DEF Cancel, Typed
<1>5. CASE SubmitNotify \/ CloseFlag \/ CloseNotify \/ CloseJoin
  BY <1>5 DEF SubmitNotify, CloseFlag, CloseNotify, CloseJoin, NotifyOne, Typed
<1>6. CASE LoopSleep \/ LoopReturn
  BY <1>6 DEF LoopSleep, LoopReturn, Typed
<1>7. CASE LoopTake
  <2>1. Head(queue) \in Txs /\ Tail(queue) \in Seq(Txs) /\ Head(queue) # NoTx
    BY <1>7, WorkerAssumption DEF LoopTake, Typed
  <2> QED
    BY <1>7, <2>1 DEF LoopTake, Typed
<1>8. CASE NewOperation \/ ProgressChanged \/ OperationDone
  <2>1. item \in Txs
    BY <1>8, StepTells
  <2>2. PICK e \in Events : Tells(e)
    BY <1>8, StepTells
  <2>3. mailbox' \in [Txs -> Seq(Frames)]
    BY <2>1, <2>2, PostTyped DEF Tells, Frames
  <2>4. told[item] \in Seq(Events) /\ Append(told[item], e) \in Seq(Events)
    BY <2>1 DEF Typed
  <2>5. told' \in [Txs -> Seq(Events)]
    BY <2>1, <2>2, <2>4 DEF Tells, Typed
  <2> QED
    BY <2>2, <2>3, <2>5 DEF Tells, Typed
<1>9. ASSUME NEW ok \in BOOLEAN, RunReturns(ok) PROVE Typed'
  <2>1. item \in Txs
    BY <1>9 DEF RunReturns, Typed
  <2>2. mailbox' \in [Txs -> Seq(Frames)]
    BY <1>9, <2>1, PostTyped DEF RunReturns, Frames
  <2> QED
    BY <1>9, <2>1, <2>2 DEF RunReturns, Typed
<1>10. CASE ClearCurrent
  BY <1>10 DEF ClearCurrent, Typed
<1>11. CASE Release
  <2>1. item \in Txs
    BY <1>11 DEF Release, Typed
  <2> QED
    BY <1>11, <2>1 DEF Release, Typed
<1>12. CASE UNCHANGED vars
  BY <1>12 DEF vars, Typed
<1> QED
  BY <1>1, <1>2, <1>3, <1>4, <1>5, <1>6, <1>7, <1>8, <1>9, <1>10, <1>11, <1>12
     DEF Next, Worker
-----------------------------------------------------------------------------
(***************************************************************************)
(* Whose the transactions are.                                             *)
(***************************************************************************)

LEMMA InitHeld == Init => Held
<1> SUFFICES ASSUME Init PROVE Held
  OBVIOUS
<1>1. IsInjective(queue) /\ ToSet(queue) = {}
  BY DEF Init, IsInjective, ToSet
<1>2. \A t \in Txs : ~Started(t)
  BY DEF Init, Started
<1>3. /\ worker = "checking" /\ item = NoTx /\ currentCancel = NoTx /\ freed = {}
      /\ NoTx \notin Txs
  BY WorkerAssumption DEF Init
<1> QED
  BY <1>1, <1>2, <1>3 DEF Held

LEMMA NextHeld == Typed /\ Held /\ [Next]_vars => Held'
<1> SUFFICES ASSUME Typed, Held, [Next]_vars PROVE Held'
  OBVIOUS
<1> USE DEF dartVars, runVars, history
\* A step that leaves alone whose each transaction is.
<1>0. ASSUME UNCHANGED <<queue, item, currentCancel, freed, told, outcome>>,
             worker' = worker \/ ({worker, worker'} \subseteq {"checking", "asleep", "exited"}),
             \A u \in Txs : result'[u] = "none" <=> result[u] = "none"
      PROVE  Held'
  <2>1. \A u : Started(u)' <=> Started(u)
    BY <1>0 DEF Started
  <2>2. worker' \in {"running", "answered"} <=> worker \in {"running", "answered"}
    BY <1>0
  <2>3. worker' = "running" <=> worker = "running"
    BY <1>0
  <2>4. ToSet(queue) \subseteq Txs
    BY DEF Typed, ToSet
  <2> QED
    BY <1>0, <2>1, <2>2, <2>3, <2>4 DEF Held
<1>1. ASSUME NEW t \in Txs, NEW refused \in SUBSET DOMAIN Operations[t], Submit(t, refused)
      PROVE  Held'
  <2>1. /\ result[t] = "none" /\ result' = [result EXCEPT ![t] = "pending"]
        /\ queue' = Append(queue, t)
        /\ UNCHANGED <<worker, item, currentCancel, freed, told, outcome>>
    BY <1>1 DEF Submit, TxSubmit
  <2>2. t # item /\ t \notin freed /\ ~Started(t) /\ t \notin ToSet(queue)
    BY <2>1 DEF Held
  <2>3. IsInjective(queue') /\ ToSet(queue') = ToSet(queue) \union {t}
    BY <2>1, <2>2, Appended DEF Held, Typed
  <2>4. \A u : Started(u)' <=> Started(u)
    BY <2>1 DEF Started
  <2>5. /\ result'[t] = "pending" /\ \A u \in Txs \ {t} : result'[u] = result[u]
        /\ ToSet(queue) \subseteq Txs
    BY <2>1 DEF Typed, ToSet
  <2> QED
    BY <2>1, <2>2, <2>3, <2>4, <2>5 DEF Held
<1>2. ASSUME NEW t \in Txs, CreateFails(t) \/ Cancel(t) PROVE Held'
  BY <1>0, <1>2 DEF CreateFails, Cancel
<1>3. ASSUME NEW t \in Txs, Deliver(t) PROVE Held'
  <2>1. UNCHANGED <<queue, worker, item, currentCancel, freed, told, outcome>>
    BY <1>3, DeliverEffect
  <2>2. CASE Settles(t)
    <3>1. \A u \in Txs : result'[u] = "none" <=> result[u] = "none"
      BY <2>2 DEF Settles, Typed
    <3> QED
      BY <1>0, <2>1, <3>1
  <2>3. CASE UNCHANGED result
    BY <1>0, <2>1, <2>3
  <2> QED
    BY <1>3, <2>2, <2>3, DeliverEffect DEF Hears
<1>4. CASE SubmitNotify \/ CloseFlag \/ CloseNotify \/ CloseJoin
  BY <1>0, <1>4 DEF SubmitNotify, CloseFlag, CloseNotify, CloseJoin, NotifyOne
<1>5. CASE LoopSleep \/ LoopReturn
  BY <1>0, <1>5 DEF LoopSleep, LoopReturn
<1>6. CASE LoopTake
  <2>1. /\ worker = "checking" /\ queue # <<>> /\ worker' = "running"
        /\ item' = Head(queue) /\ currentCancel' = Head(queue) /\ queue' = Tail(queue)
        /\ UNCHANGED <<freed, told, outcome, result>>
    BY <1>6 DEF LoopTake
  <2>2. /\ IsInjective(queue') /\ Head(queue) \in ToSet(queue)
        /\ ToSet(queue') = ToSet(queue) \ {Head(queue)} /\ Head(queue) \in Txs
    BY <2>1, Taken DEF Held, Typed
  <2>3. \A u : Started(u)' <=> Started(u)
    BY <2>1 DEF Started
  <2>4. outcome[Head(queue)] = "none" /\ Head(queue) \notin freed
        /\ result[Head(queue)] # "none"
    BY <2>2 DEF Held, Started
  <2> QED
    BY <2>1, <2>2, <2>3, <2>4 DEF Held
<1>7. CASE NewOperation \/ ProgressChanged \/ OperationDone
  <2>1. item \in Txs
    BY <1>7, StepTells
  <2>2. PICK e \in Events : Tells(e)
    BY <1>7, StepTells
  <2>3. \A u \in Txs \ {item} : told'[u] = told[u]
    BY <2>1, <2>2 DEF Tells, Typed
  <2>4. \A u \in Txs \ {item} : Started(u)' <=> Started(u)
    BY <2>2, <2>3 DEF Started, Tells
  <2>5. ToSet(queue) \subseteq Txs
    BY DEF Typed, ToSet
  <2>6. UNCHANGED <<result, queue, worker, item, currentCancel, freed, outcome>>
    BY <2>2 DEF Tells
  <2> QED
    BY <2>1, <2>4, <2>5, <2>6 DEF Held
<1>8. ASSUME NEW ok \in BOOLEAN, RunReturns(ok) PROVE Held'
  <2>1. /\ item \in Txs /\ worker = "running" /\ worker' = "answered"
        /\ UNCHANGED <<result, queue, item, currentCancel, freed, told>>
    BY <1>8 DEF RunReturns, Typed
  <2>2. \A u \in Txs \ {item} : outcome'[u] = outcome[u]
    BY <1>8, <2>1 DEF RunReturns, Typed
  <2>3. \A u \in Txs \ {item} : Started(u)' <=> Started(u)
    BY <2>1, <2>2 DEF Started
  <2>4. ToSet(queue) \subseteq Txs
    BY DEF Typed, ToSet
  <2> QED
    BY <2>1, <2>3, <2>4 DEF Held
<1>9. CASE ClearCurrent
  <2>1. \A u : Started(u)' <=> Started(u)
    BY <1>9 DEF ClearCurrent, Started
  <2> QED
    BY <1>9, <2>1 DEF ClearCurrent, Held
<1>10. CASE Release
  <2>1. \A u : Started(u)' <=> Started(u)
    BY <1>10 DEF Release, Started
  <2>2. ToSet(queue) \subseteq Txs /\ freed \subseteq Txs /\ NoTx \notin Txs
    BY WorkerAssumption DEF Typed, ToSet
  <2>3. /\ worker = "cleared" /\ worker' = "checking" /\ item' = NoTx
        /\ freed' = freed \union {item}
        /\ UNCHANGED <<queue, currentCancel, outcome, result>>
    BY <1>10 DEF Release
  <2>4. currentCancel = NoTx /\ item' \notin freed'
    BY <2>2, <2>3 DEF Held, Typed
  <2>5. \A u \in ToSet(queue) : u # item' /\ u \notin freed' /\ ~Started(u) /\ result[u] # "none"
    BY <2>2, <2>3 DEF Held
  <2>6. \A u \in Txs : result[u] = "none" => u # item' /\ u \notin freed' /\ ~Started(u)
    BY <2>2, <2>3 DEF Held
  <2>7. IsInjective(queue)
    BY DEF Held
  <2> QED
    BY <2>1, <2>3, <2>4, <2>5, <2>6, <2>7 DEF Held
<1>11. CASE UNCHANGED vars
  BY <1>0, <1>11 DEF vars
<1> QED
  BY <1>1, <1>2, <1>3, <1>4, <1>5, <1>6, <1>7, <1>8, <1>9, <1>10, <1>11 DEF Next, Worker

-----------------------------------------------------------------------------
(***************************************************************************)
(* What is told, posted and seen of one transaction.                       *)
(***************************************************************************)

LEMMA InitStreamed == Init => \A t \in Txs : Streamed(t)
<1> SUFFICES ASSUME Init, NEW t \in Txs PROVE Streamed(t)
  OBVIOUS
<1>1. /\ result[t] = "none" /\ portOpen[t] = FALSE /\ mailbox[t] = <<>> /\ seen[t] = <<>>
      /\ told[t] = <<>> /\ outcome[t] = "none" /\ ops[t] = {} /\ t \notin badAdd
  BY DEF Init
<1> QED
  BY <1>1 DEF Streamed, Prefixed

\* A frame says which event it is of.
LEMMA OneEvent ==
  ASSUME NEW e \in Events
  PROVE  /\ \A f \in Events : Progress(e) = Progress(f) => e = f
         /\ Progress(e) \notin {Done, Error}
<1>1. ASSUME NEW f \in Events, Progress(e) = Progress(f) PROVE e = f
  <2> DEFINE w(x) == Write(TransactionProgress, x)
  <2>1. w(e) = w(f)
    BY <1>1 DEF Progress
  <2>2. /\ BinaryRead(DecodedTransactionProgress, w(e)) = e
        /\ BinaryRead(DecodedTransactionProgress, w(f)) = f
    BY CodecFaithful
  <2> HIDE DEF w
  <2> QED
    BY <2>1, <2>2
<1>2. Progress(e).tag = "progress" /\ Done.tag = "done" /\ Error.tag = "error"
  BY DEF Progress, Done, Error
<1> QED
  BY <1>1, <1>2

\* A step that does nothing to the transaction.
Untouched(t) ==
  /\ result'[t] = result[t] /\ portOpen'[t] = portOpen[t] /\ mailbox'[t] = mailbox[t]
  /\ seen'[t] = seen[t] /\ told'[t] = told[t] /\ outcome'[t] = outcome[t] /\ ops'[t] = ops[t]
  /\ t \in badAdd' <=> t \in badAdd

LEMMA StreamKept == ASSUME NEW t \in Txs, Streamed(t), Untouched(t) PROVE Streamed(t)'
<1>1. Prefixed(t)' <=> Prefixed(t)
  BY DEF Untouched, Prefixed
<1>2. InTransit(t)' <=> InTransit(t)
  BY DEF Untouched, InTransit, Untold
<1> QED
  BY <1>1, <1>2 DEF Untouched, Streamed

\* The sequences of one transaction, and what is not yet asked for.
LEMMA OfOne ==
  ASSUME Typed, NEW t \in Txs
  PROVE  /\ mailbox[t] \in Seq(Frames) /\ seen[t] \in Seq(Events) /\ told[t] \in Seq(Events)
         /\ Len(mailbox[t]) \in Nat /\ Len(seen[t]) \in Nat /\ Len(told[t]) \in Nat
         /\ outcome[t] \in {"none", "ok", "error"}
         /\ result[t] \in {"none", "pending", "ok", "error"}
         /\ portOpen[t] \in BOOLEAN
  BY DEF Typed

LEMMA SubmitStreams ==
  ASSUME Typed, Held, NEW t \in Txs, Streamed(t),
         NEW refused \in SUBSET DOMAIN Operations[t], Submit(t, refused)
  PROVE  Streamed(t)'
<1>1. /\ result[t] = "none" /\ UNCHANGED <<seen, told, outcome>>
      /\ result'[t] = "pending" /\ portOpen'[t] = TRUE
  BY DEF Submit, runVars, Typed
<1>2. told[t] = <<>> /\ outcome[t] = "none" /\ seen[t] = <<>> /\ t \notin badAdd
  <2>1. told[t] = <<>> /\ outcome[t] = "none"
    BY <1>1 DEF Held, Started
  <2>2. Len(seen[t]) <= 0
    BY <1>1, <2>1 DEF Streamed, Prefixed
  <2> QED
    BY <1>1, <2>1, <2>2, OfOne DEF Streamed
<1>3. AddOps(t, refused)
  BY DEF Submit
<1>4. CASE refused = {}
  <2>1. mailbox'[t] = <<>> /\ ops'[t] = DOMAIN Operations[t] /\ badAdd' = badAdd
    BY <1>3, <1>4, AddOpsEffect
  <2>2. Prefixed(t)' /\ InTransit(t)'
    BY <1>1, <1>2, <2>1 DEF Prefixed, InTransit, Untold
  <2> QED
    BY <1>1, <1>2, <2>1, <2>2 DEF Streamed
<1>5. CASE refused # {}
  <2>1. mailbox'[t] # <<>> /\ mailbox'[t][1] = Error /\ t \in badAdd'
    BY <1>3, <1>5, AddOpsEffect
  <2>2. Prefixed(t)'
    BY <1>1, <1>2 DEF Prefixed
  <2> QED
    BY <1>1, <1>2, <2>1, <2>2 DEF Streamed
<1> QED
  BY <1>4, <1>5

LEMMA HearingStreams ==
  ASSUME Typed, NEW t \in Txs, Streamed(t), Deliver(t), NEW e \in Events, Hears(t, e)
  PROVE  Streamed(t)'
<1>1. /\ mailbox[t] # <<>> /\ portOpen[t] /\ UNCHANGED <<ops, told, outcome, badAdd>>
  BY DeliverEffect
<1>2. /\ mailbox[t][1] = Progress(e) /\ UNCHANGED <<result, portOpen>>
      /\ mailbox'[t] = Tail(mailbox[t]) /\ seen'[t] = Append(seen[t], e)
  BY DEF Hears, Typed
<1>3. result[t] = "pending"
  BY <1>1 DEF Streamed
<1>4. t \notin badAdd
  BY <1>2, <1>3, OneEvent DEF Streamed
<1>5. InTransit(t) /\ Prefixed(t)
  BY <1>3, <1>4 DEF Streamed
<1> DEFINE m == mailbox[t]
           s == seen[t]
           d == told[t]
           n == Untold(t)
<1>6. m \in Seq(Frames) /\ s \in Seq(Events) /\ d \in Seq(Events)
      /\ Len(m) \in Nat \ {0} /\ Len(s) \in Nat /\ Len(d) \in Nat /\ n = Len(d) - Len(s)
      /\ n \in Nat
  BY <1>1, <1>5, OfOne DEF Prefixed, Untold
<1>7. n # 0
  <2> SUFFICES ASSUME n = 0 PROVE FALSE
    OBVIOUS
  <2>1. outcome[t] # "none"
    BY <1>5, <1>6 DEF InTransit
  <2>2. m[1] \in {Done, Error}
    BY <1>5, <2>1 DEF InTransit
  <2> QED
    BY <1>2, <2>2, OneEvent
<1>8. e = d[Len(s) + 1]
  <2>1. 1 \in 1..n /\ Len(s) + 1 \in 1..Len(d)
    BY <1>6, <1>7
  <2>2. m[1] = Progress(d[Len(s) + 1])
    BY <1>5, <2>1 DEF InTransit
  <2>3. d[Len(s) + 1] \in Events
    BY <1>6, <2>1
  <2> QED
    BY <1>2, <2>2, <2>3, OneEvent
<1>9. /\ Len(seen'[t]) = Len(s) + 1 /\ seen'[t][Len(s) + 1] = e
      /\ \A i \in 1..Len(s) : seen'[t][i] = s[i]
      /\ Len(mailbox'[t]) = Len(m) - 1 /\ \A i \in 1..(Len(m) - 1) : mailbox'[t][i] = m[i + 1]
  BY <1>2, <1>6
<1>10. Prefixed(t)'
  <2>1. \A i \in 1..Len(s) : s[i] = d[i]
    BY <1>5 DEF Prefixed
  <2>2. \A i \in 1..(Len(s) + 1) : seen'[t][i] = d[i]
    BY <1>6, <1>8, <1>9, <2>1
  <2> QED
    BY <1>1, <1>6, <1>7, <1>9, <2>2 DEF Prefixed
<1>11. InTransit(t)'
  <2>1. Untold(t)' = n - 1
    BY <1>1, <1>6, <1>9 DEF Untold
  <2>2. /\ Len(m) = n + (IF outcome[t] = "none" THEN 0 ELSE 1)
        /\ outcome[t] # "none" => m[n + 1] = IF outcome[t] = "ok" THEN Done ELSE Error
    BY <1>5 DEF InTransit
  <2>3. \A i \in 1..(n - 1) : mailbox'[t][i] = Progress(d[(Len(s) + 1) + i])
    <3> SUFFICES ASSUME NEW i \in 1..(n - 1)
                 PROVE  mailbox'[t][i] = Progress(d[(Len(s) + 1) + i])
      OBVIOUS
    <3>1. i + 1 \in 1..n /\ Len(s) + (i + 1) = (Len(s) + 1) + i /\ i \in 1..(Len(m) - 1)
      <4> HIDE DEF m, s, d, n
      <4>1. Len(m) >= n
        BY <1>6, <2>2
      <4> QED
        BY <1>6, <4>1
    <3>2. m[i + 1] = Progress(d[Len(s) + (i + 1)])
      BY <1>5, <3>1 DEF InTransit
    <3> QED
      BY <1>9, <3>1, <3>2
  <2>4. outcome[t] # "none" => mailbox'[t][n] = m[n + 1]
    <3> SUFFICES ASSUME outcome[t] # "none" PROVE mailbox'[t][n] = m[n + 1]
      OBVIOUS
    <3>1. n \in 1..(Len(m) - 1)
      BY <1>6, <1>7, <2>2
    <3> QED
      BY <1>9, <3>1
  <2>5. (n - 1) + 1 = n
    BY <1>6
  <2> HIDE DEF m, s, d, n
  <2>6. Len(mailbox'[t]) = (n - 1) + (IF outcome[t] = "none" THEN 0 ELSE 1)
    BY <1>6, <1>9, <2>2
  <2> QED
    BY <1>1, <1>9, <2>1, <2>3, <2>2, <2>4, <2>5, <2>6 DEF InTransit, d
<1> QED
  BY <1>1, <1>2, <1>3, <1>4, <1>10, <1>11 DEF Streamed

LEMMA SettlingStreams ==
  ASSUME Typed, NEW t \in Txs, Streamed(t), Deliver(t), Settles(t)
  PROVE  Streamed(t)'
<1>1. /\ mailbox[t] # <<>> /\ portOpen[t] /\ UNCHANGED <<ops, told, outcome, badAdd>>
  BY DeliverEffect
<1>2. result[t] = "pending"
  BY <1>1 DEF Streamed
<1>3. /\ mailbox[t][1] \in {Done, Error} /\ UNCHANGED seen /\ portOpen'[t] = FALSE
      /\ result'[t] = IF mailbox[t][1] = Done THEN "ok" ELSE "error"
  BY <1>2 DEF Settles, Typed
<1>4. Done # Error
  <2>1. Done.tag = "done" /\ Error.tag = "error"
    BY DEF Done, Error
  <2> QED
    BY <2>1
<1>5. Prefixed(t) /\ Prefixed(t)'
  BY <1>1, <1>3 DEF Streamed, Prefixed
<1>6. ASSUME t \in badAdd PROVE Streamed(t)'
  <2>1. mailbox[t][1] = Error
    BY <1>2, <1>6 DEF Streamed
  <2> QED
    BY <1>1, <1>3, <1>4, <1>5, <1>6, <2>1 DEF Streamed
<1>7. ASSUME t \notin badAdd PROVE Streamed(t)'
  <2> DEFINE n == Untold(t)
  <2>1. InTransit(t)
    BY <1>2, <1>7 DEF Streamed
  <2>2. n = Len(told[t]) - Len(seen[t]) /\ n \in Nat
    BY <1>5, OfOne DEF Prefixed, Untold
  <2>3. n = 0
    <3> SUFFICES ASSUME n # 0 PROVE FALSE
      OBVIOUS
    <3>1. 1 \in 1..n /\ Len(seen[t]) + 1 \in 1..Len(told[t])
      BY <2>2, OfOne
    <3>2. mailbox[t][1] = Progress(told[t][Len(seen[t]) + 1])
      BY <2>1, <3>1 DEF InTransit
    <3>3. told[t][Len(seen[t]) + 1] \in Events
      BY <3>1, OfOne
    <3> QED
      BY <1>3, <3>2, <3>3, OneEvent
  <2>4. seen[t] = told[t]
    <3>1. Len(seen[t]) = Len(told[t])
      <4> HIDE DEF n
      <4>1. Len(seen[t]) \in Nat /\ Len(told[t]) \in Nat
        BY OfOne
      <4> QED
        BY <2>2, <2>3, <4>1
    <3>2. \A i \in 1..Len(seen[t]) : seen[t][i] = told[t][i]
      BY <1>5 DEF Prefixed
    <3> QED
      BY <3>1, <3>2, OfOne, SeqEqual
  <2>5. outcome[t] # "none"
    BY <1>1, <2>1, <2>3, OfOne DEF InTransit
  <2>6. mailbox[t][1] = IF outcome[t] = "ok" THEN Done ELSE Error
    BY <2>1, <2>3, <2>5 DEF InTransit
  <2>7. result'[t] = outcome[t] /\ outcome[t] \in {"ok", "error"}
    BY <1>3, <1>4, <2>5, <2>6, OfOne
  <2>8. ops[t] = DOMAIN Operations[t]
    BY <1>2, <1>7 DEF Streamed
  <2> QED
    BY <1>1, <1>3, <1>5, <1>7, <2>4, <2>7, <2>8 DEF Streamed
<1> QED
  BY <1>6, <1>7

LEMMA TellingStreams ==
  ASSUME Typed, Held, item \in Txs, Streamed(item), NEW e \in Events, Tells(e)
  PROVE  Streamed(item)'
<1> DEFINE m == mailbox[item]
           s == seen[item]
           d == told[item]
           n == Untold(item)
           m1 == mailbox'[item]
           d1 == told'[item]
<1>1. /\ worker = "running" /\ item' = item
      /\ UNCHANGED <<result, portOpen, seen, ops, outcome, badAdd>>
      /\ d1 = Append(d, e)
      /\ m1 = IF portOpen[item] THEN Append(m, Progress(e)) ELSE m
  <2>1. Progress(e) \in Frames
    BY DEF Frames
  <2> QED
    BY <2>1, PostTyped DEF Tells, Typed
<1>2. outcome[item] = "none" /\ result[item] # "none"
  BY <1>1 DEF Held
<1>3. /\ m \in Seq(Frames) /\ s \in Seq(Events) /\ d \in Seq(Events)
      /\ Len(m) \in Nat /\ Len(s) \in Nat /\ Len(d) \in Nat
  BY OfOne
<1>4. /\ Len(d1) = Len(d) + 1 /\ d1[Len(d) + 1] = e /\ \A i \in 1..Len(d) : d1[i] = d[i]
  BY <1>1, <1>3
<1>5. Prefixed(item)'
  <2>1. Len(s) <= Len(d) /\ \A i \in 1..Len(s) : s[i] = d[i]
    BY DEF Streamed, Prefixed
  <2>2. \A i \in 1..Len(s) : s[i] = d1[i]
    BY <1>3, <1>4, <2>1
  <2> QED
    BY <1>1, <1>3, <1>4, <2>1, <2>2 DEF Prefixed
<1>6. CASE item \in badAdd
  <2>1. result[item] = "pending" => m1 # <<>> /\ m1[1] = Error
    <3> SUFFICES ASSUME result[item] = "pending" PROVE m1 # <<>> /\ m1[1] = Error
      OBVIOUS
    <3>1. m # <<>> /\ m[1] = Error /\ portOpen[item]
      BY <1>6 DEF Streamed
    <3> QED
      BY <1>1, <1>3, <3>1
  <2> QED
    BY <1>1, <1>2, <1>5, <1>6, <2>1 DEF Streamed
<1>7. CASE item \notin badAdd /\ result[item] # "pending"
  BY <1>2, <1>3, <1>7, OfOne DEF Streamed
<1>8. CASE item \notin badAdd /\ result[item] = "pending"
  <2>1. portOpen[item] /\ InTransit(item) /\ Prefixed(item) /\ ops[item] = DOMAIN Operations[item]
    BY <1>8 DEF Streamed
  <2>2. n = Len(d) - Len(s) /\ n \in Nat
    BY <1>3, <2>1 DEF Prefixed, Untold
  <2>3. Len(m) = n /\ \A i \in 1..n : m[i] = Progress(d[Len(s) + i])
    <3>1. /\ Len(m) = n + (IF outcome[item] = "none" THEN 0 ELSE 1)
          /\ \A i \in 1..n : m[i] = Progress(d[Len(s) + i])
      BY <2>1 DEF InTransit
    <3> HIDE DEF n
    <3>2. Len(m) = n + 0
      BY <1>2, <3>1
    <3>3. Len(m) = n
      BY <2>2, <3>2
    <3> QED
      BY <3>1, <3>3, Zenon
  <2>4. m1 = Append(m, Progress(e))
    BY <1>1, <2>1
  <2>5. Len(m1) = n + 1 /\ m1[n + 1] = Progress(e) /\ \A i \in 1..n : m1[i] = m[i]
    BY <1>3, <2>3, <2>4
  <2>6. Untold(item)' = n + 1
    BY <1>1, <1>3, <1>4, <2>2 DEF Untold
  <2>7. \A i \in 1..(n + 1) : m1[i] = Progress(d1[Len(s) + i])
    <3> SUFFICES ASSUME NEW i \in 1..(n + 1) PROVE m1[i] = Progress(d1[Len(s) + i])
      OBVIOUS
    <3>1. CASE i = n + 1
      <4>1. Len(s) + i = Len(d) + 1
        BY <1>3, <2>2, <3>1
      <4>2. d1[Len(s) + i] = e
        BY <1>4, <4>1
      <4> QED
        BY <2>5, <3>1, <4>2
    <3>2. CASE i # n + 1
      <4>1. i \in 1..n
        BY <2>2, <3>2
      <4>2. Len(s) + i \in 1..Len(d)
        BY <1>3, <2>2, <4>1
      <4>3. d1[Len(s) + i] = d[Len(s) + i]
        BY <1>4, <4>2
      <4> QED
        BY <2>3, <2>5, <4>1, <4>3
    <3> QED
      BY <3>1, <3>2
  <2> HIDE DEF n
  <2>8. Len(m1) = (n + 1) + 0
    BY <2>2, <2>5
  <2>9. InTransit(item)'
    BY <1>1, <1>2, <2>6, <2>7, <2>8 DEF InTransit
  <2> QED
    BY <1>1, <1>5, <1>8, <2>1, <2>9 DEF Streamed
<1> QED
  BY <1>6, <1>7, <1>8

LEMMA AnsweringStreams ==
  ASSUME Typed, Held, item \in Txs, Streamed(item), NEW ok \in BOOLEAN, RunReturns(ok)
  PROVE  Streamed(item)'
<1> DEFINE m == mailbox[item]
           n == Untold(item)
           m1 == mailbox'[item]
           answer == IF ok THEN Done ELSE Error
<1>1. /\ worker = "running" /\ item' = item
      /\ UNCHANGED <<result, portOpen, seen, ops, told, badAdd>>
      /\ outcome'[item] = IF ok THEN "ok" ELSE "error"
      /\ m1 = IF portOpen[item] THEN Append(m, answer) ELSE m
  <2>1. answer \in Frames
    BY DEF Frames
  <2> QED
    BY <2>1, PostTyped DEF RunReturns, Typed, dartVars, history
<1>2. outcome[item] = "none" /\ result[item] # "none"
  BY <1>1 DEF Held
<1>3. m \in Seq(Frames) /\ Len(m) \in Nat
  BY OfOne
<1>4. Prefixed(item) /\ Prefixed(item)'
  BY <1>1 DEF Streamed, Prefixed
<1>5. CASE item \in badAdd
  <2>1. result[item] = "pending" => m1 # <<>> /\ m1[1] = Error
    <3> SUFFICES ASSUME result[item] = "pending" PROVE m1 # <<>> /\ m1[1] = Error
      OBVIOUS
    <3>1. m # <<>> /\ m[1] = Error /\ portOpen[item]
      BY <1>5 DEF Streamed
    <3> QED
      BY <1>1, <1>3, <3>1
  <2> QED
    BY <1>1, <1>2, <1>4, <1>5, <2>1 DEF Streamed
<1>6. CASE item \notin badAdd /\ result[item] # "pending"
  BY <1>2, <1>6, OfOne DEF Streamed
<1>7. CASE item \notin badAdd /\ result[item] = "pending"
  <2>1. portOpen[item] /\ InTransit(item) /\ ops[item] = DOMAIN Operations[item]
    BY <1>7 DEF Streamed
  <2>2. n \in Nat
    BY <1>4, OfOne DEF Prefixed, Untold
  <2>3. Len(m) = n /\ \A i \in 1..n : m[i] = Progress(told[item][Len(seen[item]) + i])
    BY <1>2, <2>1, <2>2 DEF InTransit
  <2>4. m1 = Append(m, answer)
    BY <1>1, <2>1
  <2>5. Len(m1) = n + 1 /\ m1[n + 1] = answer /\ \A i \in 1..n : m1[i] = m[i]
    BY <1>3, <2>3, <2>4
  <2>6. Untold(item)' = n
    BY <1>1 DEF Untold
  <2>7. \A i \in 1..n : m1[i] = Progress(told[item][Len(seen[item]) + i])
    BY <2>3, <2>5
  <2> HIDE DEF n
  <2>8. outcome'[item] # "none" /\ (outcome'[item] = "ok" <=> ok)
    BY <1>1
  <2>9. InTransit(item)'
    BY <1>1, <2>5, <2>6, <2>7, <2>8 DEF InTransit
  <2> QED
    BY <1>1, <1>4, <1>7, <2>1, <2>9 DEF Streamed
<1> QED
  BY <1>5, <1>6, <1>7

LEMMA NextStreamed ==
  ASSUME Typed, Held, NEW t \in Txs, Streamed(t), [Next]_vars
  PROVE  Streamed(t)'
<1> USE DEF dartVars, runVars, history
<1>0. ASSUME UNCHANGED <<result, portOpen, mailbox, seen, told, outcome, ops, badAdd>>
      PROVE  Streamed(t)'
  BY <1>0, StreamKept DEF Untouched
<1>1. ASSUME NEW u \in Txs, NEW refused \in SUBSET DOMAIN Operations[u], Submit(u, refused)
      PROVE  Streamed(t)'
  <2>1. CASE t = u
    BY <1>1, <2>1, SubmitStreams
  <2>2. CASE t # u
    <3>1. AddOps(u, refused)
      BY <1>1 DEF Submit
    <3>2. mailbox'[t] = mailbox[t] /\ ops'[t] = ops[t] /\ (t \in badAdd' <=> t \in badAdd)
      BY <2>2, <3>1, AddOpsEffect
    <3>3. /\ result'[t] = result[t] /\ portOpen'[t] = portOpen[t]
          /\ UNCHANGED <<seen, told, outcome>>
      BY <1>1, <2>2 DEF Submit, Typed
    <3> QED
      BY <3>2, <3>3, StreamKept DEF Untouched
  <2> QED
    BY <2>1, <2>2
<1>2. ASSUME NEW u \in Txs, CreateFails(u) \/ Cancel(u) PROVE Streamed(t)'
  BY <1>0, <1>2 DEF CreateFails, Cancel
<1>3. ASSUME NEW u \in Txs, Deliver(u) PROVE Streamed(t)'
  <2>1. CASE t = u
    <3>1. ASSUME NEW e \in Events, Hears(t, e) PROVE Streamed(t)'
      BY <1>3, <2>1, <3>1, HearingStreams
    <3>2. ASSUME Settles(t) PROVE Streamed(t)'
      BY <1>3, <2>1, <3>2, SettlingStreams
    <3> QED
      BY <1>3, <2>1, <3>1, <3>2, DeliverEffect
  <2>2. CASE t # u
    <3>1. UNCHANGED <<told, outcome, ops, badAdd>>
      BY <1>3, DeliverEffect
    <3>2. ASSUME NEW e \in Events, Hears(u, e) PROVE Streamed(t)'
      <4>1. /\ result'[t] = result[t] /\ portOpen'[t] = portOpen[t]
            /\ mailbox'[t] = mailbox[t] /\ seen'[t] = seen[t]
        BY <2>2, <3>2 DEF Hears, Typed
      <4> QED
        BY <3>1, <4>1, StreamKept DEF Untouched
    <3>3. ASSUME Settles(u) PROVE Streamed(t)'
      <4>1. /\ result'[t] = result[t] /\ portOpen'[t] = portOpen[t]
            /\ mailbox'[t] = mailbox[t] /\ seen'[t] = seen[t]
        BY <2>2, <3>3 DEF Settles, Typed
      <4> QED
        BY <3>1, <4>1, StreamKept DEF Untouched
    <3> QED
      BY <1>3, <3>2, <3>3, DeliverEffect
  <2> QED
    BY <2>1, <2>2
<1>4. CASE SubmitNotify \/ CloseFlag \/ CloseNotify \/ CloseJoin \/ LoopSleep \/ LoopReturn
  BY <1>0, <1>4 DEF SubmitNotify, CloseFlag, CloseNotify, CloseJoin, LoopSleep, LoopReturn
<1>5. CASE LoopTake \/ ClearCurrent \/ Release
  BY <1>0, <1>5 DEF LoopTake, ClearCurrent, Release
<1>6. CASE NewOperation \/ ProgressChanged \/ OperationDone
  <2>1. item \in Txs
    BY <1>6, StepTells
  <2>2. PICK e \in Events : Tells(e)
    BY <1>6, StepTells
  <2>3. item' = item
    BY <2>2 DEF Tells
  <2>4. CASE t = item
    BY <2>1, <2>2, <2>3, <2>4, TellingStreams
  <2>5. CASE t # item
    <3>1. mailbox'[t] = mailbox[t]
      <4>1. Progress(e) \in Frames
        BY DEF Frames
      <4> QED
        BY <2>1, <2>2, <2>5, <4>1, PostTyped DEF Tells
    <3>2. /\ told'[t] = told[t]
          /\ UNCHANGED <<result, portOpen, seen, outcome, ops, badAdd>>
      BY <2>1, <2>2, <2>5 DEF Tells, Typed
    <3> QED
      BY <3>1, <3>2, StreamKept DEF Untouched
  <2> QED
    BY <2>4, <2>5
<1>7. ASSUME NEW ok \in BOOLEAN, RunReturns(ok) PROVE Streamed(t)'
  <2>1. item \in Txs /\ item' = item
    BY <1>7 DEF RunReturns, Typed
  <2>2. CASE t = item
    BY <1>7, <2>1, <2>2, AnsweringStreams
  <2>3. CASE t # item
    <3>1. mailbox'[t] = mailbox[t]
      BY <1>7, <2>1, <2>3, PostTyped DEF RunReturns, Frames
    <3>2. /\ outcome'[t] = outcome[t]
          /\ UNCHANGED <<result, portOpen, seen, told, ops, badAdd>>
      BY <1>7, <2>1, <2>3 DEF RunReturns, Typed
    <3> QED
      BY <3>1, <3>2, StreamKept DEF Untouched
  <2> QED
    BY <2>2, <2>3
<1>8. CASE UNCHANGED vars
  BY <1>0, <1>8 DEF vars
<1> QED
  BY <1>1, <1>2, <1>3, <1>4, <1>5, <1>6, <1>7, <1>8 DEF Next, Worker

-----------------------------------------------------------------------------
(***************************************************************************)
(* The count of what was told.                                             *)
(***************************************************************************)

\* The events of one status, counted: one more with every event that has it.
Marks(events, status) == {i \in DOMAIN events : events[i].status = status}

LEMMA Tally ==
  ASSUME NEW d \in Seq(Events), NEW st
  PROVE  /\ IsFiniteSet(Marks(d, st)) /\ Cardinality(Marks(d, st)) \in Nat
         /\ Marks(d, st) \subseteq 1..Len(d)
<1>1. Marks(d, st) \subseteq 1..Len(d) /\ Len(d) \in Nat
  BY DEF Marks
<1>2. IsFiniteSet(1..Len(d))
  BY <1>1, FS_Interval
<1>3. IsFiniteSet(Marks(d, st))
  BY <1>1, <1>2, FS_Subset
<1> QED
  BY <1>1, <1>3, FS_CardinalityType

LEMMA OneMore ==
  ASSUME NEW d \in Seq(Events), NEW e \in Events, NEW st, NEW c, c = Append(d, e), st = e.status
  PROVE  /\ Marks(c, st) = Marks(d, st) \union {Len(d) + 1}
         /\ Cardinality(Marks(c, st)) = Cardinality(Marks(d, st)) + 1
<1>1. /\ DOMAIN c = 1..(Len(d) + 1) /\ c[Len(d) + 1] = e /\ \A i \in 1..Len(d) : c[i] = d[i]
      /\ DOMAIN d = 1..Len(d) /\ Len(d) \in Nat
  OBVIOUS
<1>2. IsFiniteSet(Marks(d, st)) /\ Len(d) + 1 \notin Marks(d, st)
  BY <1>1, Tally
<1>3. Marks(c, st) = Marks(d, st) \union {Len(d) + 1}
  BY <1>1 DEF Marks
<1>4. Cardinality(Marks(d, st) \union {Len(d) + 1}) = Cardinality(Marks(d, st)) + 1
  BY <1>2, FS_AddElement
<1> QED
  BY <1>3, <1>4

LEMMA NoMore ==
  ASSUME NEW d \in Seq(Events), NEW e \in Events, NEW st, NEW c, c = Append(d, e), st # e.status
  PROVE  Marks(c, st) = Marks(d, st)
<1>1. /\ DOMAIN c = 1..(Len(d) + 1) /\ c[Len(d) + 1] = e /\ \A i \in 1..Len(d) : c[i] = d[i]
      /\ DOMAIN d = 1..Len(d) /\ Len(d) \in Nat
  OBVIOUS
<1> QED
  BY <1>1 DEF Marks

LEMMA Tallied ==
  ASSUME NEW d \in Seq(Events), NEW e \in Events, NEW c, c = Append(d, e)
  PROVE  /\ Completed(c) = IF e.status = "Done" THEN Completed(d) \union {Len(d) + 1}
                                                ELSE Completed(d)
         /\ Cardinality(Completed(c)) = IF e.status = "Done" THEN Cardinality(Completed(d)) + 1
                                                             ELSE Cardinality(Completed(d))
         /\ Cardinality(Marks(c, "Downloading")) =
              IF e.status = "Downloading" THEN Cardinality(Marks(d, "Downloading")) + 1
                                          ELSE Cardinality(Marks(d, "Downloading"))
         /\ e.status = "Downloading" =>
              Marks(c, "Downloading") = Marks(d, "Downloading") \union {Len(d) + 1}
<1>1. Completed(c) = Marks(c, "Done") /\ Completed(d) = Marks(d, "Done")
  BY DEF Completed, Marks
<1>2. ASSUME e.status = "Done"
      PROVE  /\ Marks(c, "Done") = Marks(d, "Done") \union {Len(d) + 1}
             /\ Cardinality(Marks(c, "Done")) = Cardinality(Marks(d, "Done")) + 1
  BY <1>2, OneMore
<1>3. ASSUME e.status # "Done" PROVE Marks(c, "Done") = Marks(d, "Done")
  BY <1>3, NoMore
<1>4. ASSUME e.status = "Downloading"
      PROVE  /\ Marks(c, "Downloading") = Marks(d, "Downloading") \union {Len(d) + 1}
             /\ Cardinality(Marks(c, "Downloading")) = Cardinality(Marks(d, "Downloading")) + 1
  BY <1>4, OneMore, ZenonT(40)
<1>5. ASSUME e.status # "Downloading" PROVE Marks(c, "Downloading") = Marks(d, "Downloading")
  BY <1>5, NoMore
<1> QED
  BY <1>1, <1>2, <1>3, <1>4, <1>5

\* The operations are finitely many, and the i-th of all of them has its turn
\* when i - 1 are done.
LEMMA OpsFinite ==
  ASSUME Typed, NEW t \in Txs
  PROVE  IsFiniteSet(ops[t]) /\ Cardinality(ops[t]) \in Nat
<1>1. Operations[t] \in Seq([type : OpTypes, ref : STRING])
  BY WorkerAssumption
<1>2. DOMAIN Operations[t] = 1..Len(Operations[t]) /\ Len(Operations[t]) \in Nat
  BY <1>1
<1>3. IsFiniteSet(1..Len(Operations[t]))
  BY <1>2, FS_Interval
<1>4. ops[t] \subseteq 1..Len(Operations[t])
  BY <1>2 DEF Typed
<1>5. IsFiniteSet(ops[t])
  BY <1>3, <1>4, FS_Subset
<1> QED
  BY <1>5, FS_CardinalityType

LEMMA TurnOf ==
  ASSUME Typed, item \in Txs, NEW i \in ops[item], Turn(i)
  PROVE  /\ Count(item) < Cardinality(ops[item])
         /\ ops[item] = DOMAIN Operations[item] => i = Count(item) + 1
<1> DEFINE before == {j \in ops[item] : j < i}
<1>1. Cardinality(before) = Count(item)
  BY DEF Turn, Finished, Count
<1>2. ops[item] \subseteq Nat /\ i \in Nat /\ IsFiniteSet(ops[item])
      /\ Cardinality(ops[item]) \in Nat
  BY OpsFinite DEF Typed
<1>3. before \subseteq ops[item] /\ before # ops[item]
  BY <1>2
<1>4. /\ IsFiniteSet(before) /\ Cardinality(before) \in Nat
      /\ Cardinality(before) <= Cardinality(ops[item])
      /\ Cardinality(before) # Cardinality(ops[item])
  BY <1>2, <1>3, FS_Subset, FS_CardinalityType
<1>5. ASSUME ops[item] = DOMAIN Operations[item] PROVE i = Count(item) + 1
  <2>1. Operations[item] \in Seq([type : OpTypes, ref : STRING])
    BY WorkerAssumption
  <2>2. ops[item] = 1..Len(Operations[item]) /\ Len(Operations[item]) \in Nat
    BY <1>5, <2>1
  <2>3. before = 1..(i - 1) /\ i - 1 \in Nat
    BY <2>2
  <2>4. Cardinality(1..(i - 1)) = i - 1
    <3>1. \A a, b \in Int : Cardinality(a..b) = IF a > b THEN 0 ELSE b - a + 1
      BY FS_Interval
    <3> QED
      BY <1>2, <2>3, <3>1
  <2>5. i - 1 = Count(item)
    BY <1>1, <2>3, <2>4, Zenon
  <2> QED
    BY <1>2, <2>5
<1> HIDE DEF before
<1>6. Cardinality(before) < Cardinality(ops[item])
  BY <1>2, <1>4
<1>7. Count(item) < Cardinality(ops[item])
  BY <1>1, <1>6, Zenon
<1> QED
  BY <1>5, <1>7

\* What an event adds to the account of its transaction.
LEMMA TellingAccounts ==
  ASSUME Typed, Held, item \in Txs, Streamed(item), Accounted(item),
         NEW e \in Events, NEW i \in ops[item], Tells(e), Turn(i),
         e.ref = Operations[item][i].ref, e.status = "Starting" <=> ~Underway,
         e.status = "Done" => e.progress = 100
  PROVE  Accounted(item)'
<1> DEFINE d == told[item]
           d1 == told'[item]
           n == Count(item)
           done == Completed(d)
<1>1. /\ d \in Seq(Events) /\ Len(d) \in Nat /\ d1 = Append(d, e) /\ item' = item
      /\ UNCHANGED <<outcome, ops, badAdd>> /\ worker = "running"
  BY DEF Tells, Typed
<1>2. /\ Len(d1) = Len(d) + 1 /\ d1[Len(d1)] = e /\ d1 # <<>> /\ \A k \in 1..Len(d) : d1[k] = d[k]
  BY <1>1
<1>3. outcome[item] = "none" /\ result[item] # "none"
  BY <1>1 DEF Held
<1>4. Underway <=> Midway(item)
  BY DEF Underway, Midway, Last
<1>5. Midway(item)' <=> e.status # "Done"
  BY <1>1, <1>2 DEF Midway
<1>6. /\ done = Marks(d, "Done") /\ Completed(d1) = Marks(d1, "Done")
      /\ Downloads(item) = Marks(d, "Downloading")
      /\ Downloads(item)' = Marks(d1, "Downloading")
  BY <1>1 DEF Completed, Downloads, Marks
<1>7. /\ n \in Nat /\ n = Cardinality(done) /\ Count(item)' = Cardinality(Completed(d1))
      /\ Cardinality(Downloads(item)) \in Nat /\ done \subseteq 1..Len(d)
      /\ Cardinality(ops[item]) \in Nat
  <2>1. n = Cardinality(done) /\ Count(item)' = Cardinality(Completed(d1))
    BY <1>1 DEF Count
  <2>2. Cardinality(done) \in Nat /\ done \subseteq 1..Len(d)
    BY <1>1, <1>6, Tally
  <2>3. Cardinality(Downloads(item)) \in Nat
    BY <1>1, <1>6, Tally
  <2>4. Cardinality(ops[item]) \in Nat
    BY OpsFinite
  <2> QED
    BY <2>1, <2>2, <2>3, <2>4
<1>8. /\ Completed(d1) = IF e.status = "Done" THEN done \union {Len(d) + 1} ELSE done
      /\ Count(item)' = IF e.status = "Done" THEN n + 1 ELSE n
      /\ Cardinality(Downloads(item)') =
           IF e.status = "Downloading" THEN Cardinality(Downloads(item)) + 1
                                       ELSE Cardinality(Downloads(item))
  <2>1. /\ Completed(d1) = IF e.status = "Done" THEN Completed(d) \union {Len(d) + 1}
                                                ELSE Completed(d)
        /\ Cardinality(Completed(d1)) = IF e.status = "Done" THEN Cardinality(Completed(d)) + 1
                                                             ELSE Cardinality(Completed(d))
        /\ Cardinality(Marks(d1, "Downloading")) =
             IF e.status = "Downloading" THEN Cardinality(Marks(d, "Downloading")) + 1
                                         ELSE Cardinality(Marks(d, "Downloading"))
    BY <1>1, Tallied, ZenonT(40)
  <2> QED
    BY <1>6, <1>7, <2>1, Zenon
<1>9. e.status \in {"Starting", "Downloading", "Done"}
  BY DEF Events
<1>10. n < Cardinality(ops[item])
  BY TurnOf
<1>11. /\ Len(d) = 2 * n + (IF Midway(item) THEN 1 ELSE 0) + Cardinality(Downloads(item))
       /\ n + (IF Midway(item) THEN 1 ELSE 0) <= Cardinality(ops[item])
  BY DEF Accounted
<1>12. /\ Len(d1) = 2 * Count(item)' + (IF Midway(item)' THEN 1 ELSE 0)
                      + Cardinality(Downloads(item)')
       /\ Count(item)' + (IF Midway(item)' THEN 1 ELSE 0) <= Cardinality(ops[item])
  <2> HIDE DEF d, d1, done, n
  <2>1. CASE e.status = "Starting"
    BY <1>2, <1>4, <1>5, <1>7, <1>8, <1>10, <1>11, <2>1
  <2>2. CASE e.status = "Downloading"
    BY <1>2, <1>4, <1>5, <1>7, <1>8, <1>10, <1>11, <2>2
  <2>3. CASE e.status = "Done"
    BY <1>2, <1>4, <1>5, <1>7, <1>8, <1>10, <1>11, <2>3, SMTT(30)
  <2> QED
    BY <1>9, <2>1, <2>2, <2>3
<1>13. ASSUME item \notin badAdd, NEW a \in 1..Count(item)'
       PROVE  \E k \in Completed(d1) :
                /\ Cardinality({j \in Completed(d1) : j <= k}) = a
                /\ d1[k].ref = Operations[item][a].ref /\ d1[k].progress = 100
  <2>1. CASE a \in 1..n
    <3>1. PICK k \in done : /\ Cardinality({j \in done : j <= k}) = a
                            /\ d[k].ref = Operations[item][a].ref /\ d[k].progress = 100
      BY <1>13, <2>1 DEF Accounted
    <3>2. k \in 1..Len(d) /\ d1[k] = d[k] /\ k \in Completed(d1)
      BY <1>2, <1>7, <1>8
    <3>3. {j \in Completed(d1) : j <= k} = {j \in done : j <= k}
      BY <1>1, <1>8, <3>2
    <3> QED
      BY <3>1, <3>2, <3>3
  <2>2. CASE a \notin 1..n
    <3>1. e.status = "Done" /\ a = n + 1
      BY <1>7, <1>8, <1>13, <2>2
    <3>2. ops[item] = DOMAIN Operations[item]
      BY <1>3, <1>13 DEF Streamed
    <3>3. i = a
      BY <3>1, <3>2, TurnOf
    <3> DEFINE k == Len(d) + 1
    <3>4. k \in Completed(d1) /\ Cardinality(Completed(d1)) = a
      BY <1>7, <1>8, <3>1
    <3>5. {j \in Completed(d1) : j <= k} = Completed(d1)
      BY <1>1, <1>7, <1>8
    <3>6. d1[k].ref = Operations[item][a].ref /\ d1[k].progress = 100
      BY <1>2, <3>1, <3>3
    <3> QED
      BY <3>4, <3>5, <3>6
  <2> QED
    BY <2>1, <2>2
<1> QED
  BY <1>1, <1>3, <1>12, <1>13 DEF Accounted

\* Nothing is told of a transaction that was not yet taken.
LEMMA NothingTold == /\ Completed(<<>>) = {} /\ Cardinality({}) = 0
                     /\ {i \in DOMAIN <<>> : <<>>[i].status = "Downloading"} = {}
  BY FS_EmptySet DEF Completed

LEMMA InitAccounted == Init => \A t \in Txs : Accounted(t)
<1> SUFFICES ASSUME Init, NEW t \in Txs PROVE Accounted(t)
  OBVIOUS
<1>1. told[t] = <<>> /\ outcome[t] = "none" /\ ops[t] = {}
  BY DEF Init
<1>2. Count(t) = 0 /\ ~Midway(t) /\ Downloads(t) = {}
  BY <1>1, NothingTold DEF Count, Midway, Downloads
<1> QED
  BY <1>1, <1>2, NothingTold DEF Accounted

LEMMA AccountKept ==
  ASSUME NEW t \in Txs, Accounted(t), told'[t] = told[t], outcome'[t] = outcome[t],
         ops'[t] = ops[t], t \in badAdd' <=> t \in badAdd
  PROVE  Accounted(t)'
<1>1. /\ Count(t)' = Count(t) /\ Midway(t)' = Midway(t) /\ Downloads(t)' = Downloads(t)
  BY DEF Count, Midway, Downloads
<1>2. /\ Len(told'[t]) = 2 * Count(t)' + (IF Midway(t)' THEN 1 ELSE 0) + Cardinality(Downloads(t))'
      /\ Count(t)' + (IF Midway(t)' THEN 1 ELSE 0) <= Cardinality(ops'[t])
      /\ outcome'[t] = "ok" => Count(t)' = Cardinality(ops'[t])
  BY <1>1 DEF Accounted
<1>3. t \notin badAdd' => \A i \in 1..Count(t)' : \E k \in Completed(told[t]) :
        /\ Cardinality({j \in Completed(told[t]) : j <= k}) = i
        /\ told[t][k].ref = Operations[t][i].ref /\ told[t][k].progress = 100
  BY <1>1 DEF Accounted
<1> QED
  BY <1>2, <1>3, SMTT(30) DEF Accounted

LEMMA NextAccounted ==
  ASSUME Typed, Held, NEW t \in Txs, Streamed(t), Accounted(t), [Next]_vars
  PROVE  Accounted(t)'
<1> USE DEF dartVars, runVars, history
<1>0. ASSUME UNCHANGED <<told, outcome, ops, badAdd>> PROVE Accounted(t)'
  BY <1>0, AccountKept
<1>1. ASSUME NEW u \in Txs, NEW refused \in SUBSET DOMAIN Operations[u], Submit(u, refused)
      PROVE  Accounted(t)'
  <2>1. AddOps(u, refused) /\ UNCHANGED <<told, outcome>> /\ result[u] = "none"
    BY <1>1 DEF Submit
  <2>2. CASE t = u
    <3>1. told'[t] = <<>> /\ outcome'[t] = "none"
      BY <2>1, <2>2 DEF Held, Started
    <3>2. Count(t)' = 0 /\ ~Midway(t)' /\ Downloads(t)' = {}
      BY <3>1, NothingTold DEF Count, Midway, Downloads
    <3>3. Typed'
      BY NextTyped
    <3>4. Cardinality(ops'[t]) \in Nat
      <4>1. /\ ops' \in [Txs -> SUBSET Nat] /\ ops'[t] \subseteq DOMAIN Operations[t]
        BY <3>3 DEF Typed
      <4>2. Operations[t] \in Seq([type : OpTypes, ref : STRING])
        BY WorkerAssumption
      <4>3. /\ ops'[t] \subseteq 1..Len(Operations[t]) /\ Len(Operations[t]) \in Nat
        BY <4>1, <4>2
      <4>4. IsFiniteSet(1..Len(Operations[t]))
        BY <4>3, FS_Interval
      <4>5. IsFiniteSet(ops'[t])
        BY <4>3, <4>4, FS_Subset
      <4> QED
        BY <4>5, FS_CardinalityType
    <3> QED
      BY <3>1, <3>2, <3>4, NothingTold DEF Accounted
  <2>3. CASE t # u
    <3>1. ops'[t] = ops[t] /\ (t \in badAdd' <=> t \in badAdd)
      BY <2>1, <2>3, AddOpsEffect
    <3> QED
      BY <2>1, <3>1, AccountKept
  <2> QED
    BY <2>2, <2>3
<1>2. ASSUME NEW u \in Txs, CreateFails(u) \/ Cancel(u) \/ Deliver(u) PROVE Accounted(t)'
  BY <1>0, <1>2, DeliverEffect DEF CreateFails, Cancel
<1>3. CASE SubmitNotify \/ CloseFlag \/ CloseNotify \/ CloseJoin \/ LoopSleep \/ LoopReturn
  BY <1>0, <1>3 DEF SubmitNotify, CloseFlag, CloseNotify, CloseJoin, LoopSleep, LoopReturn
<1>4. CASE LoopTake \/ ClearCurrent \/ Release
  BY <1>0, <1>4 DEF LoopTake, ClearCurrent, Release
<1>5. CASE NewOperation \/ ProgressChanged \/ OperationDone
  <2>1. item \in Txs
    BY <1>5, StepTells
  <2>2. PICK e \in Events, i \in ops[item] :
          /\ Tells(e) /\ Turn(i) /\ e.ref = Operations[item][i].ref
          /\ e.status = "Starting" <=> ~Underway
          /\ e.status = "Done" => e.progress = 100
    BY <1>5, StepTells
  <2>3. item' = item
    BY <2>2 DEF Tells
  <2>4. CASE t = item
    <3>1. Accounted(item)'
      BY <2>1, <2>2, <2>4, TellingAccounts
    <3> QED
      BY <2>3, <2>4, <3>1
  <2>5. CASE t # item
    <3>1. told'[t] = told[t] /\ UNCHANGED <<outcome, ops, badAdd>>
      BY <2>1, <2>2, <2>5 DEF Tells, Typed
    <3> QED
      BY <3>1, AccountKept
  <2> QED
    BY <2>4, <2>5
<1>6. ASSUME NEW ok \in BOOLEAN, RunReturns(ok) PROVE Accounted(t)'
  <2>1. /\ item \in Txs /\ worker = "running" /\ UNCHANGED <<told, ops, badAdd>>
        /\ ok => Finished = Cardinality(ops[item])
        /\ outcome'[item] = IF ok THEN "ok" ELSE "error"
        /\ \A u \in Txs \ {item} : outcome'[u] = outcome[u]
    BY <1>6 DEF RunReturns, Typed
  <2>2. CASE t = item
    <3>1. /\ Count(t)' = Count(t) /\ Midway(t)' = Midway(t) /\ Downloads(t)' = Downloads(t)
      BY <2>1 DEF Count, Midway, Downloads
    <3>2. outcome'[t] = "ok" => Count(t) = Cardinality(ops[t])
      BY <2>1, <2>2 DEF Finished, Count
    <3> QED
      BY <2>1, <3>1, <3>2 DEF Accounted
  <2>3. CASE t # item
    BY <2>1, <2>3, AccountKept
  <2> QED
    BY <2>2, <2>3
<1>7. CASE UNCHANGED vars
  BY <1>0, <1>7 DEF vars
<1> QED
  BY <1>1, <1>2, <1>3, <1>4, <1>5, <1>6, <1>7 DEF Next, Worker

\* The changes of progress, of all transactions together.
LEMMA ChangesOf ==
  \A x : x \in Changes <=> \E u \in Txs : \E i \in Downloads(u) : x = <<u, i>>
  BY DEF Changes, Downloads

LEMMA InitBounded == Init => Bounded
<1> SUFFICES ASSUME Init PROVE Bounded
  OBVIOUS
<1>1. \A u \in Txs : Downloads(u) = {}
  BY NothingTold DEF Init, Downloads
<1>2. Changes = {}
  BY <1>1, ChangesOf
<1> QED
  BY <1>2, FS_EmptySet, WorkerAssumption DEF Bounded

LEMMA NextBounded == ASSUME Typed, Bounded, [Next]_vars PROVE Bounded'
<1> USE DEF dartVars, runVars, history
<1>0. ASSUME UNCHANGED told PROVE Bounded'
  BY <1>0 DEF Bounded, Changes
<1>1. CASE NewOperation \/ ProgressChanged \/ OperationDone
  <2>1. item \in Txs
    BY <1>1, StepTells
  <2>2. PICK e \in Events :
          Tells(e) /\ (e.status = "Downloading" => Cardinality(Changes) < MaxProgress)
    BY <1>1, StepTells
  <2>3. /\ told[item] \in Seq(Events) /\ told'[item] = Append(told[item], e)
        /\ \A u \in Txs \ {item} : told'[u] = told[u]
    BY <2>1, <2>2 DEF Tells, Typed
  <2>4. \A u \in Txs \ {item} : Downloads(u)' = Downloads(u)
    BY <2>3 DEF Downloads
  <2>5. /\ Downloads(item) = Marks(told[item], "Downloading")
        /\ {i \in DOMAIN told'[item] : told'[item][i].status = "Downloading"}
             = Marks(told'[item], "Downloading")
    BY DEF Downloads, Marks
  <2> DEFINE added == <<item, Len(told[item]) + 1>>
  <2>6. CASE e.status = "Downloading"
    <3>1. Marks(told'[item], "Downloading")
            = Marks(told[item], "Downloading") \union {Len(told[item]) + 1}
      BY <2>3, <2>6, Tallied
    <3>2. Changes' = Changes \union {added}
      <4>1. PICK t \in Txs : t = item
        BY <2>1
      <4> DEFINE k == Len(told[t]) + 1
      <4>2. Downloads(t)' = Downloads(t) \union {k}
        BY <2>5, <3>1, <4>1 DEF Downloads
      <4>3. ASSUME NEW u \in Txs, u # t PROVE Downloads(u)' = Downloads(u)
        BY <2>4, <4>1, <4>3
      <4> HIDE DEF k
      <4>4. \A x : x \in Changes' <=> \E u \in Txs : \E i \in Downloads(u)' : x = <<u, i>>
        BY DEF Changes, Downloads
      <4>5. \A x : x \in Changes' <=> x \in Changes \union {<<t, k>>}
        <5>1. ASSUME NEW x \in Changes' PROVE x \in Changes \union {<<t, k>>}
          <6>1. PICK u \in Txs : \E i \in Downloads(u)' : x = <<u, i>>
            BY <4>4, <5>1
          <6>2. CASE u = t
            BY <4>2, <6>1, <6>2, ChangesOf
          <6>3. CASE u # t
            BY <4>3, <6>1, <6>3, ChangesOf
          <6> QED
            BY <6>2, <6>3
        <5>2. ASSUME NEW x \in Changes PROVE x \in Changes'
          <6>1. PICK u \in Txs : \E i \in Downloads(u) : x = <<u, i>>
            BY <5>2, ChangesOf
          <6>2. \E i \in Downloads(u)' : x = <<u, i>>
            BY <4>2, <4>3, <6>1
          <6> QED
            BY <4>4, <6>1, <6>2
        <5>3. <<t, k>> \in Changes'
          <6>1. k \in Downloads(t)'
            BY <4>2
          <6> QED
            BY <4>4, <6>1
        <5> QED
          BY <5>1, <5>2, <5>3
      <4>6. added = <<t, k>>
        BY <4>1 DEF k
      <4> QED
        BY <4>5, <4>6
    <3>3. IsFiniteSet(Changes) /\ Cardinality(Changes) \in Nat
      BY FS_CardinalityType DEF Bounded
    <3>4. /\ IsFiniteSet(Changes \union {added})
          /\ Cardinality(Changes \union {added})
               = IF added \in Changes THEN Cardinality(Changes) ELSE Cardinality(Changes) + 1
      BY <3>3, FS_AddElement
    <3>5. Cardinality(Changes \union {added}) <= MaxProgress
      BY <2>2, <2>6, <3>3, <3>4, WorkerAssumption
    <3> QED
      BY <3>2, <3>4, <3>5 DEF Bounded
  <2>7. CASE e.status # "Downloading"
    <3>1. Marks(told'[item], "Downloading") = Marks(told[item], "Downloading")
      BY <2>3, <2>7, NoMore
    <3>2. Changes' = Changes
      <4>1. PICK t \in Txs : t = item
        BY <2>1
      <4>2. Downloads(t)' = Downloads(t)
        BY <2>5, <3>1, <4>1 DEF Downloads
      <4>3. \A u \in Txs : Downloads(u)' = Downloads(u)
        BY <2>4, <4>1, <4>2
      <4>4. \A x : x \in Changes' <=> \E u \in Txs : \E i \in Downloads(u)' : x = <<u, i>>
        BY DEF Changes, Downloads
      <4>5. \A x : x \in Changes' <=> x \in Changes
        BY <4>3, <4>4, ChangesOf
      <4> QED
        BY <4>5
    <3> QED
      BY <3>2 DEF Bounded
  <2> QED
    BY <2>6, <2>7
<1>2. ASSUME NEW u \in Txs, CreateFails(u) \/ Cancel(u) \/ Deliver(u) PROVE Bounded'
  BY <1>0, <1>2, DeliverEffect DEF CreateFails, Cancel
<1>3. CASE SubmitNotify \/ CloseFlag \/ CloseNotify \/ CloseJoin \/ LoopSleep \/ LoopReturn
  BY <1>0, <1>3 DEF SubmitNotify, CloseFlag, CloseNotify, CloseJoin, LoopSleep, LoopReturn
<1>4. CASE LoopTake \/ ClearCurrent \/ Release
  BY <1>0, <1>4 DEF LoopTake, ClearCurrent, Release
<1>5. ASSUME NEW u \in Txs, NEW refused \in SUBSET DOMAIN Operations[u], Submit(u, refused)
      PROVE  Bounded'
  BY <1>0, <1>5 DEF Submit
<1>6. ASSUME NEW ok \in BOOLEAN, RunReturns(ok) PROVE Bounded'
  BY <1>0, <1>6 DEF RunReturns
<1>7. CASE UNCHANGED vars
  BY <1>0, <1>7 DEF vars
<1> QED
  BY <1>1, <1>2, <1>3, <1>4, <1>5, <1>6, <1>7 DEF Next, Worker

-----------------------------------------------------------------------------
(***************************************************************************)
(* The theorems.                                                           *)
(***************************************************************************)

LEMMA FaithfulHolds == Safety => []Faithful
<1>1. Init => Faithful
  BY InitTyped, InitHeld, InitStreamed, InitAccounted, InitBounded DEF Faithful
<1>2. Faithful /\ [Next]_vars => Faithful'
  <2> SUFFICES ASSUME Faithful, [Next]_vars PROVE Faithful'
    OBVIOUS
  <2>1. Typed /\ Held /\ Bounded /\ \A t \in Txs : Streamed(t) /\ Accounted(t)
    BY DEF Faithful
  <2>2. Typed' /\ Held' /\ Bounded'
    BY <2>1, NextTyped, NextHeld, NextBounded
  <2>3. \A t \in Txs : Streamed(t)'
    BY <2>1, NextStreamed
  <2>4. \A t \in Txs : Accounted(t)'
    BY <2>1, NextAccounted
  <2> QED
    BY <2>2, <2>3, <2>4 DEF Faithful
<1> QED
  BY <1>1, <1>2, PTL DEF Safety

\* No transaction alone has more changes than all of them together.
LEMMA DownloadsBounded ==
  ASSUME Bounded, NEW t \in Txs
  PROVE  Cardinality(Downloads(t)) <= Cardinality(Changes)
<1> DEFINE f == [i \in Downloads(t) |-> <<t, i>>]
<1>1. \A i \in Downloads(t) : <<t, i>> \in Changes
  BY ChangesOf
<1>2. f \in [Downloads(t) -> Changes] /\ \A i, j \in Downloads(t) : f[i] = f[j] => i = j
  BY <1>1
<1> HIDE DEF f
<1>3. f \in Injection(Downloads(t), Changes)
  BY <1>2 DEF Injection, IsInjective
<1> QED
  BY <1>3, FS_Injection DEF Bounded

LEMMA FaithfulTypes == Faithful => TypeOK
<1> SUFFICES ASSUME Faithful PROVE TypeOK
  OBVIOUS
<1>1. Typed /\ Bounded
  BY DEF Faithful
<1>2. ASSUME NEW t \in Txs, NEW i \in DOMAIN mailbox[t]
      PROVE  mailbox[t][i].tag \in {"progress", "done", "error"}
  <2>1. mailbox[t][i] \in Frames
    BY <1>1, <1>2 DEF Typed
  <2> QED
    BY <2>1 DEF Frames, Done, Error, Progress
<1>3. ASSUME NEW t \in Txs
      PROVE  /\ ops[t] \subseteq DOMAIN Operations[t]
             /\ Len(seen[t]) <= Len(told[t])
             /\ Len(told[t]) <= 2 * Cardinality(ops[t]) + MaxProgress
  <2>1. Accounted(t) /\ Streamed(t)
    BY DEF Faithful
  <2>2. Cardinality(Downloads(t)) <= MaxProgress
    <3>1. Cardinality(Downloads(t)) <= Cardinality(Changes)
      BY <1>1, DownloadsBounded
    <3>2. Cardinality(Changes) <= MaxProgress
      BY <1>1 DEF Bounded
    <3>3. Cardinality(Changes) \in Nat
      BY <1>1, FS_CardinalityType DEF Bounded
    <3>4. Cardinality(Downloads(t)) \in Nat
      <4>1. told[t] \in Seq(Events) /\ Downloads(t) = Marks(told[t], "Downloading")
        BY <1>1 DEF Typed, Downloads, Marks
      <4> QED
        BY <4>1, Tally
    <3> QED
      BY <3>1, <3>2, <3>3, <3>4, WorkerAssumption
  <2>3. /\ Count(t) \in Nat /\ Cardinality(Downloads(t)) \in Nat /\ Cardinality(ops[t]) \in Nat
    <3>1. /\ told[t] \in Seq(Events) /\ Downloads(t) = Marks(told[t], "Downloading")
          /\ Completed(told[t]) = Marks(told[t], "Done")
      BY <1>1 DEF Typed, Downloads, Completed, Marks
    <3>2. Cardinality(Downloads(t)) \in Nat /\ Cardinality(Completed(told[t])) \in Nat
      BY <3>1, Tally
    <3> QED
      BY <1>1, <3>2, OpsFinite DEF Count
  <2>4. /\ Len(told[t]) = 2 * Count(t) + (IF Midway(t) THEN 1 ELSE 0) + Cardinality(Downloads(t))
        /\ Count(t) + (IF Midway(t) THEN 1 ELSE 0) <= Cardinality(ops[t])
    BY <2>1 DEF Accounted
  <2>5. Len(told[t]) <= 2 * Cardinality(ops[t]) + MaxProgress
    BY <2>2, <2>3, <2>4, WorkerAssumption
  <2> QED
    BY <1>1, <2>1, <2>5 DEF Typed, Streamed, Prefixed
<1> QED
  BY <1>1, <1>2, <1>3 DEF Typed, TypeOK

\* Whatever transactions are submitted, cancelled and closed, and whatever
\* libflatpak tells of them, the state has its types, and no more is told of a
\* transaction than its operations and their changes make.
THEOREM TypeCorrect == Safety => []TypeOK
  BY FaithfulHolds, FaithfulTypes, PTL

\* cancel() reaches only the cancellable of the transaction the worker has, and
\* never one that was unreferenced: current_cancel_ is set when a transaction is
\* taken and cleared before loop() gives it up.
THEOREM CancelReachesTheHeld == Safety => []CancelPointsAtLive
<1>1. Faithful => CancelPointsAtLive
  BY DEF Faithful, Held, CancelPointsAtLive
<1> QED
  BY <1>1, FaithfulHolds, PTL

LEMMA FaithfulReports == Faithful => ResultFaithful
<1> SUFFICES ASSUME Faithful, NEW t \in Txs
             PROVE  /\ result[t] = "ok" => outcome[t] = "ok" /\ t \notin badAdd
                    /\ result[t] = "error" => outcome[t] = "error" \/ t \in badAdd
                    /\ IsPrefix(seen[t], told[t])
                    /\ result[t] = "ok" => \A i \in DOMAIN Operations[t] :
                         \E k \in Completed(seen[t]) :
                           /\ Cardinality({j \in Completed(seen[t]) : j <= k}) = i
                           /\ seen[t][k].ref = Operations[t][i].ref /\ seen[t][k].progress = 100
  BY DEF ResultFaithful, StreamFaithful
<1>1. Typed /\ Streamed(t) /\ Accounted(t)
  BY DEF Faithful
<1>2. /\ result[t] = "ok" => outcome[t] = "ok" /\ t \notin badAdd
      /\ result[t] = "error" => outcome[t] = "error" \/ t \in badAdd
  BY <1>1 DEF Streamed
<1>3. IsPrefix(seen[t], told[t])
  <2>1. /\ seen[t] \in Seq(Events) /\ told[t] \in Seq(Events) /\ Len(seen[t]) <= Len(told[t])
        /\ \A i \in 1..Len(seen[t]) : seen[t][i] = told[t][i]
    BY <1>1 DEF Typed, Streamed, Prefixed
  <2> DEFINE a == SubSeq(seen[t], 1, Len(seen[t]))
             b == SubSeq(told[t], 1, Len(seen[t]))
  <2>2. /\ a \in Seq(Events) /\ b \in Seq(Events) /\ Len(a) = Len(seen[t]) /\ Len(b) = Len(seen[t])
        /\ \A i \in 1..Len(seen[t]) : a[i] = seen[t][i] /\ b[i] = told[t][i]
    BY <2>1
  <2> HIDE DEF a, b
  <2>3. a = b
    BY <2>1, <2>2, SeqEqual
  <2> QED
    BY <2>1, <2>3 DEF IsPrefix, a, b
<1>4. ASSUME result[t] = "ok", NEW i \in DOMAIN Operations[t]
      PROVE  \E k \in Completed(seen[t]) :
               /\ Cardinality({j \in Completed(seen[t]) : j <= k}) = i
               /\ seen[t][k].ref = Operations[t][i].ref /\ seen[t][k].progress = 100
  <2>1. t \notin badAdd /\ outcome[t] = "ok" /\ seen[t] = told[t] /\ ops[t] = DOMAIN Operations[t]
    BY <1>1, <1>4 DEF Streamed
  <2>2. Operations[t] \in Seq([type : OpTypes, ref : STRING])
    BY WorkerAssumption
  <2>3. DOMAIN Operations[t] = 1..Len(Operations[t]) /\ Len(Operations[t]) \in Nat
    BY <2>2
  <2>4. Cardinality(1..Len(Operations[t])) = Len(Operations[t])
    BY <2>3, FS_Interval
  <2>5. Count(t) = Len(Operations[t])
    BY <1>1, <2>1, <2>3, <2>4 DEF Accounted
  <2>6. i \in 1..Count(t)
    BY <2>3, <2>5
  <2> QED
    BY <1>1, <2>1, <2>6 DEF Accounted
<1> QED
  BY <1>2, <1>3, <1>4

\* A future succeeds only if its transaction ran and succeeded with all its
\* operations, and fails only for a failure or a refused operation; the stream has
\* what libflatpak told, in order, and, if the future is a success, all of it with
\* every operation at 100 percent (execute(), the codec, the listener of _submit).
THEOREM FuturesAreFaithful == Safety => []ResultFaithful
  BY FaithfulHolds, FaithfulReports, PTL

=============================================================================
