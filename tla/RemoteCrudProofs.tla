-------------------------- MODULE RemoteCrudProofs --------------------------
(***************************************************************************)
(* Proofs about RemoteCrud for every set of calls, names, configurations   *)
(* and files and whatever libflatpak has to tell: the types; a             *)
(* configuration arrives as it was meant; a call that fails has changed    *)
(* nothing but what a forced removal may; and a read that succeeds returns *)
(* every row asked for, once and in order.                                 *)
(***************************************************************************)
EXTENDS RemoteCrud, FiniteSetTheorems, SequenceTheorems, TLAPS

-----------------------------------------------------------------------------
(***************************************************************************)
(* The wire: the configuration is read by its own layout.                  *)
(***************************************************************************)

NamesIn(layout) == {layout[i][1] : i \in DOMAIN layout}

\* Whatever a layout is, what is written by it is read by it.
LEMMA ReadBack ==
  ASSUME NEW layout, NEW record
  PROVE  Read(layout, Write(layout, record))
           = [f \in NamesIn(layout) |-> record[f]]
<1> DEFINE w == Write(layout, record)
           At(f) == CHOOSE j \in DOMAIN layout : layout[j][1] = f
           names == {layout[i][1] : i \in DOMAIN layout}
<1>1. /\ DOMAIN w = DOMAIN layout
      /\ \A i \in DOMAIN layout : w[i] = <<layout[i][2], record[layout[i][1]]>>
  BY DEF Write
<1>2. \A f \in names : At(f) \in DOMAIN layout /\ layout[At(f)][1] = f
  OBVIOUS
<1>3. Read(layout, w) = [f \in names |->
        IF At(f) \in DOMAIN w /\ w[At(f)][1] = layout[At(f)][2] THEN w[At(f)][2] ELSE "garbage"]
  BY DEF Read
<1> HIDE DEF w, At, names
<1>4. \A f \in names : w[At(f)][1] = layout[At(f)][2] /\ w[At(f)][2] = record[f]
  BY <1>1, <1>2
<1>5. Read(layout, w) = [f \in names |-> record[f]]
  BY <1>1, <1>2, <1>3, <1>4
<1> QED
  BY <1>5 DEF w, names, NamesIn

\* The numbers of a configuration.
Numbers ==
  <<<<"priority", "i32">>, <<"gpgVerify", "i8">>, <<"disabled", "i8">>, <<"noDeps", "i8">>>>

ConfigFields == (Texts \ {"description"}) \union Flags \union {"priority"}

\* A concatenation, by places.
LEMMA Joined ==
  ASSUME NEW S, NEW s \in Seq(S), NEW t \in Seq(S)
  PROVE  /\ s \o t \in Seq(S) /\ Len(s \o t) = Len(s) + Len(t)
         /\ \A i \in 1..(Len(s) + Len(t)) :
              (s \o t)[i] = IF i <= Len(s) THEN s[i] ELSE t[i - Len(s)]
  OBVIOUS

LEMMA NamesJoined ==
  ASSUME NEW S, NEW s \in Seq(S), NEW t \in Seq(S)
  PROVE  s \o t \in Seq(S) /\ NamesIn(s \o t) = NamesIn(s) \union NamesIn(t)
<1> DEFINE u == s \o t
<1>1. /\ u \in Seq(S) /\ Len(u) = Len(s) + Len(t)
      /\ \A i \in 1..(Len(s) + Len(t)) : u[i] = IF i <= Len(s) THEN s[i] ELSE t[i - Len(s)]
  BY Joined
<1>2. /\ Len(s) \in Nat /\ Len(t) \in Nat /\ DOMAIN s = 1..Len(s) /\ DOMAIN t = 1..Len(t)
      /\ DOMAIN u = 1..(Len(s) + Len(t))
  BY <1>1
<1> HIDE DEF u
<1>3. ASSUME NEW x \in NamesIn(u) PROVE x \in NamesIn(s) \union NamesIn(t)
  <2>1. PICK i \in 1..(Len(s) + Len(t)) : x = u[i][1]
    BY <1>2, <1>3 DEF NamesIn
  <2>2. CASE i <= Len(s)
    <3>1. i \in 1..Len(s) /\ u[i] = s[i]
      BY <1>1, <1>2, <2>1, <2>2
    <3> QED
      BY <1>2, <2>1, <3>1 DEF NamesIn
  <2>3. CASE ~(i <= Len(s))
    <3>1. i - Len(s) \in 1..Len(t) /\ u[i] = t[i - Len(s)]
      BY <1>1, <1>2, <2>1, <2>3
    <3> QED
      BY <1>2, <2>1, <3>1 DEF NamesIn
  <2> QED
    BY <2>2, <2>3
<1>4. ASSUME NEW x \in NamesIn(s) PROVE x \in NamesIn(u)
  <2>1. PICK i \in 1..Len(s) : x = s[i][1]
    BY <1>2, <1>4 DEF NamesIn
  <2>2. i \in 1..(Len(s) + Len(t)) /\ u[i] = s[i]
    BY <1>1, <1>2
  <2> QED
    BY <1>2, <2>1, <2>2 DEF NamesIn
<1>5. ASSUME NEW x \in NamesIn(t) PROVE x \in NamesIn(u)
  <2>1. PICK i \in 1..Len(t) : x = t[i][1]
    BY <1>2, <1>5 DEF NamesIn
  <2>2. /\ Len(s) + i \in 1..(Len(s) + Len(t)) /\ ~(Len(s) + i <= Len(s))
        /\ (Len(s) + i) - Len(s) = i
    BY <1>2
  <2>3. u[Len(s) + i] = t[i]
    BY <1>1, <2>2
  <2> QED
    BY <1>2, <2>1, <2>2, <2>3 DEF NamesIn
<1> QED
  BY <1>1, <1>3, <1>4, <1>5 DEF u

\* The pairs of a layout.
Pairs == {<<f, ty>> : f \in ConfigFields, ty \in {"string", "bytes", "i32", "i8"}}

LEMMA SameLayout ==
  /\ EncodedConfig = RemoteConfig
  /\ RemoteConfig \in Seq(Pairs)
  /\ NamesIn(RemoteConfig) = ConfigFields
<1> DEFINE five == Strings(<<"url", "title", "comment", "homepage", "defaultBranch">>)
           key == <<<<"gpgKeyData", "bytes">>>>
           three == Strings(<<"subset", "collectionId", "filter">>)
           one == <<<<"priority", "i32">>>>
           flags == Fields("i8", <<"gpgVerify", "disabled", "noDeps">>)
<1>1. /\ five \in Seq(Pairs)
      /\ NamesIn(five) = {"url", "title", "comment", "homepage", "defaultBranch"}
  BY DEF Strings, Fields, Pairs, NamesIn, ConfigFields, Texts, Flags
<1>2. key \in Seq(Pairs) /\ NamesIn(key) = {"gpgKeyData"}
  BY DEF Pairs, NamesIn, ConfigFields, Texts, Flags
<1>3. three \in Seq(Pairs) /\ NamesIn(three) = {"subset", "collectionId", "filter"}
  BY DEF Strings, Fields, Pairs, NamesIn, ConfigFields, Texts, Flags
<1>4. one \in Seq(Pairs) /\ NamesIn(one) = {"priority"}
  BY DEF Pairs, NamesIn, ConfigFields, Texts, Flags
<1>5. flags \in Seq(Pairs) /\ NamesIn(flags) = {"gpgVerify", "disabled", "noDeps"}
  BY DEF Fields, Pairs, NamesIn, ConfigFields, Texts, Flags
<1>6. one \o flags = Numbers
  <2>1. one \in Seq(Pairs) /\ Len(one) = 1 /\ one[1] = <<"priority", "i32">>
    BY <1>4
  <2>2. /\ flags \in Seq(Pairs) /\ Len(flags) = 3 /\ flags[1] = <<"gpgVerify", "i8">>
        /\ flags[2] = <<"disabled", "i8">> /\ flags[3] = <<"noDeps", "i8">>
    BY <1>5 DEF Fields
  <2>3. /\ Numbers \in Seq(Pairs) /\ Len(Numbers) = 4 /\ Numbers[1] = <<"priority", "i32">>
        /\ Numbers[2] = <<"gpgVerify", "i8">> /\ Numbers[3] = <<"disabled", "i8">>
        /\ Numbers[4] = <<"noDeps", "i8">>
    BY DEF Numbers, Pairs, ConfigFields, Texts, Flags
  <2> HIDE DEF one, flags
  <2> DEFINE u == one \o flags
  <2>4. /\ u \in Seq(Pairs) /\ Len(u) = Len(one) + Len(flags)
        /\ \A i \in 1..(Len(one) + Len(flags)) :
             u[i] = IF i <= Len(one) THEN one[i] ELSE flags[i - Len(one)]
    BY <2>1, <2>2, Joined
  <2> HIDE DEF u
  <2>5. /\ Len(u) = 4 /\ u[1] = one[1] /\ u[2] = flags[1] /\ u[3] = flags[2] /\ u[4] = flags[3]
    BY <2>1, <2>2, <2>4
  <2>6. \A i \in 1..4 : u[i] = Numbers[i]
    <3>1. /\ u[1] = Numbers[1] /\ u[2] = Numbers[2] /\ u[3] = Numbers[3]
          /\ u[4] = Numbers[4]
      BY <2>1, <2>2, <2>3, <2>5
    <3>2. \A i \in 1..4 : i = 1 \/ i = 2 \/ i = 3 \/ i = 4
      OBVIOUS
    <3> QED
      BY <3>1, <3>2
  <2>7. u = Numbers
    BY <2>3, <2>4, <2>5, <2>6, SeqEqual
  <2> QED
    BY <2>7 DEF u
<1> DEFINE a == five \o key
           b == a \o three
           c == b \o one
           d == c \o flags
<1>7. RemoteConfig = d /\ EncodedConfig = b \o Numbers
  BY DEF RemoteConfig, EncodedConfig, Numbers
<1> HIDE DEF five, key, three, one, flags
<1>8. a \in Seq(Pairs) /\ NamesIn(a) = NamesIn(five) \union NamesIn(key)
  BY <1>1, <1>2, NamesJoined
<1> HIDE DEF a
<1>9. b \in Seq(Pairs) /\ NamesIn(b) = NamesIn(a) \union NamesIn(three)
  BY <1>3, <1>8, NamesJoined
<1> HIDE DEF b
<1>10. c \in Seq(Pairs) /\ NamesIn(c) = NamesIn(b) \union NamesIn(one)
  BY <1>4, <1>9, NamesJoined
<1>11. d = b \o (one \o flags)
  BY <1>4, <1>5, <1>9, ConcatAssociative
<1> HIDE DEF c
<1>12. NamesIn(d) = NamesIn(c) \union NamesIn(flags)
  BY <1>5, <1>10, NamesJoined
<1> HIDE DEF d
<1>13. RemoteConfig = EncodedConfig
  BY <1>6, <1>7, <1>11
<1>15. d \in Seq(Pairs)
  BY <1>5, <1>10, NamesJoined DEF d
<1>14. NamesIn(d) = ConfigFields
  BY <1>1, <1>2, <1>3, <1>4, <1>5, <1>8, <1>9, <1>10, <1>12 DEF ConfigFields, Texts, Flags
<1> QED
  BY <1>7, <1>13, <1>14, <1>15

\* What the wire makes of a record written by a layout of pairs.
LEMMA Carried ==
  ASSUME NEW layout \in Seq(Pairs), NEW record, NEW default
  PROVE  ReadBinary(layout, Write(layout, record), default)
           = [f \in NamesIn(layout) |-> record[f]]
<1> DEFINE w == Write(layout, record)
           T == {<<layout[i][2], record[layout[i][1]]>> : i \in DOMAIN layout}
<1>0. Read(layout, w) = [f \in NamesIn(layout) |-> record[f]]
  BY ReadBack
<1>1. /\ Len(layout) \in Nat /\ DOMAIN layout = 1..Len(layout)
  OBVIOUS
<1>2. w = [i \in 1..Len(layout) |-> <<layout[i][2], record[layout[i][1]]>>]
  BY <1>1 DEF Write
<1>3. w \in [1..Len(layout) -> T]
  BY <1>1, <1>2
<1> HIDE DEF w, T
<1>4. w \in Seq(T) /\ DOMAIN w = 1..Len(layout)
  BY <1>1, <1>3
<1>5. Len(w) = Len(layout)
  BY <1>1, <1>4
<1>6. ~(Len(w) < Len(layout))
  BY <1>1, <1>5
<1>7. ReadBinary(layout, w, default) = Read(layout, w)
  BY <1>6 DEF ReadBinary
<1>8. ReadBinary(layout, w, default) = [f \in NamesIn(layout) |-> record[f]]
  BY <1>0, <1>7
<1> QED
  BY <1>8 DEF w

-----------------------------------------------------------------------------
(***************************************************************************)
(* From the caller's configuration to the remote object.                   *)
(***************************************************************************)

\* What a caller can write down.
Configuration(cfg) ==
  /\ DOMAIN cfg \subseteq ConfigFields
  /\ \A f \in DOMAIN cfg \intersect Flags : cfg[f] \in BOOLEAN
  /\ "priority" \in DOMAIN cfg => cfg["priority"] \in Int

\* Every configuration of a request is one.
LEMMA AllConfigurations ==
  \A cfg \in Configs \union {Enable, Disable, SetPriority(0), ModifySubset("none")} :
    Configuration(cfg)
<1>1. \A cfg \in Configs : Configuration(cfg)
  BY RemoteAssumption DEF Configuration, ConfigFields
<1>2. Configuration(Enable) /\ Configuration(Disable)
  <2>1. /\ DOMAIN Enable = {"disabled"} /\ Enable["disabled"] = FALSE
        /\ DOMAIN Disable = {"disabled"} /\ Disable["disabled"] = TRUE
    BY DEF Enable, Disable
  <2>2. "disabled" \in ConfigFields /\ "disabled" # "priority"
    BY DEF ConfigFields, Texts, Flags
  <2>3. Configuration(Enable)
    BY <2>1, <2>2 DEF Configuration
  <2>4. Configuration(Disable)
    BY <2>1, <2>2 DEF Configuration
  <2> QED
    BY <2>3, <2>4
<1>3. Configuration(SetPriority(0)) /\ Configuration(ModifySubset("none"))
  BY DEF Configuration, ConfigFields, SetPriority, ModifySubset, Texts, Flags
<1> QED
  BY <1>1, <1>2, <1>3

\* The fields a configuration sets arrive with their values, but for those
\* that have no form on the wire; the others are not touched
\* (encodeRemoteConfig(), read_binary(), apply_config()).
LEMMA ChangesFaithful ==
  ASSUME NEW cfg, Configuration(cfg)
  PROVE  ChangesOf(cfg) = [f \in Expressible(cfg) |-> cfg[f]]
<1> DEFINE all == Texts \union Flags \union {"priority"}
           record == [f \in all |->
             IF f \notin DOMAIN cfg THEN Unset(f)
             ELSE CASE f = "subset" /\ cfg[f] = "none" -> ""
                    [] f \in Flags -> IF cfg[f] THEN 1 ELSE 0
                    [] OTHER -> cfg[f]]
           read == [f \in ConfigFields |-> record[f]]
<1>1. ChangesOf(cfg) = Applied(read)
  <2> DEFINE default == [f \in all |-> Unset(f)]
  <2>1. ChangesOf(cfg) = Applied(ReadBinary(RemoteConfig, Write(RemoteConfig, record), default))
    BY SameLayout DEF ChangesOf, EncodeConfig, BinaryWrite
  <2>2. ReadBinary(RemoteConfig, Write(RemoteConfig, record), default)
          = [f \in NamesIn(RemoteConfig) |-> record[f]]
    <3> HIDE DEF record, default
    <3> QED
      BY SameLayout, Carried
  <2> QED
    BY <2>1, <2>2, SameLayout
<1>2. /\ ConfigFields \subseteq all
      /\ \A f \in ConfigFields : f \in Texts \/ f \in Flags \/ f = "priority"
      /\ "priority" \notin Texts /\ Texts \intersect Flags = {} /\ "priority" \notin Flags
      /\ "subset" \in Texts
  BY DEF ConfigFields, Texts, Flags
<1>3. /\ DOMAIN cfg \subseteq ConfigFields
      /\ \A f \in DOMAIN cfg : f \in Flags => cfg[f] \in BOOLEAN
      /\ "priority" \in DOMAIN cfg => cfg["priority"] \in Int
  BY DEF Configuration
<1>4. DOMAIN read = ConfigFields
  OBVIOUS
<1>5. \A f \in ConfigFields : f \notin DOMAIN cfg =>
        read[f] = IF f \in Texts THEN "" ELSE -1
  <2>1. \A f \in ConfigFields : f \notin DOMAIN cfg => read[f] = Unset(f)
    BY <1>2
  <2> HIDE DEF read
  <2> QED
    BY <2>1 DEF Unset
<1>6. \A f \in DOMAIN cfg : f \in Texts /\ f # "subset" => read[f] = cfg[f]
  BY <1>2, <1>3
<1>7. \A f \in DOMAIN cfg : f \in Flags => read[f] = IF cfg[f] THEN 1 ELSE 0
  BY <1>2, <1>3
<1>8. "priority" \in DOMAIN cfg => read["priority"] = cfg["priority"]
  BY <1>2, <1>3
<1> HIDE DEF read, record, all
<1> DEFINE dom == {t \in DOMAIN read \ {"subset"} :
                    IF t \in Texts THEN read[t] # "" ELSE read[t] >= 0}
<1>9. Settings \intersect ConfigFields = ConfigFields \ {"subset"}
  BY DEF Settings, ConfigFields, Texts, Flags
<1>10. ASSUME NEW f \in ConfigFields \ {"subset"}
       PROVE  f \in dom <=> f \in Expressible(cfg)
  <2>1. CASE f \notin DOMAIN cfg
    <3>1. f \notin Expressible(cfg)
      BY <2>1 DEF Expressible
    <3>2. CASE f \in Texts
      BY <1>4, <1>5, <2>1, <3>1, <3>2
    <3>3. CASE f \notin Texts
      <4>1. read[f] = -1
        BY <1>5, <2>1, <3>3
      <4>2. ~(-1 >= 0)
        OBVIOUS
      <4>3. ~(read[f] >= 0)
        BY <4>1, <4>2
      <4> QED
        BY <3>1, <3>3, <4>3
    <3> QED
      BY <3>2, <3>3
  <2>2. CASE f \in DOMAIN cfg /\ f \in Texts
    <3>1. f \in dom <=> cfg[f] # ""
      BY <1>4, <1>6, <2>2
    <3>2. f \in Expressible(cfg) <=> cfg[f] # ""
      BY <1>2, <1>9, <2>2 DEF Expressible
    <3> QED
      BY <3>1, <3>2
  <2>3. CASE f \in DOMAIN cfg /\ f \in Flags
    <3>1. f \notin Texts /\ (read[f] = 1 \/ read[f] = 0)
      BY <1>2, <1>7, <2>3
    <3>2. f \in dom
      BY <1>4, <3>1
    <3>3. f \in Expressible(cfg)
      BY <1>2, <1>9, <2>3 DEF Expressible
    <3> QED
      BY <3>2, <3>3
  <2>4. CASE f \in DOMAIN cfg /\ f = "priority"
    <3>1. f \in dom <=> cfg["priority"] >= 0
      BY <1>2, <1>4, <1>8, <2>4
    <3>2. f \in Expressible(cfg) <=> cfg["priority"] >= 0
      BY <1>2, <1>9, <2>4 DEF Expressible
    <3> QED
      BY <3>1, <3>2
  <2> QED
    BY <1>2, <2>1, <2>2, <2>3, <2>4
<1>11. dom = Expressible(cfg)
  <2>1. dom \subseteq ConfigFields \ {"subset"}
    BY <1>4
  <2>2. Expressible(cfg) \subseteq ConfigFields \ {"subset"}
    BY <1>3, <1>9 DEF Expressible
  <2> HIDE DEF dom
  <2> QED
    BY <1>10, <2>1, <2>2
<1>12. \A f \in Expressible(cfg) : (IF f \in Flags THEN read[f] # 0 ELSE read[f]) = cfg[f]
  <2> SUFFICES ASSUME NEW f \in Expressible(cfg)
               PROVE  (IF f \in Flags THEN read[f] # 0 ELSE read[f]) = cfg[f]
    OBVIOUS
  <2>1. f \in DOMAIN cfg /\ f \in ConfigFields /\ f # "subset"
    BY <1>3, <1>9 DEF Expressible
  <2>2. CASE f \in Flags
    <3>1. cfg[f] = TRUE \/ cfg[f] = FALSE
      BY <1>3, <2>1, <2>2
    <3>2. read[f] = IF cfg[f] THEN 1 ELSE 0
      BY <1>7, <2>1, <2>2
    <3>3. CASE cfg[f] = TRUE
      <4>1. read[f] = 1
        BY <3>2, <3>3
      <4>2. (read[f] # 0) = TRUE
        BY <4>1
      <4> QED
        BY <2>2, <3>3, <4>2
    <3>4. CASE cfg[f] = FALSE
      <4>1. read[f] = 0
        BY <3>2, <3>4
      <4>2. (read[f] # 0) = FALSE
        BY <4>1
      <4> QED
        BY <2>2, <3>4, <4>2
    <3> QED
      BY <3>1, <3>3, <3>4
  <2>3. CASE f \notin Flags
    BY <1>2, <1>6, <1>8, <2>1, <2>3
  <2> QED
    BY <2>2, <2>3
<1>13. Applied(read) = [f \in dom |-> IF f \in Flags THEN read[f] # 0 ELSE read[f]]
  BY DEF Applied
<1> HIDE DEF dom
<1>14. Applied(read) = [f \in Expressible(cfg) |-> cfg[f]]
  BY <1>11, <1>12, <1>13
<1> QED
  BY <1>1, <1>14

-----------------------------------------------------------------------------
(***************************************************************************)
(* The inductive invariant: what a call has written, at every place of it. *)
(***************************************************************************)

Managing == {"add", "addFromFile", "modify", "remove", "update"}
Reading == {"list", "first", "last"}

\* What a failed call may have written.
Spared(c) == IF req[c].op = "remove" THEN {"disabled"} ELSE {}

\* What there is of every call.
Shaped ==
  /\ DOMAIN pc = Calls /\ DOMAIN req = Calls /\ DOMAIN frames = Calls
  /\ DOMAIN result = Calls /\ DOMAIN wrote = Calls

\* A call is one of the methods; a configuration is one a caller can write.
Asked(c) ==
  /\ pc[c] # "idle" => req[c].op \in Managing \union Reading
  /\ pc[c] # "idle" /\ req[c].op \in {"add", "modify"} => Configuration(req[c].cfg)

\* A call that is under way has not answered, and only a removal has two
\* steps that write.
Underway(c) ==
  /\ pc[c] \in {"idle", "called", "got", "disabling", "removing"} => result[c] = "none"
  /\ pc[c] \in {"idle", "called", "got", "disabling"} => wrote[c] = {}
  /\ pc[c] = "removing" => req[c].op = "remove" /\ wrote[c] \subseteq {"disabled"}

\* A manager answers with one frame; the failure among them has written
\* nothing but what is spared.  A reader never writes.
Answered(c) ==
  /\ pc[c] # "idle" /\ req[c].op \in Reading => wrote[c] = {}
  /\ pc[c] = "posted" /\ req[c].op \in Managing =>
       \/ frames[c] = <<Ok>>
       \/ frames[c] = <<Error>> /\ wrote[c] \subseteq Spared(c)
  /\ result[c] = "error" => wrote[c] \subseteq Spared(c)

Settled == Shaped /\ \A c \in Calls : Asked(c) /\ Underway(c) /\ Answered(c)

-----------------------------------------------------------------------------
(***************************************************************************)
(* A step is the step of one call.                                         *)
(***************************************************************************)

\* From before to after, only the entry of call d may differ.
Same(before, after, d) ==
  DOMAIN after = Calls /\ \A c \in Calls \ {d} : after[c] = before[c]

Local(d) ==
  /\ Same(pc, pc', d) /\ Same(req, req', d) /\ Same(frames, frames', d)
  /\ Same(result, result', d) /\ Same(wrote, wrote', d)

LEMMA PostIs ==
  ASSUME Shaped, NEW d \in Calls, NEW posted, Post(d, posted)
  PROVE  /\ pc'[d] = "posted" /\ frames'[d] = posted /\ req' = req /\ result' = result
         /\ Same(pc, pc', d) /\ Same(req, req', d) /\ Same(frames, frames', d)
         /\ Same(result, result', d)
BY DEF Shaped, Post, Same

LEMMA GotoIs ==
  ASSUME Shaped, NEW d \in Calls, NEW place, Goto(d, place)
  PROVE  /\ pc'[d] = place /\ frames' = frames /\ req' = req /\ result' = result
         /\ Same(pc, pc', d) /\ Same(req, req', d) /\ Same(frames, frames', d)
         /\ Same(result, result', d)
BY DEF Shaped, Goto, Same

LEMMA CommitIs ==
  ASSUME Shaped, NEW d \in Calls, NEW settings, NEW changes, Commit(d, settings, changes)
  PROVE  wrote'[d] = wrote[d] \union DOMAIN changes /\ Same(wrote, wrote', d)
BY DEF Shaped, Commit, Same

LEMMA UnwrittenIs ==
  ASSUME Shaped, NEW d \in Calls, wrote' = wrote
  PROVE  wrote'[d] = wrote[d] /\ Same(wrote, wrote', d)
BY DEF Shaped, Same

\* It is enough to look at the call that takes the step.
LEMMA Preserved ==
  ASSUME Settled, NEW d \in Calls, Local(d), Asked(d)', Underway(d)', Answered(d)'
  PROVE  Settled'
<1>1. Shaped'
  BY DEF Local, Same, Shaped
<1>2. ASSUME NEW c \in Calls, c # d
      PROVE  Asked(c)' /\ Underway(c)' /\ Answered(c)'
  <2>1. /\ pc'[c] = pc[c] /\ req'[c] = req[c] /\ frames'[c] = frames[c]
        /\ result'[c] = result[c] /\ wrote'[c] = wrote[c]
    BY <1>2 DEF Local, Same
  <2>2. Asked(c) /\ Underway(c) /\ Answered(c)
    BY DEF Settled
  <2>3. Asked(c)'
    BY <2>1, <2>2 DEF Asked
  <2>4. Underway(c)'
    BY <2>1, <2>2 DEF Underway
  <2>5. Answered(c)'
    BY <2>1, <2>2 DEF Answered, Spared
  <2> QED
    BY <2>3, <2>4, <2>5
<1> QED
  BY <1>1, <1>2 DEF Settled

\* A call that posts one frame, an error only if it has written what is
\* spared.
LEMMA Answers ==
  ASSUME Settled, NEW d \in Calls, NEW answer \in {Ok, Error}, Post(d, <<answer>>),
         Same(wrote, wrote', d),
         pc[d] \in {"called", "got", "removing"}, req[d].op \in Managing,
         answer = Error => wrote'[d] \subseteq Spared(d)
  PROVE  Settled'
<1>1. Shaped /\ Asked(d) /\ Underway(d) /\ Answered(d)
  BY DEF Settled
<1>2. /\ pc'[d] = "posted" /\ frames'[d] = <<answer>> /\ req' = req /\ result' = result
      /\ Same(pc, pc', d) /\ Same(req, req', d) /\ Same(frames, frames', d)
      /\ Same(result, result', d)
  BY <1>1, PostIs
<1>3. Local(d)
  BY <1>2 DEF Local
<1>4. Asked(d)'
  BY <1>1, <1>2 DEF Asked
<1>5. Underway(d)'
  BY <1>2 DEF Underway
<1>6. Answered(d)'
  <2>1. result[d] = "none" /\ req[d].op \notin Reading
    BY <1>1 DEF Underway, Managing, Reading
  <2>2. Spared(d)' = Spared(d)
    BY <1>2 DEF Spared
  <2>3. \/ frames'[d] = <<Ok>>
        \/ frames'[d] = <<Error>> /\ wrote'[d] \subseteq Spared(d)
    <3>1. frames'[d] = <<answer>>
      BY <1>2
    <3>2. CASE answer = Ok
      <4>1. frames'[d] = <<Ok>>
        BY <3>1, <3>2, Zenon
      <4> QED
        BY <4>1
    <3>3. CASE answer = Error
      <4>1. frames'[d] = <<Error>>
        BY <3>1, <3>3, Zenon
      <4> QED
        BY <3>3, <4>1
    <3> QED
      BY <3>2, <3>3
  <2> QED
    BY <1>2, <2>1, <2>2, <2>3 DEF Answered
<1> QED
  BY <1>3, <1>4, <1>5, <1>6, Preserved

\* A read posts its rows and writes nothing.
LEMMA ReadsPost ==
  ASSUME Settled, NEW d \in Calls, NEW posted, Post(d, posted), wrote' = wrote,
         pc[d] = "called", req[d].op \in Reading
  PROVE  Settled'
<1>1. Shaped /\ Asked(d) /\ Underway(d) /\ Answered(d)
  BY DEF Settled
<1>2. /\ pc'[d] = "posted" /\ req' = req /\ result' = result
      /\ Same(pc, pc', d) /\ Same(req, req', d) /\ Same(frames, frames', d)
      /\ Same(result, result', d)
  BY <1>1, PostIs
<1>3. wrote'[d] = wrote[d] /\ Same(wrote, wrote', d)
  BY <1>1, UnwrittenIs
<1>4. Local(d)
  BY <1>2, <1>3 DEF Local
<1>5. Asked(d)'
  BY <1>1, <1>2 DEF Asked
<1>6. Underway(d)'
  BY <1>2 DEF Underway
<1>7. Answered(d)'
  <2>1. result[d] = "none" /\ req[d].op \notin Managing /\ wrote[d] = {}
    BY <1>1 DEF Underway, Managing, Reading
  <2> QED
    BY <1>2, <1>3, <2>1 DEF Answered
<1> QED
  BY <1>4, <1>5, <1>6, <1>7, Preserved

-----------------------------------------------------------------------------
(***************************************************************************)
(* One lemma per kind of step.                                             *)
(***************************************************************************)

LEMMA RequestIs ==
  ASSUME NEW r \in Requests
  PROVE  /\ r.op \in Managing \union Reading
         /\ r.op \in {"add", "modify"} => Configuration(r.cfg)
<1>1. CASE r \in [op : {"add"}, name : Names, cfg : Configs, ifNotExists : BOOLEAN]
  <2>1. r.op = "add" /\ r.cfg \in Configs
    BY <1>1
  <2> QED
    BY <2>1, AllConfigurations DEF Managing
<1>2. CASE r \in [op : {"modify"}, name : Names,
                  cfg : Configs \union {Enable, Disable, SetPriority(0), ModifySubset("none")}]
  <2>1. /\ r.op = "modify"
        /\ r.cfg \in Configs \union {Enable, Disable, SetPriority(0), ModifySubset("none")}
    BY <1>2
  <2> QED
    BY <2>1, AllConfigurations DEF Managing
<1>3. CASE \/ r \in [op : {"addFromFile"}, name : Names, file : Files, ifNotExists : BOOLEAN]
           \/ r \in [op : {"remove"}, name : Names, force : BOOLEAN]
           \/ r \in [op : {"update"}, name : Names]
  BY <1>3 DEF Managing
<1>4. CASE r \in ReaderRequests
  BY <1>4 DEF ReaderRequests, Listings, Introspection, Reading
<1> QED
  BY <1>1, <1>2, <1>3, <1>4 DEF Requests, ManagerRequests

LEMMA CallSettled ==
  ASSUME Settled, NEW d \in Calls, NEW r \in Requests, Called(d, r)
  PROVE  Settled'
<1>1. Shaped /\ Underway(d) /\ Answered(d)
  BY DEF Settled
<1>2. /\ pc[d] = "idle" /\ pc'[d] = "called" /\ req'[d] = r
      /\ frames' = frames /\ result' = result /\ wrote' = wrote
      /\ Same(pc, pc', d) /\ Same(req, req', d)
  BY <1>1 DEF Called, Shaped, Same
<1>3. Local(d)
  BY <1>1, <1>2 DEF Local, Same, Shaped
<1>4. Asked(d)'
  BY <1>2, RequestIs DEF Asked
<1>5. result[d] = "none" /\ wrote[d] = {}
  BY <1>1, <1>2 DEF Underway
<1>6. Underway(d)' /\ Answered(d)'
  BY <1>2, <1>5 DEF Underway, Answered
<1> QED
  BY <1>3, <1>4, <1>6, Preserved

\* A step on the way to the answer.
LEMMA GoesOn ==
  ASSUME Settled, NEW d \in Calls, NEW place \in {"got", "disabling", "removing"},
         Goto(d, place), Same(wrote, wrote', d),
         pc[d] \in {"called", "disabling"}, req[d].op \in Managing,
         place \in {"got", "disabling"} => wrote'[d] = {},
         place = "removing" => req[d].op = "remove" /\ wrote'[d] \subseteq {"disabled"}
  PROVE  Settled'
<1>1. Shaped /\ Asked(d) /\ Underway(d) /\ Answered(d)
  BY DEF Settled
<1>2. /\ pc'[d] = place /\ frames' = frames /\ req' = req /\ result' = result
      /\ Same(pc, pc', d) /\ Same(req, req', d) /\ Same(frames, frames', d)
      /\ Same(result, result', d)
  BY <1>1, GotoIs
<1>3. Local(d)
  BY <1>2 DEF Local
<1>4. Asked(d)'
  BY <1>1, <1>2 DEF Asked
<1>5. result[d] = "none" /\ req[d].op \notin Reading
  BY <1>1 DEF Underway, Managing, Reading
<1>6. Underway(d)'
  BY <1>2, <1>5 DEF Underway
<1>7. Answered(d)'
  BY <1>2, <1>5 DEF Answered
<1> QED
  BY <1>3, <1>4, <1>6, <1>7, Preserved

LEMMA AddSettled ==
  ASSUME Settled, NEW d \in Calls,
         FileUnusable(d) \/ AddExists(d) \/ Adds(d) \/ Updates(d)
  PROVE  Settled'
<1>1. /\ Shaped /\ pc[d] = "called" /\ req[d].op \in Managing
  BY DEF Settled, FileUnusable, AddExists, Adds, Updates, InCall, Managing
<1>2. wrote[d] = {}
  BY <1>1 DEF Settled, Underway
<1>3. CASE FileUnusable(d)
  <2>1. Post(d, <<Error>>) /\ wrote' = wrote
    BY <1>3 DEF FileUnusable, Unwritten
  <2>2. wrote'[d] = {} /\ Same(wrote, wrote', d)
    BY <1>1, <1>2, <2>1, UnwrittenIs
  <2> QED
    BY <1>1, <2>1, <2>2, Answers
<1>4. CASE AddExists(d)
  <2>1. PICK answer \in {Ok, Error} : Post(d, <<answer>>) /\ wrote' = wrote
    BY <1>4 DEF AddExists, Unwritten
  <2>2. wrote'[d] = {} /\ Same(wrote, wrote', d)
    BY <1>1, <1>2, <2>1, UnwrittenIs
  <2> QED
    BY <1>1, <2>1, <2>2, Answers
<1>5. CASE Adds(d)
  <2>1. PICK changes : Commit(d, NewRemote, changes) /\ Post(d, <<Ok>>)
    BY <1>5 DEF Adds
  <2>2. Same(wrote, wrote', d)
    BY <1>1, <2>1, CommitIs
  <2>3. Ok # Error
    BY DEF Ok, Error
  <2> QED
    BY <1>1, <2>1, <2>2, <2>3, Answers
<1>6. CASE Updates(d)
  <2>1. PICK answer \in {Ok, Error} : Post(d, <<answer>>) /\ wrote' = wrote
    BY <1>6 DEF Updates, Unwritten
  <2>2. wrote'[d] = {} /\ Same(wrote, wrote', d)
    BY <1>1, <1>2, <2>1, UnwrittenIs
  <2> QED
    BY <1>1, <2>1, <2>2, Answers
<1> QED
  BY <1>3, <1>4, <1>5, <1>6

LEMMA ModifySettled ==
  ASSUME Settled, NEW d \in Calls, ModifyGets(d) \/ ModifyCommits(d)
  PROVE  Settled'
<1>1. /\ Shaped /\ pc[d] \in {"called", "got"} /\ req[d].op \in Managing
  BY DEF Settled, ModifyGets, ModifyCommits, InCall, Managing
<1>2. wrote[d] = {}
  BY <1>1 DEF Settled, Underway
<1>3. CASE ModifyGets(d)
  <2>1. wrote' = wrote /\ pc[d] = "called"
    BY <1>3 DEF ModifyGets, Unwritten, InCall
  <2>2. wrote'[d] = {} /\ Same(wrote, wrote', d)
    BY <1>1, <1>2, <2>1, UnwrittenIs
  <2>3. CASE Goto(d, "got")
    BY <1>1, <2>1, <2>2, <2>3, GoesOn
  <2>4. CASE Post(d, <<Error>>)
    BY <1>1, <2>2, <2>4, Answers
  <2> QED
    BY <1>3, <2>3, <2>4 DEF ModifyGets
<1>4. CASE ModifyCommits(d)
  <2>1. CASE Exists(d)
    <3>1. PICK changes : Commit(d, remotes[Name(d)], changes) /\ Post(d, <<Ok>>)
      BY <1>4, <2>1 DEF ModifyCommits
    <3>2. Same(wrote, wrote', d)
      BY <1>1, <3>1, CommitIs
    <3>3. Ok # Error
      BY DEF Ok, Error
    <3> QED
      BY <1>1, <3>1, <3>2, <3>3, Answers
  <2>2. CASE ~Exists(d)
    <3>1. Post(d, <<Error>>) /\ wrote' = wrote
      BY <1>4, <2>2 DEF ModifyCommits, Unwritten
    <3>2. wrote'[d] = {} /\ Same(wrote, wrote', d)
      BY <1>1, <1>2, <3>1, UnwrittenIs
    <3> QED
      BY <1>1, <3>1, <3>2, Answers
  <2> QED
    BY <2>1, <2>2
<1> QED
  BY <1>3, <1>4

LEMMA RemoveSettled ==
  ASSUME Settled, NEW d \in Calls, RemoveGets(d) \/ RemoveDisables(d) \/ RemoveRemoves(d)
  PROVE  Settled'
<1>1. /\ Shaped /\ req[d].op = "remove" /\ req[d].op \in Managing
  BY DEF Settled, RemoveGets, RemoveDisables, RemoveRemoves, InCall, Managing
<1>2. CASE RemoveGets(d)
  <2>1. wrote' = wrote /\ pc[d] = "called"
    BY <1>2 DEF RemoveGets, Unwritten, InCall
  <2>2. wrote[d] = {}
    BY <2>1 DEF Settled, Underway
  <2>3. wrote'[d] = {} /\ Same(wrote, wrote', d)
    BY <1>1, <2>1, <2>2, UnwrittenIs
  <2>4. PICK place \in {"disabling", "removing"} : Goto(d, place)
    BY <1>2 DEF RemoveGets
  <2> QED
    BY <1>1, <2>1, <2>3, <2>4, GoesOn
<1>3. CASE RemoveDisables(d)
  <2>1. Goto(d, "removing") /\ pc[d] = "disabling"
    BY <1>3 DEF RemoveDisables, InCall
  <2>2. wrote[d] = {}
    BY <2>1 DEF Settled, Underway
  <2>3. wrote'[d] \subseteq {"disabled"} /\ Same(wrote, wrote', d)
    <3>1. CASE Commit(d, remotes[Name(d)], Disable)
      <4>1. DOMAIN Disable = {"disabled"}
        BY DEF Disable
      <4> QED
        BY <1>1, <2>2, <3>1, <4>1, CommitIs
    <3>2. CASE Unwritten
      <4>1. wrote' = wrote
        BY <3>2 DEF Unwritten
      <4> QED
        BY <1>1, <2>2, <4>1, UnwrittenIs
    <3> QED
      BY <1>3, <3>1, <3>2 DEF RemoveDisables
  <2> QED
    BY <1>1, <2>1, <2>3, GoesOn
<1>4. CASE RemoveRemoves(d)
  <2>1. pc[d] = "removing" /\ wrote[d] \subseteq {"disabled"}
    BY <1>4 DEF RemoveRemoves, InCall, Settled, Underway
  <2>2. CASE Exists(d)
    <3>1. Post(d, <<Ok>>) /\ wrote' = [wrote EXCEPT ![d] = @ \union {"all"}]
      BY <1>4, <2>2 DEF RemoveRemoves
    <3>2. Same(wrote, wrote', d)
      BY <1>1, <3>1 DEF Same, Shaped
    <3>3. Ok # Error
      BY DEF Ok, Error
    <3> QED
      BY <1>1, <2>1, <3>1, <3>2, <3>3, Answers
  <2>3. CASE ~Exists(d)
    <3>1. Post(d, <<Error>>) /\ wrote' = wrote
      BY <1>4, <2>3 DEF RemoveRemoves, Unwritten
    <3>2. wrote'[d] = wrote[d] /\ Same(wrote, wrote', d)
      BY <1>1, <3>1, UnwrittenIs
    <3>3. wrote'[d] \subseteq Spared(d)
      BY <1>1, <2>1, <3>2 DEF Spared
    <3> QED
      BY <1>1, <2>1, <3>1, <3>2, <3>3, Answers
  <2> QED
    BY <2>2, <2>3
<1> QED
  BY <1>2, <1>3, <1>4

LEMMA FailSettled ==
  ASSUME Settled, NEW d \in Calls, LibraryFails(d)
  PROVE  Settled'
<1>1. Shaped /\ Post(d, <<Error>>) /\ wrote' = wrote
  BY DEF Settled, LibraryFails, Unwritten
<1>2. wrote'[d] = wrote[d] /\ Same(wrote, wrote', d)
  BY <1>1, UnwrittenIs
<1>3. CASE \/ InCall(d, "called", {"add", "addFromFile", "update"})
           \/ InCall(d, "got", {"modify"})
           \/ InCall(d, "removing", {"remove"})
  <2>1. pc[d] \in {"called", "got", "removing"} /\ req[d].op \in Managing
    BY <1>3 DEF InCall, Managing
  <2>2. wrote[d] \subseteq Spared(d)
    BY <1>3 DEF InCall, Settled, Underway, Spared
  <2> QED
    BY <1>1, <1>2, <2>1, <2>2, Answers
<1>4. CASE InCall(d, "called", {"list", "first"})
  <2>1. pc[d] = "called" /\ req[d].op \in Reading
    BY <1>4 DEF InCall, Reading
  <2> QED
    BY <1>1, <2>1, ReadsPost
<1> QED
  BY <1>3, <1>4 DEF LibraryFails

\* Every read posts what it is told, and nothing else happens to the call.
Posts(d) == (\E posted : Post(d, posted)) /\ wrote' = wrote

LEMMA TellPosts ==
  ASSUME NEW d \in Calls, NEW told, NEW passed, TellSome(d, told, passed)
  PROVE  Posts(d)
BY DEF TellSome, Posts

LEMMA RefusePosts ==
  ASSUME NEW d \in Calls, Refuse(d)
  PROVE  Posts(d)
BY DEF Refuse, Posts, Unwritten

LEMMA ReaderPosts ==
  ASSUME NEW d \in Calls, Reader(d)
  PROVE  Posts(d) /\ pc[d] = "called" /\ req[d].op \in Reading
<1>1. CASE Reports(d)
  BY <1>1, TellPosts, RefusePosts DEF Reports, Tell, Reads, InCall, Reading
<1>2. CASE ListsRemotes(d)
  BY <1>2, TellPosts DEF ListsRemotes, Tell, Reads, InCall, Reading
<1>3. CASE ListsApps(d)
  BY <1>3, TellPosts DEF ListsApps, Tell, Reads, InCall, Reading
<1>4. CASE ListsRemoteApps(d)
  BY <1>4, TellPosts, RefusePosts DEF ListsRemoteApps, Reads, InCall, Reading
<1>5. CASE ListsPermissions(d) \/ ListsUpdates(d)
  BY <1>5, TellPosts DEF ListsPermissions, ListsUpdates, Tell, Reads, InCall, Reading
<1>6. CASE FetchesMetadata(d)
  BY <1>6, RefusePosts DEF FetchesMetadata, Posts, Reads, InCall, Reading
<1>7. CASE ListsRunning(d) \/ ListsArches(d) \/ ListsInstallations(d)
  BY <1>7, TellPosts
     DEF ListsRunning, ListsArches, ListsInstallations, Tell, Reads, InCall, Reading
<1>8. CASE TellsText(d)
  BY <1>8, TellPosts DEF TellsText, Tell, InCall, Reading
<1> QED
  BY <1>1, <1>2, <1>3, <1>4, <1>5, <1>6, <1>7, <1>8 DEF Reader

LEMMA DeliverSettled ==
  ASSUME Settled, NEW d \in Calls, Deliver(d)
  PROVE  Settled'
<1>1. /\ Shaped /\ Asked(d) /\ Underway(d) /\ Answered(d) /\ pc[d] = "posted"
  BY DEF Settled, Deliver, DeliverRow, DeliverEnd
<1>2. Ok.tag = "sentinel" /\ Error.tag = "error" /\ Ok # Error
  BY DEF Ok, Error
<1>3. Head(<<Ok>>) = Ok /\ Head(<<Error>>) = Error
  OBVIOUS
<1>4. CASE DeliverRow(d)
  <2>1. /\ pc' = pc /\ req' = req /\ wrote' = wrote
        /\ Same(frames, frames', d) /\ Same(result, result', d)
        /\ result'[d] \in {result[d], "ok"}
    BY <1>1, <1>4 DEF DeliverRow, Same, Shaped
  <2>2. Local(d)
    BY <1>1, <2>1 DEF Local, Same, Shaped
  <2>3. frames[d] # <<Ok>> /\ frames[d] # <<Error>>
    BY <1>2, <1>3, <1>4 DEF DeliverRow
  <2>4. req[d].op \in Reading /\ req[d].op \notin Managing
    BY <1>1, <2>3 DEF Asked, Answered, Managing, Reading
  <2>5. wrote[d] = {}
    BY <1>1, <2>4 DEF Answered
  <2>6. Asked(d)'
    BY <1>1, <2>1 DEF Asked
  <2>7. Underway(d)'
    BY <1>1, <2>1 DEF Underway
  <2>8. Answered(d)'
    BY <2>1, <2>4, <2>5 DEF Answered
  <2> QED
    BY <2>2, <2>6, <2>7, <2>8, Preserved
<1>5. CASE DeliverEnd(d)
  <2>1. /\ pc'[d] = "done" /\ req' = req /\ wrote' = wrote /\ Same(pc, pc', d)
        /\ Same(frames, frames', d) /\ Same(result, result', d)
        /\ result'[d] = "error" => result[d] = "error" \/ Head(frames[d]) = Error
    BY <1>1, <1>5 DEF DeliverEnd, Same, Shaped
  <2>2. Local(d)
    BY <1>1, <2>1 DEF Local, Same, Shaped
  <2>3. Asked(d)'
    BY <1>1, <2>1 DEF Asked
  <2>4. Underway(d)'
    BY <2>1 DEF Underway
  <2>5. result'[d] = "error" => wrote[d] \subseteq Spared(d)
    <3>1. CASE req[d].op \in Reading
      BY <1>1, <3>1 DEF Answered
    <3>2. CASE req[d].op \in Managing
      <4>1. Head(frames[d]) = Error => frames[d] # <<Ok>>
        BY <1>2, <1>3
      <4> QED
        BY <1>1, <2>1, <3>2, <4>1 DEF Answered
    <3> QED
      BY <1>1, <3>1, <3>2 DEF Asked
  <2>6. wrote'[d] = wrote[d] /\ Spared(d)' = Spared(d)
    BY <2>1 DEF Spared
  <2>7. Answered(d)'
    <3>1. pc'[d] # "posted"
      BY <2>1
    <3>2. req[d].op \in Reading => wrote[d] = {}
      BY <1>1 DEF Answered
    <3> QED
      BY <2>1, <2>5, <2>6, <3>1, <3>2 DEF Answered
  <2> QED
    BY <2>2, <2>3, <2>4, <2>7, Preserved
<1> QED
  BY <1>4, <1>5 DEF Deliver

-----------------------------------------------------------------------------
(***************************************************************************)
(* The invariant holds, and what follows from it.                          *)
(***************************************************************************)

LEMMA SettledInit == Init => Settled
<1> SUFFICES ASSUME Init PROVE Settled
  OBVIOUS
<1>1. Shaped
  BY DEF Init, Shaped
<1>2. ASSUME NEW c \in Calls PROVE Asked(c) /\ Underway(c) /\ Answered(c)
  <2>1. pc[c] = "idle" /\ result[c] = "none" /\ wrote[c] = {}
    BY DEF Init
  <2> QED
    BY <2>1 DEF Asked, Underway, Answered
<1> QED
  BY <1>1, <1>2 DEF Settled

LEMMA SettledStep == Settled /\ [Next]_vars => Settled'
<1> SUFFICES ASSUME Settled, [Next]_vars PROVE Settled'
  OBVIOUS
<1>1. CASE UNCHANGED vars
  <2>1. /\ pc' = pc /\ req' = req /\ frames' = frames /\ result' = result
        /\ wrote' = wrote
    BY <1>1 DEF vars
  <2>2. Shaped'
    BY <2>1 DEF Settled, Shaped
  <2>3. ASSUME NEW c \in Calls PROVE Asked(c)' /\ Underway(c)' /\ Answered(c)'
    BY <2>1 DEF Settled, Asked, Underway, Answered, Spared
  <2> QED
    BY <2>2, <2>3 DEF Settled
<1>2. ASSUME NEW d \in Calls, CallManager(d) \/ CallReader(d)
      PROVE  Settled'
  <2>1. PICK r \in Requests : Called(d, r)
    BY <1>2 DEF CallManager, CallReader, Requests
  <2> QED
    BY <2>1, CallSettled
<1>3. ASSUME NEW d \in Calls, Native(d)
      PROVE  Settled'
  <2>1. CASE FileUnusable(d) \/ AddExists(d) \/ Adds(d) \/ Updates(d)
    BY <2>1, AddSettled
  <2>2. CASE ModifyGets(d) \/ ModifyCommits(d)
    BY <2>2, ModifySettled
  <2>3. CASE RemoveGets(d) \/ RemoveDisables(d) \/ RemoveRemoves(d)
    BY <2>3, RemoveSettled
  <2>4. CASE LibraryFails(d)
    BY <2>4, FailSettled
  <2>5. CASE Reader(d)
    BY <2>5, ReaderPosts, ReadsPost DEF Posts
  <2> QED
    BY <1>3, <2>1, <2>2, <2>3, <2>4, <2>5 DEF Native
<1>4. ASSUME NEW d \in Calls, Deliver(d)
      PROVE  Settled'
  BY <1>4, DeliverSettled
<1> QED
  BY <1>1, <1>2, <1>3, <1>4 DEF Next

LEMMA SettledHolds == Safety => []Settled
<1>1. Init => Settled
  BY SettledInit
<1>2. Settled /\ [Next]_vars => Settled'
  BY SettledStep
<1> QED
  BY <1>1, <1>2, PTL DEF Safety

\* A call whose future fails has changed nothing, but for a forced removal,
\* which may leave the remote disabled (flatpak_user_remote_remove()), and one
\* that has removed its remote succeeds: whatever other calls do between the
\* steps of this one.
THEOREM FailedCallsChangeNothing == Safety => []FailureChangesNothing
<1>1. Settled => FailureChangesNothing
  BY DEF Settled, Answered, Spared, FailureChangesNothing
<1> QED
  BY <1>1, SettledHolds, PTL

\* A step writes for the call that takes it.
LEMMA WritesOwn ==
  ASSUME Settled, NEW d \in Calls, CallManager(d) \/ CallReader(d) \/ Native(d) \/ Deliver(d)
  PROVE  Same(wrote, wrote', d)
<1>1. Shaped
  BY DEF Settled
<1>2. CASE wrote' = wrote
  BY <1>1, <1>2, UnwrittenIs
<1>3. CASE Adds(d)
  BY <1>1, <1>3, CommitIs DEF Adds
<1>4. CASE ModifyCommits(d)
  <2>1. Commit(d, remotes[Name(d)], ChangesOf(req[d].cfg)) \/ wrote' = wrote
    BY <1>4 DEF ModifyCommits, Unwritten
  <2> QED
    BY <1>1, <1>2, <2>1, CommitIs
<1>5. CASE RemoveDisables(d)
  <2>1. Commit(d, remotes[Name(d)], Disable) \/ wrote' = wrote
    BY <1>5 DEF RemoveDisables, Unwritten
  <2> QED
    BY <1>1, <1>2, <2>1, CommitIs
<1>6. CASE RemoveRemoves(d)
  <2>1. wrote' = [wrote EXCEPT ![d] = @ \union {"all"}] \/ wrote' = wrote
    BY <1>6 DEF RemoveRemoves, Unwritten
  <2> QED
    BY <1>1, <1>2, <2>1 DEF Same, Shaped
<1>7. CASE CallManager(d) \/ CallReader(d) \/ Deliver(d)
  BY <1>2, <1>7 DEF CallManager, CallReader, Called, Deliver, DeliverRow, DeliverEnd
<1>8. CASE LibraryFails(d) \/ FileUnusable(d) \/ AddExists(d) \/ ModifyGets(d)
           \/ RemoveGets(d) \/ Updates(d)
  BY <1>2, <1>8
     DEF LibraryFails, FileUnusable, AddExists, ModifyGets, RemoveGets, Updates, Unwritten
<1>9. CASE Reader(d)
  BY <1>2, <1>9, ReaderPosts DEF Posts
<1> QED
  BY <1>3, <1>4, <1>5, <1>6, <1>7, <1>8, <1>9 DEF Native

\* Only two steps write to a remote for a call of add() or modify().
LEMMA OnlyTwoWrite ==
  ASSUME Settled, NEW d \in Calls, CallManager(d) \/ CallReader(d) \/ Native(d) \/ Deliver(d),
         wrote' # wrote, req[d].op \in {"add", "modify"}
  PROVE  Adds(d) \/ ModifyCommits(d)
<1>1. ~(CallManager(d) \/ CallReader(d))
  BY DEF CallManager, CallReader, Called
<1>2. ~Deliver(d)
  BY DEF Deliver, DeliverRow, DeliverEnd
<1>3. ~Reader(d)
  BY ReaderPosts DEF Posts
<1>4. ~(LibraryFails(d) \/ FileUnusable(d) \/ AddExists(d) \/ ModifyGets(d) \/ Updates(d))
  BY DEF LibraryFails, FileUnusable, AddExists, ModifyGets, Updates, Unwritten
<1>5. ~(RemoveGets(d) \/ RemoveDisables(d) \/ RemoveRemoves(d))
  BY DEF RemoveGets, RemoveDisables, RemoveRemoves, InCall
<1> QED
  BY <1>1, <1>2, <1>3, <1>4, <1>5 DEF Native

\* What is written over the settings of a remote.
LEMMA Takes ==
  ASSUME NEW d \in Calls, NEW cfg, Configuration(cfg), NEW settings,
         Commit(d, settings, ChangesOf(cfg))
  PROVE  \A f \in Settings :
           remotes'[Name(d)][f] = IF f \in Expressible(cfg) THEN cfg[f] ELSE settings[f]
<1> DEFINE changes == ChangesOf(cfg)
<1>1. changes = [f \in Expressible(cfg) |-> cfg[f]]
  BY ChangesFaithful
<1> HIDE DEF changes
<1>2. remotes'[Name(d)] = Written(settings, changes)
  BY DEF Commit, changes
<1>3. \A f \in Settings : Written(settings, changes)[f] =
        IF f \in DOMAIN changes THEN changes[f] ELSE settings[f]
  BY DEF Written
<1> QED
  BY <1>1, <1>2, <1>3

\* A configuration arrives as it was meant: when add() or modify() writes, the
\* fields of the caller that have a form on the wire have the caller's values
\* and every other setting keeps the value it has at that moment, whatever
\* other calls have written since the remote was looked up
\* (encodeRemoteConfig(), read_binary(), apply_config()).
THEOREM ConfigurationsArrive == Safety => ConfigTakesEffect
<1>1. Settled /\ [Next]_vars =>
        [\A c \in Calls :
           wrote'[c] # wrote[c] /\ req[c].op \in {"add", "modify"}
             => Took(c, Expressible(req[c].cfg))]_vars
  <2> SUFFICES ASSUME Settled, Next,
                      NEW c \in Calls, wrote'[c] # wrote[c], req[c].op \in {"add", "modify"}
               PROVE  Took(c, Expressible(req[c].cfg))
    BY DEF vars
  <2>1. PICK d \in Calls : CallManager(d) \/ CallReader(d) \/ Native(d) \/ Deliver(d)
    BY DEF Next
  <2>2. d = c
    BY <2>1, WritesOwn DEF Same
  <2>3. Adds(c) \/ ModifyCommits(c)
    BY <2>1, <2>2, OnlyTwoWrite
  <2>4. Configuration(req[c].cfg)
    <3>1. pc[c] # "idle"
      BY <2>3 DEF Adds, ModifyCommits, InCall
    <3> QED
      BY <3>1 DEF Settled, Asked
  <2> DEFINE cfg == req[c].cfg
  <2>5. CASE Adds(c)
    <3>1. ~Exists(c) /\ req[c].op = "add"
      BY <2>5 DEF Adds, InCall
    <3>2. Commit(c, NewRemote, ChangesOf(cfg))
      BY <2>5, <3>1 DEF Adds
    <3>3. \A f \in Settings : remotes'[Name(c)][f] =
            IF f \in Expressible(cfg) THEN cfg[f] ELSE NewRemote[f]
      BY <2>4, <3>2, Takes
    <3> QED
      BY <3>1, <3>3 DEF Took
  <2>6. CASE ModifyCommits(c)
    <3>1. Exists(c)
      BY <2>6 DEF ModifyCommits, Unwritten
    <3>2. Commit(c, remotes[Name(c)], ChangesOf(cfg))
      BY <2>6, <3>1 DEF ModifyCommits
    <3>3. \A f \in Settings : remotes'[Name(c)][f] =
            IF f \in Expressible(cfg) THEN cfg[f] ELSE remotes[Name(c)][f]
      BY <2>4, <3>2, Takes
    <3> QED
      BY <3>1, <3>3 DEF Took
  <2> QED
    BY <2>3, <2>5, <2>6
<1> QED
  BY <1>1, SettledHolds, PTL DEF ConfigTakesEffect, Safety

-----------------------------------------------------------------------------
(***************************************************************************)
(* The rows at some places, in order.                                      *)
(***************************************************************************)

\* How many of the places come up to this one.
Rank(places, i) == Cardinality({j \in places : j <= i})

LEMMA Ranked ==
  ASSUME NEW n \in Nat, NEW places \in SUBSET (1..n)
  PROVE  /\ Cardinality(places) \in Nat
         /\ \A i \in places : Rank(places, i) \in 1..Cardinality(places)
         /\ \A i, j \in places : Rank(places, i) = Rank(places, j) => i = j
<1> DEFINE upTo(i) == {j \in places : j <= i}
<1>1. IsFiniteSet(1..n)
  BY FS_Interval
<1>2. IsFiniteSet(places)
  BY <1>1, FS_Subset
<1>3. Cardinality(places) \in Nat
  BY <1>2, FS_CardinalityType
<1>4. \A i \in places : IsFiniteSet(upTo(i)) /\ Cardinality(upTo(i)) <= Cardinality(places)
  <2> SUFFICES ASSUME NEW i \in places
               PROVE  IsFiniteSet(upTo(i)) /\ Cardinality(upTo(i)) <= Cardinality(places)
    OBVIOUS
  <2>1. upTo(i) \in SUBSET places
    OBVIOUS
  <2> QED
    BY <1>2, <2>1, FS_Subset
<1>5. \A i \in places : Cardinality(upTo(i)) \in Nat /\ Cardinality(upTo(i)) # 0
  <2> SUFFICES ASSUME NEW i \in places
               PROVE  Cardinality(upTo(i)) \in Nat /\ Cardinality(upTo(i)) # 0
    OBVIOUS
  <2>1. i \in upTo(i)
    OBVIOUS
  <2>2. IsFiniteSet(upTo(i))
    BY <1>4
  <2> HIDE DEF upTo
  <2> QED
    BY <2>1, <2>2, FS_CardinalityType, FS_EmptySet
<1>6. \A i \in places : Rank(places, i) \in 1..Cardinality(places)
  <2> SUFFICES ASSUME NEW i \in places
               PROVE  Rank(places, i) \in 1..Cardinality(places)
    OBVIOUS
  <2>1. Rank(places, i) = Cardinality(upTo(i))
    BY DEF Rank
  <2> HIDE DEF upTo
  <2> QED
    BY <1>3, <1>4, <1>5, <2>1
<1>7. \A i, j \in places : Rank(places, i) = Rank(places, j) => ~(i < j)
  <2> SUFFICES ASSUME NEW i \in places, NEW j \in places, i < j,
                      Rank(places, i) = Rank(places, j)
               PROVE  FALSE
    OBVIOUS
  <2>0. i \in Int /\ j \in Int /\ \A k \in places : k \in Int
    OBVIOUS
  <2>1. upTo(i) \in SUBSET upTo(j) /\ j \in upTo(j) /\ j \notin upTo(i)
    <3>1. \A k \in upTo(i) : k \in places /\ k <= j
      BY <2>0
    <3>2. upTo(i) \subseteq upTo(j)
      BY <3>1
    <3> QED
      BY <2>0, <3>2
  <2>2. IsFiniteSet(upTo(j)) /\ Cardinality(upTo(i)) = Cardinality(upTo(j))
    BY <1>4 DEF Rank
  <2> HIDE DEF upTo
  <2>3. upTo(j) = upTo(i)
    BY <2>1, <2>2, FS_Subset
  <2> QED
    BY <2>1, <2>3
<1>8. \A i, j \in places : i < j \/ j < i \/ i = j
  OBVIOUS
<1> QED
  BY <1>3, <1>6, <1>7, <1>8

\* Of all the places each is its own rank.
LEMMA RankOfAll ==
  ASSUME NEW n \in Nat, NEW i \in 1..n
  PROVE  Rank(1..n, i) = i /\ Cardinality(1..n) = n
<1>1. {j \in 1..n : j <= i} = 1..i
  OBVIOUS
<1>2. Cardinality(1..i) = i /\ Cardinality(1..n) = n
  BY FS_Interval
<1> QED
  BY <1>1, <1>2 DEF Rank

\* Every row asked for is there, at its rank.
LEMMA FilteredAt ==
  ASSUME NEW n \in Nat, NEW places \in SUBSET (1..n), NEW told
  PROVE  /\ DOMAIN Filtered(told, places) = 1..Cardinality(places)
         /\ \A i \in places : Filtered(told, places)[Rank(places, i)] = told[i]
<1> DEFINE At(k) == CHOOSE i \in places : Rank(places, i) = k
<1>1. Filtered(told, places) = [k \in 1..Cardinality(places) |-> told[At(k)]]
  BY DEF Filtered, Rank
<1>2. ASSUME NEW i \in places
      PROVE  Filtered(told, places)[Rank(places, i)] = told[i]
  <2>1. Rank(places, i) \in 1..Cardinality(places)
    BY Ranked
  <2>2. At(Rank(places, i)) \in places /\ Rank(places, At(Rank(places, i))) = Rank(places, i)
    OBVIOUS
  <2>3. At(Rank(places, i)) = i
    BY <2>2, Ranked
  <2> HIDE DEF At
  <2> QED
    BY <1>1, <2>1, <2>3
<1> HIDE DEF At
<1> QED
  BY <1>1, <1>2

\* Nothing is filtered where every row is asked for.
LEMMA FilteredAll ==
  ASSUME NEW S, NEW told \in Seq(S)
  PROVE  Filtered(told, DOMAIN told) = told
<1> DEFINE n == Len(told)
<1>1. n \in Nat
  OBVIOUS
<1>2. DOMAIN told = 1..n /\ told = [k \in 1..n |-> told[k]]
  OBVIOUS
<1> HIDE DEF n
<1>3. Cardinality(1..n) = n
  BY <1>1, FS_Interval
<1>4. 1..n \in SUBSET (1..n)
  OBVIOUS
<1>5. /\ DOMAIN Filtered(told, 1..n) = 1..n
      /\ \A i \in 1..n : Filtered(told, 1..n)[Rank(1..n, i)] = told[i]
  BY <1>1, <1>3, <1>4, FilteredAt
<1>6. \A i \in 1..n : Rank(1..n, i) = i
  BY <1>1, RankOfAll
<1>7. \A i \in 1..n : Filtered(told, 1..n)[i] = told[i]
  BY <1>5, <1>6
<1>8. Filtered(told, 1..n) = [k \in 1..n |-> Filtered(told, 1..n)[k]]
  BY <1>5 DEF Filtered
<1> QED
  BY <1>2, <1>7, <1>8

-----------------------------------------------------------------------------
(***************************************************************************)
(* Every table is read by the layout it was written by.                    *)
(***************************************************************************)

LEMMA IsJoin ==
  ASSUME NEW S, NEW s \in Seq(S), NEW t \in Seq(S), NEW u \in Seq(S),
         Len(u) = Len(s) + Len(t),
         \A i \in 1..Len(s) : u[i] = s[i],
         \A i \in 1..Len(t) : u[Len(s) + i] = t[i]
  PROVE  s \o t = u
<1> DEFINE v == s \o t
<1>1. /\ v \in Seq(S) /\ Len(v) = Len(s) + Len(t)
      /\ \A i \in 1..(Len(s) + Len(t)) : v[i] = IF i <= Len(s) THEN s[i] ELSE t[i - Len(s)]
  BY Joined
<1> HIDE DEF v
<1>2. Len(s) \in Nat /\ Len(t) \in Nat
  OBVIOUS
<1>3. ASSUME NEW i \in 1..(Len(s) + Len(t)) PROVE v[i] = u[i]
  <2>1. CASE i <= Len(s)
    BY <1>1, <1>2, <2>1
  <2>2. CASE ~(i <= Len(s))
    <3>1. i - Len(s) \in 1..Len(t) /\ Len(s) + (i - Len(s)) = i
      BY <1>2, <2>2
    <3>2. u[i] = t[i - Len(s)]
      BY <3>1
    <3> QED
      BY <1>1, <2>2, <3>2
  <2> QED
    BY <2>1, <2>2
<1>4. v = u
  BY <1>1, <1>3, SeqEqual
<1> QED
  BY <1>4 DEF v

LEMMA OneAndTwo ==
  ASSUME NEW S, NEW a \in S, NEW b \in S, NEW c \in S
  PROVE  <<a>> \o <<b, c>> = <<a, b, c>>
<1> DEFINE s == <<a>>
           t == <<b, c>>
           u == <<a, b, c>>
<1>1. s \in Seq(S) /\ t \in Seq(S) /\ u \in Seq(S)
  OBVIOUS
<1>2. Len(s) = 1 /\ Len(t) = 2 /\ Len(u) = 3
  OBVIOUS
<1>3. u[1] = s[1] /\ u[2] = t[1] /\ u[3] = t[2]
  OBVIOUS
<1> HIDE DEF s, t, u
<1>4. Len(u) = Len(s) + Len(t)
  BY <1>2
<1>5. \A i \in 1..Len(s) : u[i] = s[i]
  <2>1. \A i \in 1..1 : i = 1
    OBVIOUS
  <2> QED
    BY <1>2, <1>3, <2>1
<1>6. \A i \in 1..Len(t) : u[Len(s) + i] = t[i]
  <2>1. \A i \in 1..2 : i = 1 \/ i = 2
    OBVIOUS
  <2> QED
    BY <1>2, <1>3, <2>1
<1>7. s \o t = u
  BY <1>1, <1>4, <1>5, <1>6, IsJoin
<1> QED
  BY <1>7 DEF s, t, u

LEMMA TwoAndOne ==
  ASSUME NEW S, NEW a \in S, NEW b \in S, NEW c \in S
  PROVE  <<a, b>> \o <<c>> = <<a, b, c>>
<1> DEFINE s == <<a, b>>
           t == <<c>>
           u == <<a, b, c>>
<1>1. s \in Seq(S) /\ t \in Seq(S) /\ u \in Seq(S)
  OBVIOUS
<1>2. Len(s) = 2 /\ Len(t) = 1 /\ Len(u) = 3
  OBVIOUS
<1>3. u[1] = s[1] /\ u[2] = s[2] /\ u[3] = t[1]
  OBVIOUS
<1> HIDE DEF s, t, u
<1>4. Len(u) = Len(s) + Len(t)
  BY <1>2
<1>5. \A i \in 1..Len(s) : u[i] = s[i]
  <2>1. \A i \in 1..2 : i = 1 \/ i = 2
    OBVIOUS
  <2> QED
    BY <1>2, <1>3, <2>1
<1>6. \A i \in 1..Len(t) : u[Len(s) + i] = t[i]
  <2>1. \A i \in 1..1 : i = 1
    OBVIOUS
  <2> QED
    BY <1>2, <1>3, <2>1
<1>7. s \o t = u
  BY <1>1, <1>4, <1>5, <1>6, IsJoin
<1> QED
  BY <1>7 DEF s, t, u

LEMMA OneAndThree ==
  ASSUME NEW S, NEW a \in S, NEW b \in S, NEW c \in S, NEW d \in S
  PROVE  <<a>> \o <<b, c, d>> = <<a, b, c, d>>
<1> DEFINE s == <<a>>
           t == <<b, c, d>>
           u == <<a, b, c, d>>
<1>1. s \in Seq(S) /\ t \in Seq(S) /\ u \in Seq(S)
  OBVIOUS
<1>2. Len(s) = 1 /\ Len(t) = 3 /\ Len(u) = 4
  OBVIOUS
<1>3. u[1] = s[1] /\ u[2] = t[1] /\ u[3] = t[2] /\ u[4] = t[3]
  OBVIOUS
<1> HIDE DEF s, t, u
<1>4. Len(u) = Len(s) + Len(t)
  BY <1>2
<1>5. \A i \in 1..Len(s) : u[i] = s[i]
  <2>1. \A i \in 1..1 : i = 1
    OBVIOUS
  <2> QED
    BY <1>2, <1>3, <2>1
<1>6. \A i \in 1..Len(t) : u[Len(s) + i] = t[i]
  <2>1. \A i \in 1..3 : i = 1 \/ i = 2 \/ i = 3
    OBVIOUS
  <2> QED
    BY <1>2, <1>3, <2>1
<1>7. s \o t = u
  BY <1>1, <1>4, <1>5, <1>6, IsJoin
<1> QED
  BY <1>7 DEF s, t, u

LEMMA FourAndOne ==
  ASSUME NEW S, NEW a \in S, NEW b \in S, NEW c \in S, NEW d \in S, NEW e \in S
  PROVE  <<a, b, c, d>> \o <<e>> = <<a, b, c, d, e>>
<1> DEFINE s == <<a, b, c, d>>
           t == <<e>>
           u == <<a, b, c, d, e>>
<1>1. s \in Seq(S) /\ t \in Seq(S) /\ u \in Seq(S)
  OBVIOUS
<1>2. Len(s) = 4 /\ Len(t) = 1 /\ Len(u) = 5
  OBVIOUS
<1>3. u[1] = s[1] /\ u[2] = s[2] /\ u[3] = s[3] /\ u[4] = s[4] /\ u[5] = t[1]
  OBVIOUS
<1> HIDE DEF s, t, u
<1>4. Len(u) = Len(s) + Len(t)
  BY <1>2
<1>5. \A i \in 1..Len(s) : u[i] = s[i]
  <2>1. \A i \in 1..4 : i = 1 \/ i = 2 \/ i = 3 \/ i = 4
    OBVIOUS
  <2> QED
    BY <1>2, <1>3, <2>1
<1>6. \A i \in 1..Len(t) : u[Len(s) + i] = t[i]
  <2>1. \A i \in 1..1 : i = 1
    OBVIOUS
  <2> QED
    BY <1>2, <1>3, <2>1
<1>7. s \o t = u
  BY <1>1, <1>4, <1>5, <1>6, IsJoin
<1> QED
  BY <1>7 DEF s, t, u

FieldNames ==
  {"kind", "name", "arch", "branch", "commit", "collectionId", "origin", "latestCommit",
   "installedPath", "installedSize", "isCurrentArch", "endOfLife", "endOfLifeRebase",
   "appDataName", "appDataSummary", "appDataVersion", "appDataIcon", "url", "title", "comment",
   "description", "homepage", "defaultBranch", "subset", "filter", "remoteType", "disabled",
   "gpgVerify", "noDeps", "priority", "appId", "instanceId", "runtime", "pid", "childPid",
   "isRunning"}

FieldTypes == {<<f, ty>> : f \in FieldNames, ty \in {"string", "u64", "i32", "bool"}}

LEMMA StringsTyped ==
  ASSUME NEW names \in Seq(FieldNames)
  PROVE  Strings(names) \in Seq(FieldTypes)
<1>1. Strings(names) = [i \in 1..Len(names) |-> <<names[i], "string">>]
  BY DEF Strings, Fields
<1>2. Len(names) \in Nat /\ \A i \in 1..Len(names) : names[i] \in FieldNames
  OBVIOUS
<1>3. \A i \in 1..Len(names) : <<names[i], "string">> \in FieldTypes
  BY <1>2 DEF FieldTypes
<1>4. Strings(names) \in [1..Len(names) -> FieldTypes]
  BY <1>1, <1>3
<1> QED
  BY <1>2, <1>4

LEMMA AppsReadBack == DecodedInstalledApp = InstalledApp
<1> DEFINE kind == <<"kind", "name", "arch", "branch", "commit", "collectionId">>
           where == <<"origin", "latestCommit", "installedPath">>
           texts == <<"endOfLifeRebase", "appDataName", "appDataSummary", "appDataVersion",
                      "appDataIcon">>
           size == <<"installedSize", "u64">>
           current == <<"isCurrentArch", "bool">>
           eol == <<"endOfLife", "bool">>
           front == Strings(kind) \o Strings(where)
<1>1. kind \in Seq(FieldNames) /\ where \in Seq(FieldNames) /\ texts \in Seq(FieldNames)
  BY DEF FieldNames
<1>2. size \in FieldTypes /\ current \in FieldTypes /\ eol \in FieldTypes
  BY DEF FieldTypes, FieldNames
<1>3. Fields("bool", <<"isCurrentArch", "endOfLife">>) = <<current, eol>>
  BY DEF Fields
<1>4. /\ InstalledApp = ((front \o <<size>>) \o <<current, eol>>) \o Strings(texts)
      /\ DecodedInstalledApp = (front \o <<size, current, eol>>) \o Strings(texts)
  BY <1>3 DEF InstalledApp, DecodedInstalledApp, FpRef, DecodedRef
<1> HIDE DEF kind, where, texts, size, current, eol
<1>5. Strings(kind) \in Seq(FieldTypes) /\ Strings(where) \in Seq(FieldTypes)
  BY <1>1, StringsTyped
<1>6. front \in Seq(FieldTypes)
  BY <1>5
<1> HIDE DEF front
<1>7. <<size>> \o <<current, eol>> = <<size, current, eol>>
  BY <1>2, OneAndTwo
<1>8. <<size>> \in Seq(FieldTypes) /\ <<current, eol>> \in Seq(FieldTypes)
  BY <1>2
<1>9. (front \o <<size>>) \o <<current, eol>> = front \o <<size, current, eol>>
  BY <1>6, <1>7, <1>8, ConcatAssociative
<1> QED
  BY <1>4, <1>9

LEMMA RemotesReadBack == DecodedRemote = FlatpakRemoteInfo
<1> DEFINE texts == <<"name", "url", "title", "comment", "description", "homepage",
                      "defaultBranch", "subset", "collectionId", "filter">>
           front == Strings(texts)
           kind == <<"remoteType", "i32">>
           disabled == <<"disabled", "bool">>
           verify == <<"gpgVerify", "bool">>
           noDeps == <<"noDeps", "bool">>
           priority == <<"priority", "i32">>
<1>1. texts \in Seq(FieldNames)
  BY DEF FieldNames
<1>2. /\ kind \in FieldTypes /\ disabled \in FieldTypes /\ verify \in FieldTypes
      /\ noDeps \in FieldTypes /\ priority \in FieldTypes
  BY DEF FieldTypes, FieldNames
<1>3. Fields("bool", <<"disabled", "gpgVerify", "noDeps">>) = <<disabled, verify, noDeps>>
  BY DEF Fields
<1>4. /\ FlatpakRemoteInfo = ((front \o <<kind>>) \o <<disabled, verify, noDeps>>) \o <<priority>>
      /\ DecodedRemote = front \o <<kind, disabled, verify, noDeps, priority>>
  BY <1>3 DEF FlatpakRemoteInfo, DecodedRemote
<1>5. front \in Seq(FieldTypes)
  BY <1>1, StringsTyped
<1> HIDE DEF front, kind, disabled, verify, noDeps, priority
<1> DEFINE one == <<kind>>
           flags == <<disabled, verify, noDeps>>
           numbers == <<kind, disabled, verify, noDeps>>
           last == <<priority>>
           all == <<kind, disabled, verify, noDeps, priority>>
<1>6. /\ one \in Seq(FieldTypes) /\ flags \in Seq(FieldTypes)
      /\ numbers \in Seq(FieldTypes) /\ last \in Seq(FieldTypes)
  BY <1>2
<1>7. one \o flags = numbers
  BY <1>2, OneAndThree
<1>8. numbers \o last = all
  BY <1>2, FourAndOne
<1>9. /\ FlatpakRemoteInfo = ((front \o one) \o flags) \o last
      /\ DecodedRemote = front \o all
  BY <1>4
<1> HIDE DEF one, flags, numbers, last, all
<1>10. (front \o one) \o flags = front \o numbers
  <2>1. (front \o one) \o flags = front \o (one \o flags)
    BY <1>5, <1>6, ConcatAssociative
  <2> QED
    BY <1>7, <2>1
<1>11. (front \o numbers) \o last = front \o all
  <2>1. (front \o numbers) \o last = front \o (numbers \o last)
    BY <1>5, <1>6, ConcatAssociative, SMTT(30)
  <2> QED
    BY <1>8, <2>1
<1> QED
  BY <1>9, <1>10, <1>11

LEMMA RunningReadBack == DecodedInstance = FpInstance
<1> DEFINE texts == <<"appId", "instanceId", "arch", "branch", "commit", "runtime">>
           front == Strings(texts)
           pid == <<"pid", "i32">>
           child == <<"childPid", "i32">>
           running == <<"isRunning", "bool">>
<1>1. texts \in Seq(FieldNames)
  BY DEF FieldNames
<1>2. pid \in FieldTypes /\ child \in FieldTypes /\ running \in FieldTypes
  BY DEF FieldTypes, FieldNames
<1>3. Fields("i32", <<"pid", "childPid">>) = <<pid, child>>
  BY DEF Fields
<1>4. /\ FpInstance = front \o <<pid, child, running>>
      /\ DecodedInstance = (front \o <<pid, child>>) \o <<running>>
  BY <1>3 DEF FpInstance, DecodedInstance
<1>5. front \in Seq(FieldTypes)
  BY <1>1, StringsTyped
<1> HIDE DEF front, pid, child, running
<1>6. <<pid, child>> \o <<running>> = <<pid, child, running>>
  BY <1>2, TwoAndOne
<1>7. <<pid, child>> \in Seq(FieldTypes) /\ <<running>> \in Seq(FieldTypes)
  BY <1>2
<1>8. (front \o <<pid, child>>) \o <<running>> = front \o <<pid, child, running>>
  BY <1>5, <1>6, <1>7, ConcatAssociative
<1> QED
  BY <1>4, <1>8

Tables ==
  {"remotes", "apps", "remoteApps", "updates", "permissions", "metadata", "running",
   "installations", "arches", "version", "defaultArch"}

LEMMA SameLayouts ==
  /\ DOMAIN Layouts = Tables
  /\ \A table \in Tables : Decoders[table] = Layouts[table]
  /\ Layouts["metadata"] = FpMetadataEntry
<1>1. DOMAIN Layouts = Tables
  BY DEF Layouts, Tables
<1>2. /\ Decoders["remotes"] = Layouts["remotes"] /\ Decoders["apps"] = Layouts["apps"]
      /\ Decoders["running"] = Layouts["running"]
  BY RemotesReadBack, AppsReadBack, RunningReadBack DEF Decoders, Layouts
<1>3. /\ Decoders["remoteApps"] = Layouts["remoteApps"]
      /\ Decoders["updates"] = Layouts["updates"]
  BY DEF Decoders, Layouts, FpRef, DecodedRef
<1>4. /\ Decoders["permissions"] = Layouts["permissions"]
      /\ Decoders["metadata"] = Layouts["metadata"]
      /\ Layouts["metadata"] = FpMetadataEntry
  BY DEF Decoders, Layouts, FpMetadataEntry, DecodedMetadataEntry, DecodedRemoteMetadata
<1>5. Decoders["installations"] = Layouts["installations"]
  BY DEF Decoders, Layouts, FpInstallationInfo, DecodedInstallationInfo
<1>6. /\ Decoders["arches"] = Layouts["arches"] /\ Decoders["version"] = Layouts["version"]
      /\ Decoders["defaultArch"] = Layouts["defaultArch"]
  BY DEF Decoders, Layouts, Text, DecodedText
<1> QED
  BY <1>1, <1>2, <1>3, <1>4, <1>5, <1>6 DEF Tables

-----------------------------------------------------------------------------
(***************************************************************************)
(* The frames of a read that are still to be handled, and the rows it has. *)
(***************************************************************************)

Prefix(f, k) == [i \in 1..k |-> f[i]]
Suffix(f, n, k) == [i \in 1..(n - k) |-> f[k + i]]

LEMMA PrefixStep ==
  ASSUME NEW f, NEW k \in Nat
  PROVE  Prefix(f, 0) = <<>> /\ Prefix(f, k) \o <<f[k + 1]>> = Prefix(f, k + 1)
<1> DEFINE S == {f[i] : i \in 1..(k + 1)}
           s == Prefix(f, k)
           t == <<f[k + 1]>>
           u == Prefix(f, k + 1)
<1>1. /\ \A i \in 1..k : i \in 1..(k + 1)
      /\ k + 1 \in 1..(k + 1) /\ k + 1 \in Nat
  OBVIOUS
<1>2. s \in [1..k -> S] /\ u \in [1..(k + 1) -> S]
  BY <1>1 DEF Prefix
<1>3. t \in Seq(S)
  BY <1>1
<1>4. Len(t) = 1 /\ t[1] = f[k + 1]
  OBVIOUS
<1>5. /\ \A i \in 1..k : s[i] = u[i]
      /\ u[k + 1] = f[k + 1]
  BY <1>1 DEF Prefix
<1> HIDE DEF S, s, t, u
<1>6. s \in Seq(S) /\ Len(s) = k /\ u \in Seq(S) /\ Len(u) = k + 1
  BY <1>1, <1>2
<1>7. Len(u) = Len(s) + Len(t) /\ \A i \in 1..Len(s) : u[i] = s[i]
  BY <1>4, <1>5, <1>6
<1>8. \A i \in 1..Len(t) : u[Len(s) + i] = t[i]
  <2>1. \A i \in 1..1 : i = 1
    OBVIOUS
  <2> QED
    BY <1>4, <1>5, <1>6, <2>1
<1>9. s \o t = u
  BY <1>3, <1>6, <1>7, <1>8, IsJoin
<1>10. Prefix(f, 0) = <<>>
  <2>1. 1..0 = {}
    OBVIOUS
  <2> QED
    BY <2>1 DEF Prefix
<1> QED
  BY <1>9, <1>10 DEF s, t, u

LEMMA SuffixStep ==
  ASSUME NEW f, NEW n \in Nat, NEW k \in Nat, k < n
  PROVE  /\ Suffix(f, n, k) # <<>> /\ Head(Suffix(f, n, k)) = f[k + 1]
         /\ Tail(Suffix(f, n, k)) = Suffix(f, n, k + 1)
<1> DEFINE S == {f[k + i] : i \in 1..(n - k)}
           s == Suffix(f, n, k)
<1>1. n - k \in Nat /\ n - k >= 1 /\ (n - k) - 1 = n - (k + 1)
  OBVIOUS
<1>2. s \in [1..(n - k) -> S] /\ \A i \in 1..(n - k) : s[i] = f[k + i]
  BY DEF Suffix
<1> HIDE DEF S, s
<1>3. s \in Seq(S) /\ Len(s) = n - k
  BY <1>1, <1>2
<1>4. s # <<>>
  BY <1>1, <1>3
<1>5. Head(s) = f[k + 1]
  <2>1. Head(s) = s[1]
    BY <1>3, <1>4
  <2> QED
    BY <1>1, <1>2, <2>1
<1>6. Tail(s) = [i \in 1..(n - (k + 1)) |-> s[i + 1]]
  <2>1. /\ Tail(s) \in Seq(S) /\ Len(Tail(s)) = Len(s) - 1
        /\ \A i \in 1..Len(Tail(s)) : Tail(s)[i] = s[i + 1]
    BY <1>3, <1>4, HeadTailProperties
  <2>2. Len(Tail(s)) = n - (k + 1)
    BY <1>1, <1>3, <2>1
  <2> DEFINE rest == Tail(s)
  <2> HIDE DEF rest
  <2>3. rest = [i \in 1..Len(rest) |-> rest[i]]
    <3>1. rest \in Seq(S)
      BY <2>1 DEF rest
    <3> QED
      BY <3>1
  <2>4. /\ Len(rest) = n - (k + 1)
        /\ \A i \in 1..(n - (k + 1)) : rest[i] = s[i + 1]
    BY <2>1, <2>2 DEF rest
  <2>5. rest = [i \in 1..(n - (k + 1)) |-> s[i + 1]]
    BY <2>3, <2>4
  <2> QED
    BY <2>5 DEF rest
<1>7. \A i \in 1..(n - (k + 1)) : s[i + 1] = f[(k + 1) + i]
  <2> SUFFICES ASSUME NEW i \in 1..(n - (k + 1))
               PROVE  s[i + 1] = f[(k + 1) + i]
    OBVIOUS
  <2>1. i + 1 \in 1..(n - k) /\ k + (i + 1) = (k + 1) + i
    OBVIOUS
  <2> QED
    BY <1>2, <2>1
<1>8. Tail(s) = Suffix(f, n, k + 1)
  BY <1>6, <1>7 DEF Suffix
<1> QED
  BY <1>4, <1>5, <1>8 DEF s

\* The frames of a read: its rows, and the sentinel.
LEMMA RowFramesAre ==
  ASSUME NEW table, NEW n \in Nat, NEW passed, DOMAIN passed = 1..n
  PROVE  /\ \A i \in 1..n : RowFrames(table, passed)[i] = Row(Layouts[table], passed[i])
         /\ RowFrames(table, passed)[n + 1] = Ok
         /\ Suffix(RowFrames(table, passed), n + 1, 0) = RowFrames(table, passed)
<1> DEFINE S == {Row(Layouts[table], passed[i]) : i \in 1..n} \union {Ok}
           s == [i \in DOMAIN passed |-> Row(Layouts[table], passed[i])]
           t == <<Ok>>
           u == RowFrames(table, passed)
<1>1. s \in [1..n -> S] /\ t \in Seq(S) /\ Len(t) = 1 /\ t[1] = Ok
  OBVIOUS
<1>2. \A i \in 1..n : s[i] = Row(Layouts[table], passed[i])
  OBVIOUS
<1>3. u = s \o t
  BY DEF RowFrames
<1> HIDE DEF S, s, t, u
<1>4. s \in Seq(S) /\ Len(s) = n
  BY <1>1
<1>5. /\ u \in Seq(S) /\ Len(u) = n + 1
      /\ \A i \in 1..(n + 1) : u[i] = IF i <= n THEN s[i] ELSE t[i - n]
  <2>1. /\ s \o t \in Seq(S) /\ Len(s \o t) = Len(s) + Len(t)
        /\ \A i \in 1..(Len(s) + Len(t)) :
             (s \o t)[i] = IF i <= Len(s) THEN s[i] ELSE t[i - Len(s)]
    BY <1>1, <1>4, Joined, Zenon
  <2> QED
    BY <1>1, <1>3, <1>4, <2>1, Zenon
<1>6. \A i \in 1..n : u[i] = Row(Layouts[table], passed[i])
  BY <1>2, <1>5
<1>7. u[n + 1] = Ok
  <2>1. n + 1 \in 1..(n + 1) /\ ~(n + 1 <= n) /\ (n + 1) - n = 1
    OBVIOUS
  <2> QED
    BY <1>1, <1>5, <2>1
<1>8. Suffix(u, n + 1, 0) = u
  <2>1. u = [i \in 1..(n + 1) |-> u[i]]
    BY <1>5
  <2>2. (n + 1) - 0 = n + 1 /\ \A i \in 1..(n + 1) : 0 + i = i
    OBVIOUS
  <2> QED
    BY <2>1, <2>2 DEF Suffix
<1> QED
  BY <1>6, <1>7, <1>8 DEF u

-----------------------------------------------------------------------------
(***************************************************************************)
(* What the isolate makes of a frame.                                      *)
(***************************************************************************)

\* The fields of a row, as they are told.
Fielded(layout, row) == [f \in NamesIn(layout) |-> row[f]]

LEMMA DecodedRow ==
  ASSUME NEW c \in Calls, req[c].table \in Tables \ {"metadata"}, NEW row
  PROVE  Decoded(c, Row(Layouts[req[c].table], row).payload)
           = <<Fielded(Layouts[req[c].table], row)>>
<1> DEFINE layout == Layouts[req[c].table]
<1>1. Decoders[req[c].table] = layout /\ req[c].table # "metadata"
  BY SameLayouts
<1>2. Row(layout, row).payload = Write(layout, row)
  BY DEF Row
<1>3. Read(layout, Write(layout, row)) = Fielded(layout, row)
  BY ReadBack DEF Fielded
<1>4. Decoded(c, Write(layout, row)) = <<BinaryRead(Decoders[req[c].table], Write(layout, row))>>
  BY <1>1 DEF Decoded
<1>5. Decoded(c, Write(layout, row)) = <<Fielded(layout, row)>>
  BY <1>1, <1>3, <1>4 DEF BinaryRead
<1> QED
  BY <1>2, <1>5

\* A vector of entries is read as it was written.
LEMMA VectorReadBack ==
  ASSUME NEW S, NEW s \in Seq(S)
  PROVE  BinaryReadVector(FpMetadataEntry, WriteVector(FpMetadataEntry, s))
           = [i \in 1..Len(s) |-> Fielded(FpMetadataEntry, s[i])]
<1> DEFINE layout == FpMetadataEntry
           n == Len(s)
           At(i) == Write(layout, s[(i - 1) \div 3 + 1])[((i - 1) % 3) + 1]
           head == <<<<"u64", n>>>>
           flat == [i \in 1..(n * 3) |-> At(i)]
           T == {<<"u64", n>>} \union {At(i) : i \in 1..(n * 3)}
           w == WriteVector(layout, s)
<1>1. n \in Nat /\ n * 3 \in Nat
  OBVIOUS
<1>2. Len(layout) = 3 /\ DOMAIN layout = 1..3
  BY DEF FpMetadataEntry, Strings, Fields
<1>3. w = head \o flat
  BY <1>2 DEF WriteVector
<1>4. /\ head \in Seq(T) /\ Len(head) = 1 /\ head[1] = <<"u64", n>>
      /\ flat \in [1..(n * 3) -> T]
  OBVIOUS
<1>5. \A i \in 1..(n * 3) : flat[i] = At(i)
  OBVIOUS
<1> HIDE DEF layout, n, head, flat, T, w
<1>6. flat \in Seq(T) /\ Len(flat) = n * 3
  BY <1>1, <1>4
<1>7. /\ w \in Seq(T) /\ Len(w) = 1 + n * 3
      /\ \A i \in 1..(1 + n * 3) : w[i] = IF i <= 1 THEN head[i] ELSE flat[i - 1]
  <2>1. /\ head \o flat \in Seq(T) /\ Len(head \o flat) = Len(head) + Len(flat)
        /\ \A i \in 1..(Len(head) + Len(flat)) :
             (head \o flat)[i] = IF i <= Len(head) THEN head[i] ELSE flat[i - Len(head)]
    BY <1>4, <1>6, Joined
  <2>2. Len(head) = 1 /\ Len(flat) = n * 3
    BY <1>4, <1>6
  <2> QED
    BY <1>3, <2>1, <2>2
<1>8. w[1][2] = n
  BY <1>1, <1>4, <1>7
<1>9. ASSUME NEW i \in 1..n
      PROVE  SubSeq(w, 2 + (i - 1) * Len(layout), 1 + i * Len(layout)) = Write(layout, s[i])
  <2> DEFINE a == 2 + (i - 1) * 3
             b == 1 + i * 3
             sub == SubSeq(w, a, b)
  <2>1. i \in Int /\ 1 <= i /\ i <= n
    BY <1>1
  <2>2. a \in 1..(Len(w) + 1) /\ b \in (a - 1)..Len(w) /\ (b - a) + 1 = 3
    BY <1>1, <1>7, <2>1
  <2>3. sub = [j \in 1..3 |-> w[a + j - 1]]
    BY <1>7, <2>2
  <2>4. ASSUME NEW j \in 1..3
        PROVE  w[a + j - 1] = Write(layout, s[i])[j]
    <3> DEFINE k == (i - 1) * 3 + j
    <3>1. k \in 1..(n * 3) /\ a + j - 1 = k + 1
      BY <1>1, <2>1
    <3>2. (k - 1) \div 3 = i - 1 /\ (k - 1) % 3 = j - 1
      BY <2>1
    <3> HIDE DEF k, a
    <3>3. w[k + 1] = flat[k]
      BY <1>1, <1>7, <3>1
    <3>4. flat[k] = At(k)
      BY <1>5, <3>1
    <3>5. (i - 1) + 1 = i /\ (j - 1) + 1 = j
      BY <2>1
    <3>6. At(k) = Write(layout, s[i])[j]
      BY <3>2, <3>5
    <3> QED
      BY <3>1, <3>3, <3>4, <3>6
  <2>5. Write(layout, s[i]) = [j \in 1..3 |-> Write(layout, s[i])[j]]
    BY <1>2 DEF Write
  <2> HIDE DEF sub, a, b
  <2>6. sub = Write(layout, s[i])
    BY <2>3, <2>4, <2>5
  <2> QED
    BY <1>2, <2>6 DEF sub, a, b
<1>10. ASSUME NEW i \in 1..n
       PROVE  BinaryRead(layout, SubSeq(w, 2 + (i - 1) * Len(layout), 1 + i * Len(layout)))
                = Fielded(layout, s[i])
  <2>1. Read(layout, Write(layout, s[i])) = Fielded(layout, s[i])
    BY ReadBack DEF Fielded
  <2> QED
    BY <1>9, <2>1 DEF BinaryRead
<1>11. BinaryReadVector(layout, w) = [i \in 1..n |-> Fielded(layout, s[i])]
  BY <1>8, <1>10 DEF BinaryReadVector
<1> QED
  BY <1>11 DEF layout, n, w

-----------------------------------------------------------------------------
(***************************************************************************)
(* Type correctness: the remotes stay well formed, and a call is where its *)
(* method can be.                                                          *)
(***************************************************************************)

WellFormed(settings) ==
  /\ DOMAIN settings = Settings
  /\ \A f \in Flags : settings[f] \in BOOLEAN
  /\ settings["priority"] \in Nat

GoodChanges(changes) ==
  /\ DOMAIN changes \subseteq Settings
  /\ \A f \in DOMAIN changes \intersect Flags : changes[f] \in BOOLEAN
  /\ "priority" \in DOMAIN changes => changes["priority"] \in Nat

Places == {"idle", "called", "got", "disabling", "removing", "posted", "done"}

CallsTyped ==
  /\ pc \in [Calls -> Places]
  /\ req \in [Calls -> Requests \union {NoRequest}]
  /\ result \in [Calls -> {"none", "ok", "error"}]
  /\ \A c \in Calls : pc[c] = "idle" <=> req[c] = NoRequest

RemotesTyped ==
  /\ DOMAIN remotes \subseteq Names
  /\ \A n \in DOMAIN remotes : WellFormed(remotes[n])
  /\ wrote \in [Calls -> SUBSET (Settings \union {"all"})]

LEMMA SettingsAre ==
  /\ Flags \subseteq Settings /\ "priority" \in Settings /\ "priority" \notin Flags
  /\ Texts \ {"subset"} \subseteq Settings /\ Texts \intersect Flags = {}
  /\ "priority" \notin Texts
BY DEF Settings, Flags, Texts

LEMMA NewRemoteTyped == WellFormed(NewRemote)
<1>1. /\ DOMAIN NewRemote = Settings
      /\ \A f \in Settings : NewRemote[f] =
           CASE f \in Texts -> "" [] f = "priority" -> 1 [] OTHER -> f = "gpgVerify"
  BY DEF NewRemote
<1>2. NewRemote["priority"] = 1
  BY <1>1, SettingsAre
<1>3. ASSUME NEW f \in Flags PROVE NewRemote[f] \in BOOLEAN
  <2>1. f \in Settings /\ f \notin Texts /\ f # "priority"
    BY SettingsAre
  <2>2. NewRemote[f] = (f = "gpgVerify")
    BY <1>1, <2>1
  <2> QED
    BY <2>2
<1>4. DOMAIN NewRemote = Settings
  BY <1>1
<1>5. NewRemote["priority"] \in Nat
  BY <1>2
<1> QED
  BY <1>3, <1>4, <1>5 DEF WellFormed

\* Changes of the right types leave a remote well formed.
LEMMA WrittenTyped ==
  ASSUME NEW settings, WellFormed(settings), NEW changes, GoodChanges(changes)
  PROVE  WellFormed(Written(settings, changes))
<1>1. /\ DOMAIN Written(settings, changes) = Settings
      /\ \A f \in Settings : Written(settings, changes)[f] =
           IF f \in DOMAIN changes THEN changes[f] ELSE settings[f]
  BY DEF Written
<1>2. Written(settings, changes)["priority"] \in Nat
  BY <1>1, SettingsAre DEF WellFormed, GoodChanges
<1>3. \A f \in Flags : Written(settings, changes)[f] \in BOOLEAN
  <2> SUFFICES ASSUME NEW f \in Flags PROVE Written(settings, changes)[f] \in BOOLEAN
    OBVIOUS
  <2>1. Written(settings, changes)[f] = IF f \in DOMAIN changes THEN changes[f] ELSE settings[f]
    BY <1>1, SettingsAre
  <2>2. CASE f \in DOMAIN changes
    BY <2>1, <2>2 DEF GoodChanges
  <2>3. CASE f \notin DOMAIN changes
    BY <2>1, <2>3 DEF WellFormed
  <2> QED
    BY <2>2, <2>3
<1> QED
  BY <1>1, <1>2, <1>3 DEF WellFormed

\* What a caller's configuration changes has the types of the settings.
LEMMA ChangesTyped ==
  ASSUME NEW cfg, Configuration(cfg)
  PROVE  GoodChanges(ChangesOf(cfg))
<1> DEFINE changes == ChangesOf(cfg)
<1>1. changes = [f \in Expressible(cfg) |-> cfg[f]]
  BY ChangesFaithful
<1> HIDE DEF changes
<1>2. DOMAIN changes = Expressible(cfg) /\ \A f \in Expressible(cfg) : changes[f] = cfg[f]
  BY <1>1
<1>3. DOMAIN changes \subseteq Settings
  BY <1>2 DEF Expressible
<1>4. \A f \in DOMAIN changes \intersect Flags : changes[f] \in BOOLEAN
  BY <1>2 DEF Expressible, Configuration
<1>5. "priority" \in DOMAIN changes => changes["priority"] \in Nat
  <2> SUFFICES ASSUME "priority" \in DOMAIN changes PROVE changes["priority"] \in Nat
    OBVIOUS
  <2>1. "priority" \in DOMAIN cfg /\ cfg["priority"] >= 0
    BY <1>2 DEF Expressible
  <2>2. cfg["priority"] \in Int
    BY <2>1 DEF Configuration
  <2> QED
    BY <1>2, <2>1, <2>2
<1>6. GoodChanges(changes)
  BY <1>3, <1>4, <1>5 DEF GoodChanges
<1> QED
  BY <1>6 DEF changes

\* And so has what a .flatpakrepo file changes.
LEMMA FileChangesTyped ==
  ASSUME NEW file \in Files \ {Unusable}
  PROVE  GoodChanges(ChangesOfFile(file))
<1> DEFINE keys == {k \in DOMAIN file : k = "gpgKeyData" => file[k] # ""}
           verified == IF "gpgKeyData" \in keys THEN {"gpgVerify"} ELSE {}
           changes == [k \in keys \union verified |-> IF k \in keys THEN file[k] ELSE TRUE]
<1>1. ChangesOfFile(file) = changes
  BY DEF ChangesOfFile
<1>2. keys \subseteq Texts \ {"subset"}
  BY RemoteAssumption
<1>3. verified \subseteq {"gpgVerify"} /\ "gpgVerify" \in Flags
  BY DEF Flags
<1> HIDE DEF keys, verified
<1>4. DOMAIN changes \subseteq Settings
  BY <1>2, <1>3, SettingsAre
<1>5. \A f \in DOMAIN changes \intersect Flags : changes[f] \in BOOLEAN
  BY <1>2, SettingsAre
<1>6. "priority" \notin DOMAIN changes
  BY <1>2, <1>3, SettingsAre
<1> HIDE DEF changes
<1>7. GoodChanges(changes)
  BY <1>4, <1>5, <1>6 DEF GoodChanges
<1> QED
  BY <1>1, <1>7

LEMMA DisableTyped == GoodChanges(Disable)
<1>1. DOMAIN Disable = {"disabled"} /\ Disable["disabled"] = TRUE
  BY DEF Disable
<1>2. "disabled" \in Flags /\ "disabled" # "priority"
  BY DEF Flags
<1> QED
  BY <1>1, <1>2, SettingsAre DEF GoodChanges

\* The remote a method is about is one of the names.
LEMMA NameTyped ==
  ASSUME CallsTyped, NEW d \in Calls, req[d].op \in Managing
  PROVE  /\ Name(d) \in Names
         /\ req[d].op = "addFromFile" => req[d].file \in Files
<1> DEFINE r == req[d]
<1>1. r \in Requests \union {NoRequest}
  BY DEF CallsTyped
<1>2. r.op \in Managing
  OBVIOUS
<1> HIDE DEF r
<1>3. r # NoRequest
  BY <1>2 DEF NoRequest, Managing
<1>4. r \notin ReaderRequests
  BY <1>2 DEF ReaderRequests, Listings, Introspection, Managing
<1>5. r \in ManagerRequests
  BY <1>1, <1>3, <1>4 DEF Requests
<1>6. r.name \in Names /\ (r.op = "addFromFile" => r.file \in Files)
  BY <1>5 DEF ManagerRequests
<1> QED
  BY <1>6 DEF r, Name

LEMMA CommitTyped ==
  ASSUME CallsTyped, RemotesTyped, NEW d \in Calls, req[d].op \in Managing,
         NEW settings, WellFormed(settings), NEW changes, GoodChanges(changes),
         Commit(d, settings, changes)
  PROVE  RemotesTyped'
<1>1. Name(d) \in Names
  BY NameTyped
<1>2. remotes' = [n \in DOMAIN remotes \union {Name(d)} |->
        IF n = Name(d) THEN Written(settings, changes) ELSE remotes[n]]
  BY DEF Commit
<1>3. WellFormed(Written(settings, changes))
  BY WrittenTyped
<1>4. DOMAIN remotes' \subseteq Names
  BY <1>1, <1>2 DEF RemotesTyped
<1>5. \A n \in DOMAIN remotes' : WellFormed(remotes'[n])
  <2> SUFFICES ASSUME NEW n \in DOMAIN remotes' PROVE WellFormed(remotes'[n])
    OBVIOUS
  <2>1. CASE n = Name(d)
    <3>1. remotes'[n] = Written(settings, changes)
      BY <1>2, <2>1
    <3> QED
      BY <1>3, <3>1
  <2>2. CASE n # Name(d)
    <3>1. n \in DOMAIN remotes /\ remotes'[n] = remotes[n]
      BY <1>2, <2>2
    <3>2. WellFormed(remotes[n])
      BY <3>1 DEF RemotesTyped
    <3> QED
      BY <3>1, <3>2
  <2> QED
    BY <2>1, <2>2
<1>6. wrote' \in [Calls -> SUBSET (Settings \union {"all"})]
  BY DEF Commit, RemotesTyped, GoodChanges
<1> QED
  BY <1>4, <1>5, <1>6 DEF RemotesTyped

LEMMA StillTyped ==
  ASSUME RemotesTyped, remotes' = remotes, wrote' = wrote
  PROVE  RemotesTyped'
BY DEF RemotesTyped

\* A step of the native half posts an answer or goes on.
LEMMA NativeMoves ==
  ASSUME NEW d \in Calls, Native(d)
  PROVE  /\ pc[d] \in {"called", "got", "disabling", "removing"}
         /\ \/ \E posted : Post(d, posted)
            \/ \E place \in {"got", "disabling", "removing"} : Goto(d, place)
<1>1. CASE LibraryFails(d) \/ FileUnusable(d) \/ AddExists(d) \/ Adds(d) \/ Updates(d)
  BY <1>1 DEF LibraryFails, FileUnusable, AddExists, Adds, Updates, InCall
<1>2. CASE ModifyGets(d) \/ ModifyCommits(d)
  BY <1>2 DEF ModifyGets, ModifyCommits, InCall
<1>3. CASE RemoveGets(d)
  <2>1. PICK place \in {"disabling", "removing"} : Goto(d, place)
    BY <1>3 DEF RemoveGets
  <2> QED
    BY <1>3, <2>1 DEF RemoveGets, InCall
<1>4. CASE RemoveDisables(d) \/ RemoveRemoves(d)
  BY <1>4 DEF RemoveDisables, RemoveRemoves, InCall
<1>5. CASE Reader(d)
  BY <1>5, ReaderPosts DEF Posts
<1> QED
  BY <1>1, <1>2, <1>3, <1>4, <1>5 DEF Native

\* And writes a remote, removes one or leaves all of them alone.
LEMMA NativeWrites ==
  ASSUME CallsTyped, RemotesTyped, NEW d \in Calls, Native(d)
  PROVE  RemotesTyped'
<1>1. CASE Unwritten
  <2>1. remotes' = remotes /\ wrote' = wrote
    BY <1>1 DEF Unwritten
  <2> QED
    BY <2>1, StillTyped
<1>2. CASE Adds(d)
  <2>1. req[d].op \in {"add", "addFromFile"} /\ req[d].op \in Managing
    BY <1>2 DEF Adds, InCall, Managing
  <2>2. CASE req[d].op = "add"
    <3>1. Configuration(req[d].cfg)
      <4>1. req[d] \in Requests
        <5>1. NoRequest.op = "none"
          BY DEF NoRequest
        <5> QED
          BY <2>2, <5>1 DEF CallsTyped
      <4> QED
        BY <2>2, <4>1, RequestIs
    <3>2. Commit(d, NewRemote, ChangesOf(req[d].cfg))
      BY <1>2, <2>2 DEF Adds
    <3>3. GoodChanges(ChangesOf(req[d].cfg))
      BY <3>1, ChangesTyped
    <3> QED
      BY <2>1, <3>2, <3>3, NewRemoteTyped, CommitTyped
  <2>3. CASE req[d].op = "addFromFile"
    <3>1. req[d].file \in Files \ {Unusable}
      BY <1>2, <2>1, <2>3, NameTyped DEF Adds
    <3>2. Commit(d, NewRemote, ChangesOfFile(req[d].file))
      BY <1>2, <2>3 DEF Adds
    <3>3. GoodChanges(ChangesOfFile(req[d].file))
      BY <3>1, FileChangesTyped
    <3> QED
      BY <2>1, <3>2, <3>3, NewRemoteTyped, CommitTyped
  <2> QED
    BY <2>1, <2>2, <2>3
<1>3. CASE ModifyCommits(d)
  <2>1. CASE Exists(d)
    <3>1. req[d].op = "modify" /\ req[d].op \in Managing
      BY <1>3 DEF ModifyCommits, InCall, Managing
    <3>2. Configuration(req[d].cfg)
      <4>1. req[d] \in Requests
        <5>1. NoRequest.op = "none"
          BY DEF NoRequest
        <5> QED
          BY <3>1, <5>1 DEF CallsTyped
      <4> QED
        BY <3>1, <4>1, RequestIs
    <3>3. Commit(d, remotes[Name(d)], ChangesOf(req[d].cfg))
      BY <1>3, <2>1 DEF ModifyCommits
    <3>4. GoodChanges(ChangesOf(req[d].cfg))
      BY <3>2, ChangesTyped
    <3>5. WellFormed(remotes[Name(d)])
      BY <2>1 DEF Exists, RemotesTyped
    <3> QED
      BY <3>1, <3>3, <3>4, <3>5, CommitTyped
  <2>2. CASE ~Exists(d)
    BY <1>1, <1>3, <2>2 DEF ModifyCommits
  <2> QED
    BY <2>1, <2>2
<1>4. CASE RemoveDisables(d)
  <2>1. req[d].op \in Managing
    BY <1>4 DEF RemoveDisables, InCall, Managing
  <2>2. CASE Exists(d) /\ Commit(d, remotes[Name(d)], Disable)
    <3>1. WellFormed(remotes[Name(d)])
      BY <2>2 DEF Exists, RemotesTyped
    <3> QED
      BY <2>1, <2>2, <3>1, DisableTyped, CommitTyped
  <2> QED
    BY <1>1, <1>4, <2>2 DEF RemoveDisables
<1>5. CASE RemoveRemoves(d)
  <2>1. CASE Exists(d)
    <3>1. /\ remotes' = [n \in DOMAIN remotes \ {Name(d)} |-> remotes[n]]
          /\ wrote' = [wrote EXCEPT ![d] = @ \union {"all"}]
      BY <1>5, <2>1 DEF RemoveRemoves
    <3>2. wrote' \in [Calls -> SUBSET (Settings \union {"all"})]
      BY <3>1 DEF RemotesTyped
    <3>3. /\ DOMAIN remotes' \subseteq DOMAIN remotes
          /\ \A n \in DOMAIN remotes' : remotes'[n] = remotes[n]
      BY <3>1
    <3>4. \A n \in DOMAIN remotes' : WellFormed(remotes'[n])
      <4> SUFFICES ASSUME NEW n \in DOMAIN remotes' PROVE WellFormed(remotes'[n])
        OBVIOUS
      <4>1. n \in DOMAIN remotes /\ remotes'[n] = remotes[n]
        BY <3>3
      <4>2. WellFormed(remotes[n])
        BY <4>1 DEF RemotesTyped
      <4> QED
        BY <4>1, <4>2
    <3> QED
      BY <3>2, <3>3, <3>4 DEF RemotesTyped
  <2>2. CASE ~Exists(d)
    BY <1>1, <1>5, <2>2 DEF RemoveRemoves
  <2> QED
    BY <2>1, <2>2
<1>6. CASE LibraryFails(d) \/ FileUnusable(d) \/ AddExists(d) \/ ModifyGets(d)
           \/ RemoveGets(d) \/ Updates(d)
  BY <1>1, <1>6
     DEF LibraryFails, FileUnusable, AddExists, ModifyGets, RemoveGets, Updates
<1>7. CASE Reader(d)
  <2>1. wrote' = wrote
    BY <1>7, ReaderPosts DEF Posts
  <2>2. remotes' = remotes
    BY <1>7 DEF Reader, Reports, ListsRemotes, ListsApps, ListsRemoteApps, ListsPermissions,
            ListsUpdates, FetchesMetadata, ListsRunning, TellsText, ListsArches,
            ListsInstallations, Tell, TellSome, Refuse, Unwritten
  <2> QED
    BY <2>1, <2>2, StillTyped
<1> QED
  BY <1>2, <1>3, <1>4, <1>5, <1>6, <1>7 DEF Native

LEMMA TypedInit == Init => CallsTyped /\ RemotesTyped
<1> SUFFICES ASSUME Init PROVE CallsTyped /\ RemotesTyped
  OBVIOUS
<1>1. CallsTyped
  BY DEF Init, CallsTyped, Places
<1>2. wrote \in [Calls -> SUBSET (Settings \union {"all"})]
  BY DEF Init
<1>3. DOMAIN remotes \subseteq Names /\ \A n \in DOMAIN remotes : remotes[n] = NewRemote
  <2>1. CASE remotes = <<>>
    BY <2>1
  <2>2. CASE remotes \in [Names -> {NewRemote}]
    BY <2>2
  <2> QED
    BY <2>1, <2>2 DEF Init
<1> QED
  BY <1>1, <1>2, <1>3, NewRemoteTyped DEF RemotesTyped

LEMMA TypedStep == CallsTyped /\ RemotesTyped /\ [Next]_vars => (CallsTyped /\ RemotesTyped)'
<1> SUFFICES ASSUME CallsTyped, RemotesTyped, [Next]_vars PROVE CallsTyped' /\ RemotesTyped'
  OBVIOUS
<1>1. CASE UNCHANGED vars
  <2>1. /\ remotes' = remotes /\ pc' = pc /\ req' = req /\ result' = result
        /\ wrote' = wrote
    BY <1>1 DEF vars
  <2>2. CallsTyped'
    BY <2>1 DEF CallsTyped
  <2> QED
    BY <2>1, <2>2, StillTyped
<1>2. ASSUME NEW d \in Calls, NEW r \in Requests, Called(d, r)
      PROVE  CallsTyped' /\ RemotesTyped'
  <2>1. /\ req' = [req EXCEPT ![d] = r] /\ pc' = [pc EXCEPT ![d] = "called"]
        /\ remotes' = remotes /\ result' = result /\ wrote' = wrote
    BY <1>2 DEF Called
  <2>2. r # NoRequest
    <3>1. r.op \in Managing \union Reading
      BY RequestIs
    <3> QED
      BY <3>1 DEF NoRequest, Managing, Reading
  <2>3. /\ pc' \in [Calls -> Places] /\ req' \in [Calls -> Requests \union {NoRequest}]
        /\ result' \in [Calls -> {"none", "ok", "error"}]
    BY <2>1 DEF CallsTyped, Places
  <2>4. \A c \in Calls : pc'[c] = "idle" <=> req'[c] = NoRequest
    BY <2>1, <2>2 DEF CallsTyped
  <2> QED
    BY <2>1, <2>3, <2>4, StillTyped DEF CallsTyped
<1>3. ASSUME NEW d \in Calls, Native(d)
      PROVE  CallsTyped' /\ RemotesTyped'
  <2>1. PICK place \in {"got", "disabling", "removing", "posted"} :
          /\ pc' = [pc EXCEPT ![d] = place] /\ req' = req /\ result' = result
    BY <1>3, NativeMoves DEF Post, Goto
  <2>2. pc[d] # "idle"
    BY <1>3, NativeMoves
  <2>3. CallsTyped'
    BY <2>1, <2>2 DEF CallsTyped, Places
  <2> QED
    BY <1>3, <2>3, NativeWrites
<1>4. ASSUME NEW d \in Calls, Deliver(d)
      PROVE  CallsTyped' /\ RemotesTyped'
  <2>1. /\ remotes' = remotes /\ wrote' = wrote /\ req' = req /\ pc[d] = "posted"
        /\ pc' = pc \/ pc' = [pc EXCEPT ![d] = "done"]
    BY <1>4 DEF Deliver, DeliverRow, DeliverEnd
  <2>2. result' \in [Calls -> {"none", "ok", "error"}]
    BY <1>4 DEF Deliver, DeliverRow, DeliverEnd, CallsTyped
  <2>3. CallsTyped'
    <3>1. pc' \in [Calls -> Places]
      BY <2>1 DEF CallsTyped, Places
    <3>2. \A c \in Calls : pc'[c] = "idle" <=> pc[c] = "idle"
      BY <2>1 DEF CallsTyped
    <3> QED
      BY <2>1, <2>2, <3>1, <3>2 DEF CallsTyped
  <2> QED
    BY <2>1, <2>3, StillTyped
<1> QED
  BY <1>1, <1>2, <1>3, <1>4 DEF Next, CallManager, CallReader, Requests
LEMMA TypedHolds == Safety => [](CallsTyped /\ RemotesTyped)
<1>1. Init => CallsTyped /\ RemotesTyped
  BY TypedInit
<1>2. CallsTyped /\ RemotesTyped /\ [Next]_vars => (CallsTyped /\ RemotesTyped)'
  BY TypedStep
<1> QED
  BY <1>1, <1>2, PTL DEF Safety

-----------------------------------------------------------------------------
(***************************************************************************)
(* What a read is told is a list, and it posts the rows asked for.         *)
(***************************************************************************)

AList(s) == s \in Seq(ToSet(s))

Answer(r, told) ==
  [i \in 1..Cardinality(Wanted(r, told)) |->
    Fielded(Layouts[r.table], Filtered(told, Wanted(r, told))[i])]

Frames(r, told) == RowFrames(r.table, Filtered(told, Wanted(r, told)))

Batch(told) == [tag |-> "row", payload |-> WriteVector(FpMetadataEntry, told)]

\* A read at some frame: the frames left are the end of those posted, the rows
\* it has are the beginning of the answer.
Streams(r, told, left, got, res) ==
  /\ r.table \in Tables \ {"metadata"}
  /\ AList(told)
  /\ r.op \in {"first", "last"} => Cardinality(Wanted(r, told)) = 1
  /\ \E k \in 0..Cardinality(Wanted(r, told)) :
       /\ left = Suffix(Frames(r, told), Cardinality(Wanted(r, told)) + 1, k)
       /\ got = Prefix(Answer(r, told), k)
       /\ res = IF r.op = "first" /\ k = 1 THEN "ok" ELSE "none"

\* fetchRemoteMetadata(): one frame with all the rows.
Batches(r, told, left, got, res) ==
  /\ r.table = "metadata" /\ r.op = "first"
  /\ AList(told)
  /\ \/ left = <<Batch(told), Ok>> /\ got = <<>> /\ res = "none"
     \/ left = <<Ok>> /\ got = Answer(r, told) /\ res = "ok"

-----------------------------------------------------------------------------
(***************************************************************************)
(* The inductive invariant of the reads.                                   *)
(***************************************************************************)

\* There are frames between the posting and the end only, and no rows before.
Framed(c) ==
  /\ pc[c] = "posted" <=> frames[c] # <<>>
  /\ pc[c] \notin {"posted", "done"} => rows[c] = <<>>
  /\ pc[c] = "done" => result[c] # "none"

\* Where a read is: not begun, failed, on the way or complete.
Stands(c) ==
  pc[c] # "idle" /\ req[c].op \in Reading =>
    \/ pc[c] = "called"
    \/ /\ pc[c] = "posted"
       /\ \/ frames[c] = <<Error>> /\ result[c] = "none"
          \/ Streams(req[c], saw[c], frames[c], rows[c], result[c])
          \/ Batches(req[c], saw[c], frames[c], rows[c], result[c])
    \/ /\ pc[c] = "done"
       /\ result[c] = "ok" => AList(saw[c]) /\ rows[c] = Answer(req[c], saw[c])

Delivered ==
  /\ DOMAIN rows = Calls /\ DOMAIN saw = Calls
  /\ \A c \in Calls : Framed(c) /\ Stands(c)
-----------------------------------------------------------------------------
(***************************************************************************)
(* What libflatpak tells.                                                  *)
(***************************************************************************)

LEMMA ListIs ==
  ASSUME NEW S, NEW s \in Seq(S)
  PROVE  AList(s) /\ Len(s) \in Nat /\ DOMAIN s = 1..Len(s)
<1>1. Len(s) \in Nat /\ DOMAIN s = 1..Len(s)
  OBVIOUS
<1>2. s \in [1..Len(s) -> {s[i] : i \in 1..Len(s)}]
  BY <1>1
<1>3. ToSet(s) = {s[i] : i \in 1..Len(s)}
  BY <1>1 DEF ToSet
<1> DEFINE T == {s[i] : i \in 1..Len(s)}
<1> HIDE DEF T
<1>4. s \in Seq(T)
  BY <1>1, <1>2 DEF T
<1> QED
  BY <1>1, <1>3, <1>4 DEF AList, T

\* A function of the first places is a list.
LEMMA ListOf ==
  ASSUME NEW n \in Nat, NEW s, DOMAIN s = 1..n, s = [i \in 1..n |-> s[i]]
  PROVE  AList(s) /\ Len(s) = n
<1> DEFINE T == {s[i] : i \in 1..n}
<1>1. s \in [1..n -> T]
  OBVIOUS
<1> HIDE DEF T
<1>2. s \in Seq(T) /\ Len(s) = n
  BY <1>1
<1> QED
  BY <1>2, ListIs

LEMMA EntriesListed == AList(Entries(Keyfile))
<1> DEFINE E(section) == EntriesOf(Keyfile, section)
           a == E("Context")
           b == E("Session Bus Policy")
           c == E("System Bus Policy")
           d == E("Environment")
           S == ToSet(a) \union ToSet(b) \union ToSet(c) \union ToSet(d)
<1>1. \A section : AList(E(section))
  <2> SUFFICES ASSUME NEW section PROVE AList(E(section))
    OBVIOUS
  <2> DEFINE keys == IF section \in DOMAIN Keyfile THEN Keyfile[section] ELSE <<>>
             e == E(section)
  <2>1. keys \in Seq(ToSet(keys))
    <3>1. CASE section \in DOMAIN Keyfile
      BY <3>1, RemoteAssumption
    <3>2. CASE section \notin DOMAIN Keyfile
      <4>1. keys = <<>>
        BY <3>2
      <4> HIDE DEF keys
      <4> QED
        BY <4>1
    <3> QED
      BY <3>1, <3>2
  <2>2. Len(keys) \in Nat /\ DOMAIN keys = 1..Len(keys)
    <3> HIDE DEF keys
    <3> QED
      BY <2>1
  <2>3. e = [k \in 1..Len(keys) |->
              [section |-> section, key |-> keys[k][1], value |-> keys[k][2]]]
    BY <2>2 DEF EntriesOf
  <2> HIDE DEF e, keys
  <2>4. DOMAIN e = 1..Len(keys) /\ e = [k \in 1..Len(keys) |-> e[k]]
    BY <2>3
  <2>5. AList(e)
    BY <2>2, <2>4, ListOf
  <2> QED
    BY <2>5 DEF e
<1>2. AList(a) /\ AList(b) /\ AList(c) /\ AList(d)
  BY <1>1
<1>3. Entries(Keyfile) = a \o b \o c \o d
  BY DEF Entries
<1> HIDE DEF a, b, c, d
<1>4. a \in Seq(S) /\ b \in Seq(S) /\ c \in Seq(S) /\ d \in Seq(S)
  BY <1>2 DEF AList
<1> HIDE DEF S
<1>5. a \o b \in Seq(S)
  BY <1>4, Joined
<1> DEFINE ab == a \o b
           abc == ab \o c
<1> HIDE DEF ab
<1>6. abc \in Seq(S)
  BY <1>4, <1>5, Joined DEF ab
<1> HIDE DEF abc
<1>7. abc \o d \in Seq(S)
  BY <1>4, <1>6, Joined
<1>8. AList(abc \o d)
  BY <1>7, ListIs
<1> QED
  BY <1>3, <1>8 DEF ab, abc

LEMMA TablesListed ==
  ASSUME NEW table \in {"apps", "updates", "running", "arches", "installations",
                        "version", "defaultArch"}
  PROVE  AList(Library[table])
BY RemoteAssumption DEF AList

\* The remotes are finitely many and can be told one by one.
LEMMA RemotesListed ==
  ASSUME RemotesTyped, NEW told,
         told = [i \in DOMAIN SetToSeq(DOMAIN remotes) |-> RemoteRow(SetToSeq(DOMAIN remotes)[i])]
  PROVE  AList(told)
<1> DEFINE names == DOMAIN remotes
           order == SetToSeq(names)
<1>1. IsFiniteSet(names)
  BY RemoteAssumption, FS_Subset DEF RemotesTyped
<1> HIDE DEF names
<1>2. Cardinality(names) \in Nat /\ ExistsBijection(1..Cardinality(names), names)
  BY <1>1, FS_CardinalityType
<1>3. PICK f \in Bijection(1..Cardinality(names), names) : TRUE
  BY <1>2 DEF ExistsBijection
<1>4. f \in [1..Cardinality(names) -> names] /\ IsInjective(f)
  BY <1>3 DEF Bijection, Injection, IsInjective
<1>5. order \in [1..Cardinality(names) -> names]
  BY <1>4 DEF SetToSeq
<1>6. DOMAIN order = 1..Cardinality(names)
  BY <1>5
<1>7. told = [i \in 1..Cardinality(names) |-> RemoteRow(order[i])]
  BY <1>6 DEF names
<1> HIDE DEF order
<1>8. DOMAIN told = 1..Cardinality(names) /\ told = [i \in 1..Cardinality(names) |-> told[i]]
  BY <1>7
<1> QED
  BY <1>2, <1>8, ListOf
-----------------------------------------------------------------------------
(***************************************************************************)
(* The rows that are posted are those asked for.                           *)
(***************************************************************************)

LEMMA WantedAll ==
  ASSUME NEW r, NEW told, r.table \notin {"apps", "remoteApps"}
  PROVE  Wanted(r, told) = DOMAIN told
BY DEF Wanted

LEMMA WantedApps ==
  ASSUME NEW r, NEW told, r.table = "apps"
  PROVE  Wanted(r, told) = {i \in DOMAIN told : r.runtimes \/ told[i].kind = "app"}
BY DEF Wanted

\* PassesFilter() is what the caller asks of a ref.
LEMMA PassesIs ==
  ASSUME NEW r, NEW ref, ref.sockets \in Seq([name : STRING, withheld : BOOLEAN])
  PROVE  PassesFilter(r, ref) <=>
           /\ r.arch \in {"", ref.arch}
           /\ IF ref.kind = "app" THEN r.wayland => "wayland" \in {e.name : e \in
                {ref.sockets[k] : k \in {j \in DOMAIN ref.sockets : ~ref.sockets[j].withheld}}}
              ELSE r.runtimes
<1> DEFINE sockets == ref.sockets
           asks == "wayland" \in {e.name : e \in
                     {sockets[k] : k \in {j \in DOMAIN sockets : ~sockets[j].withheld}}}
           Socket == [name : STRING, withheld : BOOLEAN]
<1>1. \A i \in DOMAIN sockets : sockets[i] \in Socket
  <2>1. sockets \in Seq(Socket)
    OBVIOUS
  <2> HIDE DEF sockets, Socket
  <2> QED
    BY <2>1
<1> HIDE DEF sockets
<1>2. ASSUME NEW i \in DOMAIN sockets
      PROVE  sockets[i] = [name |-> "wayland", withheld |-> FALSE]
               <=> sockets[i].name = "wayland" /\ ~sockets[i].withheld
  <2>1. sockets[i] \in [name : STRING, withheld : BOOLEAN]
    BY <1>1
  <2>2. sockets[i] = [name |-> sockets[i].name, withheld |-> sockets[i].withheld]
    BY <2>1
  <2>3. sockets[i].withheld = TRUE \/ sockets[i].withheld = FALSE
    BY <2>1
  <2> QED
    BY <2>2, <2>3
<1>3. RequestsSocket(sockets, "wayland") <=> asks
  <2>1. RequestsSocket(sockets, "wayland")
          <=> \E i \in DOMAIN sockets : sockets[i].name = "wayland" /\ ~sockets[i].withheld
    BY <1>2 DEF RequestsSocket
  <2> QED
    BY <2>1
<1>4. PassesFilter(r, ref) <=>
        /\ r.runtimes \/ ref.kind = "app"
        /\ r.arch # "" => ref.arch = r.arch
        /\ r.wayland /\ ref.kind = "app" => RequestsSocket(sockets, "wayland")
  BY DEF PassesFilter, sockets
<1> HIDE DEF asks
<1>5. PassesFilter(r, ref) <=>
        /\ r.arch \in {"", ref.arch}
        /\ IF ref.kind = "app" THEN r.wayland => asks ELSE r.runtimes
  BY <1>3, <1>4
<1> QED
  BY <1>5 DEF asks, sockets

LEMMA WantedRefs ==
  ASSUME NEW r, r.table = "remoteApps"
  PROVE  Wanted(r, RemoteRefs) = {i \in DOMAIN RemoteRefs : PassesFilter(r, RemoteRefs[i])}
<1>1. \A i \in DOMAIN RemoteRefs :
        RemoteRefs[i].sockets \in Seq([name : STRING, withheld : BOOLEAN])
  BY RemoteAssumption DEF ToSet
<1> DEFINE Taken(ref) ==
             /\ r.arch \in {"", ref.arch}
             /\ IF ref.kind = "app" THEN r.wayland => "wayland" \in {e.name : e \in
                  {ref.sockets[k] : k \in {j \in DOMAIN ref.sockets : ~ref.sockets[j].withheld}}}
                ELSE r.runtimes
<1>2. Wanted(r, RemoteRefs) = {i \in DOMAIN RemoteRefs : Taken(RemoteRefs[i])}
  BY DEF Wanted
<1>3. \A i \in DOMAIN RemoteRefs : PassesFilter(r, RemoteRefs[i]) <=> Taken(RemoteRefs[i])
  BY <1>1, PassesIs
<1> HIDE DEF Taken
<1> QED
  BY <1>2, <1>3

\* What a read posts when libflatpak answers it.
Begins(d, told) ==
  /\ AList(told)
  /\ saw' = [saw EXCEPT ![d] = told]
  /\ \/ /\ req[d].table \in Tables \ {"metadata"}
        /\ req[d].op \in {"first", "last"} => Cardinality(Wanted(req[d], told)) = 1
        /\ Post(d, Frames(req[d], told))
     \/ /\ req[d].table = "metadata" /\ req[d].op = "first"
        /\ Post(d, <<Batch(told), Ok>>)

Tells(d) == Refuse(d) \/ \E told : Begins(d, told)

LEMMA TellsAll ==
  ASSUME NEW d \in Calls, NEW told, AList(told), Tell(d, told),
         req[d].table \in Tables \ {"metadata", "apps", "remoteApps"},
         req[d].op \in {"first", "last"} => Len(told) = 1
  PROVE  Tells(d)
<1>1. Wanted(req[d], told) = DOMAIN told
  BY WantedAll
<1>2. Len(told) \in Nat /\ DOMAIN told = 1..Len(told)
  BY ListIs DEF AList
<1>3. Cardinality(DOMAIN told) = Len(told)
  <2>1. CASE Len(told) = 0
    <3>1. DOMAIN told = {}
      BY <1>2, <2>1
    <3> QED
      BY <2>1, <3>1, FS_EmptySet
  <2>2. CASE Len(told) # 0
    <3>1. 1 \in 1..Len(told)
      BY <1>2, <2>2
    <3> QED
      BY <1>2, <3>1, RankOfAll
  <2> QED
    BY <2>1, <2>2
<1>4. Begins(d, told)
  BY <1>1, <1>3 DEF Begins, Tell, TellSome, Frames
<1> QED
  BY <1>4 DEF Tells

\* The tables that the methods of an installation read.
LEMMA ReaderRequestIs ==
  ASSUME CallsTyped, NEW d \in Calls, req[d].op \in Reading
  PROVE  /\ req[d].table \in Tables
         /\ req[d].op = "last" => req[d].table \in {"version", "defaultArch"}
         /\ req[d].op = "first" => req[d].table \in {"remotes", "metadata"}
         /\ req[d].op = "list" => req[d].table \notin {"metadata", "version", "defaultArch"}
<1> DEFINE r == req[d]
<1>1. r \in Requests \union {NoRequest}
  BY DEF CallsTyped
<1>2. r.op \in Reading
  OBVIOUS
<1> HIDE DEF r
<1>3. r # NoRequest
  BY <1>2 DEF NoRequest, Reading
<1>4. r \notin ManagerRequests
  BY <1>2 DEF ManagerRequests, Reading
<1>5. r \in ReaderRequests
  BY <1>1, <1>3, <1>4 DEF Requests
<1>6. CASE r.op = "last"
  <2>1. r \in [op : {"last"}, table : {"version", "defaultArch"}]
    BY <1>5, <1>6 DEF ReaderRequests, Listings, Introspection
  <2> QED
    BY <1>6, <2>1 DEF Tables, r
<1>7. CASE r.op = "first"
  <2>1. r.table \in {"remotes", "metadata"}
    BY <1>5, <1>7 DEF ReaderRequests, Listings, Introspection
  <2> QED
    BY <1>7, <2>1 DEF Tables, r
<1>8. CASE r.op = "list"
  <2>1. r.table \in {"remotes", "updates", "permissions", "apps", "remoteApps", "running",
                     "arches", "installations"}
    BY <1>5, <1>8 DEF ReaderRequests, Listings, Introspection
  <2> QED
    BY <1>8, <2>1 DEF Tables, r
<1> QED
  BY <1>2, <1>6, <1>7, <1>8 DEF Reading, r
\* One row is a list, and is told whole.
LEMMA OneRow ==
  ASSUME NEW row
  PROVE  AList(<<row>>) /\ Len(<<row>>) = 1
<1>1. <<row>> \in Seq({row}) /\ Len(<<row>>) = 1
  OBVIOUS
<1> QED
  BY <1>1, ListIs

LEMMA ReaderTells ==
  ASSUME CallsTyped, RemotesTyped, NEW d \in Calls, Reader(d)
  PROVE  Tells(d)
<1>1. CASE Reports(d)
  <2>1. req[d].op = "first" /\ req[d].table = "remotes"
    BY <1>1 DEF Reports, Reads, InCall
  <2>2. req[d].table \in Tables \ {"metadata", "apps", "remoteApps"}
    BY <2>1 DEF Tables
  <2>3. CASE Tell(d, <<RemoteRow(Name(d))>>)
    BY <2>2, <2>3, OneRow, TellsAll
  <2>4. CASE Refuse(d)
    BY <2>4 DEF Tells
  <2> QED
    BY <1>1, <2>3, <2>4 DEF Reports
<1>2. CASE ListsRemotes(d)
  <2> DEFINE told == [i \in DOMAIN SetToSeq(DOMAIN remotes) |->
                       RemoteRow(SetToSeq(DOMAIN remotes)[i])]
  <2>1. req[d].op = "list" /\ req[d].table = "remotes" /\ Tell(d, told)
    BY <1>2 DEF ListsRemotes, Reads, InCall
  <2>2. AList(told)
    BY RemotesListed
  <2> HIDE DEF told
  <2>3. req[d].table \in Tables \ {"metadata", "apps", "remoteApps"}
    BY <2>1 DEF Tables
  <2> QED
    BY <2>1, <2>2, <2>3, TellsAll
<1>3. CASE ListsApps(d)
  <2>1. req[d].op = "list" /\ req[d].table = "apps"
    BY <1>3 DEF ListsApps, Reads, InCall
  <2>2. TellSome(d, Library.apps, Wanted(req[d], Library.apps))
    BY <1>3, <2>1, WantedApps DEF ListsApps
  <2>3. AList(Library["apps"])
    BY TablesListed
  <2>4. Begins(d, Library.apps)
    BY <2>1, <2>2, <2>3 DEF Begins, TellSome, Frames, Tables
  <2> QED
    BY <2>4 DEF Tells
<1>4. CASE ListsRemoteApps(d)
  <2>1. req[d].op = "list" /\ req[d].table = "remoteApps"
    BY <1>4 DEF ListsRemoteApps, Reads, InCall
  <2>2. CASE Refuse(d)
    BY <2>2 DEF Tells
  <2>3. CASE Exists(d)
    <3>1. TellSome(d, RemoteRefs, Wanted(req[d], RemoteRefs))
      BY <1>4, <2>1, <2>3, WantedRefs DEF ListsRemoteApps
    <3>2. AList(RemoteRefs)
      BY RemoteAssumption DEF AList
    <3>3. Begins(d, RemoteRefs)
      BY <2>1, <3>1, <3>2 DEF Begins, TellSome, Frames, Tables
    <3> QED
      BY <3>3 DEF Tells
  <2> QED
    BY <1>4, <2>2, <2>3 DEF ListsRemoteApps
<1>5. CASE ListsPermissions(d)
  <2>1. /\ req[d].op = "list" /\ req[d].table = "permissions"
        /\ Tell(d, Entries(Keyfile))
    BY <1>5 DEF ListsPermissions, Reads, InCall
  <2>2. req[d].table \in Tables \ {"metadata", "apps", "remoteApps"}
    BY <2>1 DEF Tables
  <2> QED
    BY <2>1, <2>2, EntriesListed, TellsAll
<1>6. CASE FetchesMetadata(d)
  <2>1. req[d].op = "first" /\ req[d].table = "metadata"
    BY <1>6 DEF FetchesMetadata, Reads, InCall
  <2>2. CASE Refuse(d)
    BY <2>2 DEF Tells
  <2>3. CASE Exists(d)
    <3>1. /\ Post(d, <<Batch(Entries(Keyfile)), Ok>>)
          /\ saw' = [saw EXCEPT ![d] = Entries(Keyfile)]
      BY <1>6, <2>3 DEF FetchesMetadata, Batch
    <3>2. Begins(d, Entries(Keyfile))
      BY <2>1, <3>1, EntriesListed DEF Begins
    <3> QED
      BY <3>2 DEF Tells
  <2> QED
    BY <1>6, <2>2, <2>3 DEF FetchesMetadata
<1>7. ASSUME NEW table \in {"updates", "running", "arches", "installations"},
             Reads(d, "list", table), Tell(d, Library[table])
      PROVE  Tells(d)
  <2>1. req[d].op = "list" /\ req[d].table = table
    BY <1>7 DEF Reads, InCall
  <2>2. req[d].table \in Tables \ {"metadata", "apps", "remoteApps"}
    BY <1>7, <2>1 DEF Tables
  <2>3. AList(Library[table])
    BY TablesListed
  <2> QED
    BY <1>7, <2>1, <2>2, <2>3, TellsAll
<1>8. CASE ListsUpdates(d) \/ ListsRunning(d) \/ ListsArches(d) \/ ListsInstallations(d)
  BY <1>7, <1>8 DEF ListsUpdates, ListsRunning, ListsArches, ListsInstallations
<1>9. CASE TellsText(d)
  <2>1. req[d].op = "last" /\ Tell(d, Library[req[d].table])
    BY <1>9 DEF TellsText, InCall
  <2>2. req[d].op \in Reading
    BY <2>1 DEF Reading
  <2>3. req[d].table \in {"version", "defaultArch"}
    BY <2>1, <2>2, ReaderRequestIs
  <2>4. req[d].table \in Tables \ {"metadata", "apps", "remoteApps"}
    BY <2>3 DEF Tables
  <2>5. AList(Library[req[d].table])
    BY <2>3, TablesListed
  <2>6. Len(Library[req[d].table]) = 1
    BY <2>3, RemoteAssumption
  <2> QED
    BY <2>1, <2>4, <2>5, <2>6, TellsAll
<1> QED
  BY <1>1, <1>2, <1>3, <1>4, <1>5, <1>6, <1>8, <1>9 DEF Reader

-----------------------------------------------------------------------------
(***************************************************************************)
(* Frame by frame.                                                         *)
(***************************************************************************)

\* How many rows are asked for, and where the answer has them.
LEMMA AnswerIs ==
  ASSUME NEW r, NEW told, AList(told)
  PROVE  /\ Cardinality(Wanted(r, told)) \in Nat
         /\ DOMAIN Filtered(told, Wanted(r, told)) = 1..Cardinality(Wanted(r, told))
         /\ Prefix(Answer(r, told), Cardinality(Wanted(r, told))) = Answer(r, told)
<1> DEFINE n == Cardinality(Wanted(r, told))
<1>1. Len(told) \in Nat /\ DOMAIN told = 1..Len(told)
  BY ListIs DEF AList
<1>2. Wanted(r, told) \subseteq 1..Len(told)
  BY <1>1 DEF Wanted
<1>3. n \in Nat /\ DOMAIN Filtered(told, Wanted(r, told)) = 1..n
  BY <1>1, <1>2, Ranked, FilteredAt
<1>4. Answer(r, told) = [i \in 1..n |->
        Fielded(Layouts[r.table], Filtered(told, Wanted(r, told))[i])]
  BY DEF Answer
<1> HIDE DEF n
<1>5. Prefix(Answer(r, told), n) = Answer(r, told)
  BY <1>4 DEF Prefix
<1> QED
  BY <1>3, <1>5 DEF n

\* The beginning: every frame is left.
LEMMA StreamBegins ==
  ASSUME NEW r, NEW told, AList(told), r.table \in Tables \ {"metadata"},
         r.op \in {"first", "last"} => Cardinality(Wanted(r, told)) = 1
  PROVE  Streams(r, told, Frames(r, told), <<>>, "none")
<1> DEFINE n == Cardinality(Wanted(r, told))
<1>1. n \in Nat /\ DOMAIN Filtered(told, Wanted(r, told)) = 1..n
  BY AnswerIs
<1>2. Suffix(Frames(r, told), n + 1, 0) = Frames(r, told)
  BY <1>1, RowFramesAre DEF Frames
<1>3. Prefix(Answer(r, told), 0) = <<>>
  BY PrefixStep
<1>4. 0 \in 0..n
  BY <1>1
<1> QED
  BY <1>2, <1>3, <1>4 DEF Streams

\* Then a row goes from the frames to the answer, or the sentinel is reached
\* with the answer complete.
LEMMA StreamMoves ==
  ASSUME NEW r, NEW told, NEW left, NEW got, NEW res,
         Streams(r, told, left, got, res), r.op \in Reading
  PROVE  /\ left # <<>>
         /\ \/ \E row :
                 /\ Head(left) = Row(Layouts[r.table], row)
                 /\ res = "none"
                 /\ r.op # "list" => got = <<>>
                 /\ Streams(r, told, Tail(left), got \o <<Fielded(Layouts[r.table], row)>>,
                            IF r.op = "first" THEN "ok" ELSE "none")
            \/ /\ Head(left) = Ok
               /\ got = Answer(r, told)
               /\ res = IF r.op = "first" THEN "ok" ELSE "none"
<1> DEFINE n == Cardinality(Wanted(r, told))
           F == Frames(r, told)
           A == Answer(r, told)
           P == Filtered(told, Wanted(r, told))
<1>1. AList(told) /\ n \in Nat /\ DOMAIN P = 1..n /\ Prefix(A, n) = A
  BY AnswerIs DEF Streams
<1>2. PICK k \in 0..n :
        /\ left = Suffix(F, n + 1, k) /\ got = Prefix(A, k)
        /\ res = IF r.op = "first" /\ k = 1 THEN "ok" ELSE "none"
  BY DEF Streams
<1>3. r.op \in {"first", "last"} => n = 1
  BY DEF Streams
<1>4. /\ \A i \in 1..n : F[i] = Row(Layouts[r.table], P[i])
      /\ F[n + 1] = Ok
  <2>1. F = RowFrames(r.table, P)
    BY DEF Frames
  <2> HIDE DEF n, F, P
  <2>2. /\ \A i \in 1..n : RowFrames(r.table, P)[i] = Row(Layouts[r.table], P[i])
        /\ RowFrames(r.table, P)[n + 1] = Ok
    BY <1>1, RowFramesAre
  <2> QED
    BY <2>1, <2>2
<1>5. \A i \in 1..n : A[i] = Fielded(Layouts[r.table], P[i])
  BY DEF Answer
<1>6. r.table \in Tables \ {"metadata"}
  BY DEF Streams
<1> HIDE DEF n, F, A, P
<1>7. k \in Nat /\ k <= n /\ k < n + 1 /\ n + 1 \in Nat
  BY <1>1
<1>8. left # <<>> /\ Head(left) = F[k + 1] /\ Tail(left) = Suffix(F, n + 1, k + 1)
  BY <1>2, <1>7, SuffixStep
<1>9. CASE k = n
  <2>1. Head(left) = Ok /\ got = A
    BY <1>1, <1>2, <1>4, <1>8, <1>9
  <2>2. res = IF r.op = "first" THEN "ok" ELSE "none"
    BY <1>2, <1>3, <1>9
  <2> QED
    BY <1>8, <2>1, <2>2 DEF A
<1>10. CASE k # n
  <2>1. k + 1 \in 1..n /\ k + 1 \in 0..n
    BY <1>1, <1>7, <1>10
  <2>2. Head(left) = Row(Layouts[r.table], P[k + 1])
    BY <1>4, <1>8, <2>1
  <2>3. Prefix(A, k) \o <<A[k + 1]>> = Prefix(A, k + 1) /\ Prefix(A, 0) = <<>>
    BY <1>7, PrefixStep
  <2>4. got \o <<Fielded(Layouts[r.table], P[k + 1])>> = Prefix(A, k + 1)
    BY <1>2, <1>5, <2>1, <2>3
  <2>5. r.op # "list" => k = 0
    BY <1>1, <1>3, <1>7, <1>10 DEF Reading
  <2>6. res = "none" /\ (r.op # "list" => got = <<>>)
    BY <1>2, <2>3, <2>5
  <2>7. (IF r.op = "first" THEN "ok" ELSE "none")
          = IF r.op = "first" /\ k + 1 = 1 THEN "ok" ELSE "none"
    BY <2>5
  <2>8. Streams(r, told, Tail(left), got \o <<Fielded(Layouts[r.table], P[k + 1])>>,
                IF r.op = "first" THEN "ok" ELSE "none")
    BY <1>1, <1>3, <1>6, <1>8, <2>1, <2>4, <2>7 DEF Streams, n, F, A
  <2> QED
    BY <1>8, <2>2, <2>6, <2>8
<1> QED
  BY <1>9, <1>10

\* The one frame of a batch is the whole answer.
LEMMA BatchIs ==
  ASSUME NEW r, NEW told, AList(told), r.table = "metadata"
  PROVE  BinaryReadVector(FpMetadataEntry, Batch(told).payload) = Answer(r, told)
<1>1. told \in Seq(ToSet(told))
  BY DEF AList
<1>2. Wanted(r, told) = DOMAIN told
  BY WantedAll
<1>3. Filtered(told, Wanted(r, told)) = told
  BY <1>1, <1>2, FilteredAll
<1>4. Cardinality(Wanted(r, told)) = Len(told)
  <2>1. Len(told) \in Nat /\ DOMAIN told = 1..Len(told)
    BY <1>1
  <2>2. CASE Len(told) = 0
    <3>1. DOMAIN told = {}
      BY <2>1, <2>2
    <3> QED
      BY <1>2, <2>2, <3>1, FS_EmptySet
  <2>3. CASE Len(told) # 0
    <3>1. 1 \in 1..Len(told)
      BY <2>1, <2>3
    <3> QED
      BY <1>2, <2>1, <3>1, RankOfAll
  <2> QED
    BY <2>2, <2>3
<1>5. Answer(r, told) = [i \in 1..Len(told) |-> Fielded(FpMetadataEntry, told[i])]
  BY <1>3, <1>4, SameLayouts DEF Answer
<1>6. BinaryReadVector(FpMetadataEntry, WriteVector(FpMetadataEntry, told))
        = [i \in 1..Len(told) |-> Fielded(FpMetadataEntry, told[i])]
  BY <1>1, VectorReadBack
<1>7. Batch(told).payload = WriteVector(FpMetadataEntry, told)
  BY DEF Batch
<1> QED
  BY <1>5, <1>6, <1>7
-----------------------------------------------------------------------------
(***************************************************************************)
(* The invariant of the reads is kept by every step.                       *)
(***************************************************************************)

\* A step leaves the other calls alone.
Alone(d) ==
  /\ Same(pc, pc', d) /\ Same(req, req', d) /\ Same(frames, frames', d)
  /\ Same(rows, rows', d) /\ Same(result, result', d) /\ Same(saw, saw', d)

LEMMA StaysDelivered ==
  ASSUME Delivered, NEW d \in Calls, Alone(d), Framed(d)', Stands(d)'
  PROVE  Delivered'
<1>1. DOMAIN rows' = Calls /\ DOMAIN saw' = Calls
  BY DEF Alone, Same
<1>2. ASSUME NEW c \in Calls, c # d
      PROVE  Framed(c)' /\ Stands(c)'
  <2>1. /\ pc'[c] = pc[c] /\ req'[c] = req[c] /\ frames'[c] = frames[c]
        /\ rows'[c] = rows[c] /\ result'[c] = result[c] /\ saw'[c] = saw[c]
    BY <1>2 DEF Alone, Same
  <2>2. Framed(c) /\ Stands(c)
    BY DEF Delivered
  <2>3. Framed(c)'
    BY <2>1, <2>2 DEF Framed
  <2>4. Stands(c)'
    BY <2>1, <2>2 DEF Stands
  <2> QED
    BY <2>3, <2>4
<1> QED
  BY <1>1, <1>2 DEF Delivered

\* Frames are posted.
LEMMA PostDelivered ==
  ASSUME Settled, Delivered, NEW d \in Calls, NEW posted, Post(d, posted), posted # <<>>,
         pc[d] \in {"called", "got", "disabling", "removing"}, Same(saw, saw', d),
         req[d].op \in Reading =>
           \/ posted = <<Error>>
           \/ Streams(req[d], saw'[d], posted, <<>>, "none")
           \/ Batches(req[d], saw'[d], posted, <<>>, "none")
  PROVE  Delivered'
<1>1. Shaped /\ Underway(d) /\ Framed(d) /\ DOMAIN rows = Calls
  BY DEF Settled, Delivered
<1>2. /\ pc'[d] = "posted" /\ frames'[d] = posted /\ req' = req /\ result' = result
      /\ Same(pc, pc', d) /\ Same(req, req', d) /\ Same(frames, frames', d)
      /\ Same(result, result', d)
  BY <1>1, PostIs
<1>3. rows' = rows
  BY DEF Post
<1>4. Alone(d)
  BY <1>1, <1>2, <1>3 DEF Alone, Same
<1>5. rows[d] = <<>> /\ result[d] = "none"
  BY <1>1 DEF Framed, Underway
<1>6. Framed(d)'
  BY <1>2 DEF Framed
<1>7. Stands(d)'
  BY <1>2, <1>3, <1>5 DEF Stands
<1> QED
  BY <1>4, <1>6, <1>7, StaysDelivered

LEMMA CallDelivered ==
  ASSUME Settled, Delivered, NEW d \in Calls, NEW r \in Requests, Called(d, r)
  PROVE  Delivered'
<1>1. Shaped /\ Framed(d) /\ DOMAIN rows = Calls /\ DOMAIN saw = Calls
  BY DEF Settled, Delivered
<1>2. /\ pc[d] = "idle" /\ pc'[d] = "called" /\ Same(pc, pc', d) /\ Same(req, req', d)
      /\ frames' = frames /\ rows' = rows /\ result' = result /\ saw' = saw
  BY <1>1 DEF Called, Shaped, Same
<1>3. Alone(d)
  BY <1>1, <1>2 DEF Alone, Same, Shaped
<1>4. Framed(d)' /\ Stands(d)'
  BY <1>1, <1>2 DEF Framed, Stands
<1> QED
  BY <1>3, <1>4, StaysDelivered

\* A step on the way to the answer is a manager's.
LEMMA GoesDelivered ==
  ASSUME Settled, Delivered, NEW d \in Calls, NEW place \in {"got", "disabling", "removing"},
         Goto(d, place), saw' = saw, req[d].op \in Managing,
         pc[d] \in {"called", "disabling"}
  PROVE  Delivered'
<1>1. Shaped /\ Framed(d) /\ DOMAIN rows = Calls /\ DOMAIN saw = Calls
  BY DEF Settled, Delivered
<1>2. /\ pc'[d] = place /\ frames' = frames /\ req' = req /\ result' = result
      /\ Same(pc, pc', d) /\ Same(req, req', d) /\ Same(frames, frames', d)
      /\ Same(result, result', d)
  BY <1>1, GotoIs
<1>3. rows' = rows
  BY DEF Goto
<1>4. Alone(d)
  BY <1>1, <1>2, <1>3 DEF Alone, Same
<1>5. req[d].op \notin Reading
  BY DEF Managing, Reading
<1>6. Framed(d)' /\ Stands(d)'
  BY <1>1, <1>2, <1>3, <1>5 DEF Framed, Stands
<1> QED
  BY <1>4, <1>6, StaysDelivered

\* What the native half does for a manager posts an answer or goes on.
LEMMA ManagerMoves ==
  ASSUME NEW d \in Calls, Native(d), ~Reader(d), ~LibraryFails(d)
  PROVE  /\ req[d].op \in Managing /\ saw' = saw
         /\ \/ \E answer : Post(d, <<answer>>)
            \/ /\ \E place \in {"got", "disabling", "removing"} : Goto(d, place)
               /\ pc[d] \in {"called", "disabling"}
<1>1. CASE FileUnusable(d) \/ AddExists(d) \/ Updates(d)
  BY <1>1 DEF FileUnusable, AddExists, Updates, InCall, Managing, Unwritten
<1>2. CASE Adds(d)
  BY <1>2 DEF Adds, InCall, Managing, Commit
<1>3. CASE ModifyGets(d)
  BY <1>3 DEF ModifyGets, InCall, Managing, Unwritten
<1>4. CASE ModifyCommits(d)
  BY <1>4 DEF ModifyCommits, InCall, Managing, Unwritten, Commit
<1>5. CASE RemoveGets(d)
  <2>1. PICK place \in {"disabling", "removing"} : Goto(d, place)
    BY <1>5 DEF RemoveGets
  <2> QED
    BY <1>5, <2>1 DEF RemoveGets, InCall, Managing, Unwritten
<1>6. CASE RemoveDisables(d)
  BY <1>6 DEF RemoveDisables, InCall, Managing, Unwritten, Commit
<1>7. CASE RemoveRemoves(d)
  BY <1>7 DEF RemoveRemoves, InCall, Managing, Unwritten
<1> QED
  BY <1>1, <1>2, <1>3, <1>4, <1>5, <1>6, <1>7 DEF Native

LEMMA NativeDelivered ==
  ASSUME Settled, CallsTyped, RemotesTyped, Delivered, NEW d \in Calls, Native(d)
  PROVE  Delivered'
<1>1. /\ pc[d] \in {"called", "got", "disabling", "removing"}
      /\ DOMAIN saw = Calls
  BY NativeMoves DEF Delivered
<1>2. saw' = saw => Same(saw, saw', d)
  BY <1>1 DEF Same
<1>3. \A x : <<x>> # <<>>
  OBVIOUS
<1>4. CASE LibraryFails(d)
  <2>1. Post(d, <<Error>>) /\ saw' = saw
    BY <1>4 DEF LibraryFails, Unwritten
  <2> QED
    BY <1>1, <1>2, <1>3, <2>1, PostDelivered
<1>5. CASE Reader(d)
  <2>1. CASE Refuse(d)
    <3>1. Post(d, <<Error>>) /\ saw' = saw
      BY <2>1 DEF Refuse, Unwritten
    <3> QED
      BY <1>1, <1>2, <1>3, <3>1, PostDelivered
  <2>2. ASSUME NEW told, Begins(d, told)
        PROVE  Delivered'
    <3>1. AList(told) /\ saw'[d] = told /\ Same(saw, saw', d)
      BY <1>1, <2>2 DEF Begins, Same
    <3>2. CASE /\ req[d].table \in Tables \ {"metadata"}
               /\ req[d].op \in {"first", "last"} => Cardinality(Wanted(req[d], told)) = 1
               /\ Post(d, Frames(req[d], told))
      <4>1. Streams(req[d], told, Frames(req[d], told), <<>>, "none")
        BY <3>1, <3>2, StreamBegins
      <4>2. req[d].op \in Reading
        BY <1>5, ReaderPosts
      <4>3. Frames(req[d], told) # <<>>
        BY <4>1, <4>2, StreamMoves
      <4> QED
        BY <1>1, <3>1, <3>2, <4>1, <4>3, PostDelivered
    <3>3. CASE /\ req[d].table = "metadata" /\ req[d].op = "first"
               /\ Post(d, <<Batch(told), Ok>>)
      <4>1. Batches(req[d], told, <<Batch(told), Ok>>, <<>>, "none")
        BY <3>1, <3>3 DEF Batches
      <4>2. <<Batch(told), Ok>> # <<>>
        OBVIOUS
      <4> QED
        BY <1>1, <3>1, <3>3, <4>1, <4>2, PostDelivered
    <3> QED
      BY <2>2, <3>2, <3>3 DEF Begins
  <2> QED
    BY <1>5, <2>1, <2>2, ReaderTells DEF Tells
<1>6. CASE ~Reader(d) /\ ~LibraryFails(d)
  <2>1. req[d].op \in Managing /\ saw' = saw /\ req[d].op \notin Reading
    BY <1>6, ManagerMoves DEF Managing, Reading
  <2>2. ASSUME NEW answer, Post(d, <<answer>>)
        PROVE  Delivered'
    BY <1>1, <1>2, <1>3, <2>1, <2>2, PostDelivered
  <2>3. ASSUME NEW place \in {"got", "disabling", "removing"}, Goto(d, place),
               pc[d] \in {"called", "disabling"}
        PROVE  Delivered'
    BY <2>1, <2>3, GoesDelivered
  <2> QED
    BY <1>6, <2>2, <2>3, ManagerMoves
<1> QED
  BY <1>4, <1>5, <1>6
LEMMA RowDelivered ==
  ASSUME Settled, CallsTyped, Delivered, NEW d \in Calls, DeliverRow(d)
  PROVE  Delivered'
<1> DEFINE r == req[d]
           told == saw[d]
           left == frames[d]
           got == rows[d]
           res == result[d]
           decoded == Decoded(d, Head(left).payload)
<1>1. /\ Shaped /\ Asked(d) /\ Answered(d) /\ Framed(d) /\ Stands(d)
      /\ DOMAIN rows = Calls /\ DOMAIN saw = Calls
      /\ pc[d] = "posted" /\ Head(left).tag = "row"
  BY DEF Settled, Delivered, DeliverRow
<1>2. /\ pc' = pc /\ req' = req /\ saw' = saw
      /\ frames'[d] = Tail(left) /\ Same(frames, frames', d)
      /\ result'[d] = (IF r.op = "first" THEN "ok" ELSE res) /\ Same(result, result', d)
      /\ rows'[d] = (CASE r.op = "list" -> got \o decoded
                       [] r.op = "last" -> decoded
                       [] r.op = "first" -> IF res = "none" THEN decoded ELSE got)
      /\ Same(rows, rows', d)
  BY <1>1 DEF DeliverRow, Same, Shaped
<1>3. Alone(d)
  BY <1>1, <1>2 DEF Alone, Same, Shaped
<1>4. /\ Ok.tag = "sentinel" /\ Error.tag = "error"
      /\ Head(<<Ok>>) = Ok /\ Head(<<Error>>) = Error
  BY DEF Ok, Error
<1>5. left # <<Ok>> /\ left # <<Error>>
  BY <1>1, <1>4
<1>6. r.op \in Reading
  BY <1>1, <1>5 DEF Asked, Answered
<1>7. Streams(r, told, left, got, res) \/ Batches(r, told, left, got, res)
  BY <1>1, <1>5, <1>6 DEF Stands
<1>8. CASE Streams(r, told, left, got, res)
  <2>1. Head(left) # Ok
    BY <1>1, <1>4
  <2>2. PICK row :
          /\ Head(left) = Row(Layouts[r.table], row)
          /\ res = "none"
          /\ r.op # "list" => got = <<>>
          /\ Streams(r, told, Tail(left), got \o <<Fielded(Layouts[r.table], row)>>,
                     IF r.op = "first" THEN "ok" ELSE "none")
    BY <1>6, <1>8, <2>1, StreamMoves
  <2>3. r.table \in Tables \ {"metadata"}
    BY <1>8 DEF Streams
  <2>4. decoded = <<Fielded(Layouts[r.table], row)>>
    BY <2>2, <2>3, DecodedRow
  <2> DEFINE next == got \o <<Fielded(Layouts[r.table], row)>>
             after == IF r.op = "first" THEN "ok" ELSE "none"
  <2>5. r.op # "list" => next = <<Fielded(Layouts[r.table], row)>>
    <3> DEFINE x == Fielded(Layouts[r.table], row)
    <3> HIDE DEF x
    <3>1. <<>> \o <<x>> = <<x>>
      OBVIOUS
    <3> QED
      BY <2>2, <3>1 DEF x
  <2>6. result'[d] = after
    BY <1>2, <2>2
  <2>7. rows'[d] = next
    <3>1. CASE r.op = "list"
      BY <1>2, <2>4, <3>1
    <3>2. CASE r.op = "last"
      BY <1>2, <2>4, <2>5, <3>2
    <3>3. CASE r.op = "first"
      BY <1>2, <2>2, <2>4, <2>5, <3>3
    <3> QED
      BY <1>6, <3>1, <3>2, <3>3 DEF Reading
  <2> HIDE DEF next, after
  <2>8. Streams(r, told, Tail(left), next, after)
    BY <2>2 DEF next, after
  <2>9. Tail(left) # <<>>
    BY <1>6, <2>8, StreamMoves
  <2>10. Framed(d)'
    BY <1>1, <1>2, <2>9 DEF Framed
  <2>11. Stands(d)'
    BY <1>1, <1>2, <2>6, <2>7, <2>8 DEF Stands
  <2> QED
    BY <1>3, <2>10, <2>11, StaysDelivered
<1>9. CASE Batches(r, told, left, got, res)
  <2>1. /\ r.table = "metadata" /\ r.op = "first" /\ AList(told)
        /\ left = <<Batch(told), Ok>> /\ got = <<>> /\ res = "none"
    BY <1>5, <1>9 DEF Batches
  <2>2. Head(<<Batch(told), Ok>>) = Batch(told) /\ Tail(<<Batch(told), Ok>>) = <<Ok>>
    <3> DEFINE x == Batch(told)
    <3> HIDE DEF x
    <3>1. Head(<<x, Ok>>) = x /\ Tail(<<x, Ok>>) = <<Ok>>
      OBVIOUS
    <3> QED
      BY <3>1 DEF x
  <2>3. Head(left) = Batch(told) /\ Tail(left) = <<Ok>>
    BY <2>1, <2>2, Zenon
  <2>4. Decoders[r.table] = FpMetadataEntry
    BY <2>1, SameLayouts DEF Tables
  <2>5. decoded = BinaryReadVector(FpMetadataEntry, Batch(told).payload)
    BY <2>1, <2>3, <2>4 DEF Decoded
  <2>6. decoded = Answer(r, told)
    BY <2>1, <2>5, BatchIs
  <2>7. rows'[d] = Answer(r, told) /\ result'[d] = "ok"
    BY <1>2, <2>1, <2>6
  <2>8. frames'[d] = <<Ok>>
    BY <1>2, <2>3
  <2>9. Batches(r, told, frames'[d], rows'[d], result'[d])
    BY <2>1, <2>7, <2>8 DEF Batches
  <2>10. Framed(d)'
    <3>1. <<Ok>> # <<>>
      OBVIOUS
    <3>2. pc'[d] = "posted" /\ frames'[d] # <<>>
      BY <1>1, <1>2, <2>8, <3>1
    <3> QED
      BY <3>2 DEF Framed
  <2>11. Stands(d)'
    BY <1>1, <1>2, <2>9 DEF Stands
  <2> QED
    BY <1>3, <2>10, <2>11, StaysDelivered
<1> QED
  BY <1>7, <1>8, <1>9

LEMMA EndDelivered ==
  ASSUME Settled, CallsTyped, Delivered, NEW d \in Calls, DeliverEnd(d)
  PROVE  Delivered'
<1> DEFINE r == req[d]
           told == saw[d]
           left == frames[d]
           got == rows[d]
           res == result[d]
           after == IF res # "none" THEN res
                    ELSE IF Head(left) = Error THEN "error"
                    ELSE IF r.op = "first" THEN res ELSE "ok"
<1>1. /\ Shaped /\ Asked(d) /\ Framed(d) /\ Stands(d)
      /\ DOMAIN rows = Calls /\ DOMAIN saw = Calls
      /\ pc[d] = "posted" /\ Head(left).tag # "row"
  BY DEF Settled, Delivered, DeliverEnd
<1>2. /\ pc'[d] = "done" /\ Same(pc, pc', d) /\ req' = req /\ saw' = saw /\ rows' = rows
      /\ frames'[d] = <<>> /\ Same(frames, frames', d)
      /\ result'[d] = after /\ Same(result, result', d)
  BY <1>1 DEF DeliverEnd, Same, Shaped
<1>3. Alone(d)
  BY <1>1, <1>2 DEF Alone, Same, Shaped
<1>4. Ok # Error /\ Head(<<Ok>>) = Ok /\ Head(<<Error>>) = Error
  BY DEF Ok, Error
<1>5. r.op \in Reading =>
        after # "none" /\ (after = "ok" => AList(told) /\ got = Answer(r, told))
  <2> SUFFICES ASSUME r.op \in Reading
               PROVE  after # "none" /\ (after = "ok" => AList(told) /\ got = Answer(r, told))
    OBVIOUS
  <2>1. CASE left = <<Error>> /\ res = "none"
    <3>1. Head(left) = Error
      BY <1>4, <2>1, Zenon
    <3> QED
      BY <2>1, <3>1
  <2>2. CASE Streams(r, told, left, got, res)
    <3>1. \A row : Head(left) # Row(Layouts[r.table], row)
      BY <1>1 DEF Row
    <3>2. /\ Head(left) = Ok /\ got = Answer(r, told)
          /\ res = IF r.op = "first" THEN "ok" ELSE "none"
      <4> HIDE DEF r, told, left, got, res
      <4> QED
        BY <2>2, <3>1, StreamMoves
    <3>3. AList(told)
      BY <2>2 DEF Streams
    <3> QED
      BY <1>4, <3>2, <3>3
  <2>3. CASE Batches(r, told, left, got, res)
    <3>1. Batch(told).tag = "row"
      BY DEF Batch
    <3>2. Head(<<Batch(told), Ok>>) = Batch(told)
      <4> DEFINE x == Batch(told)
      <4> HIDE DEF x
      <4>1. Head(<<x, Ok>>) = x
        OBVIOUS
      <4> QED
        BY <4>1 DEF x
    <3>3. left # <<Batch(told), Ok>>
      BY <1>1, <3>1, <3>2
    <3>4. AList(told) /\ got = Answer(r, told) /\ res = "ok"
      BY <2>3, <3>3 DEF Batches
    <3> QED
      BY <3>4
  <2> QED
    BY <1>1, <2>1, <2>2, <2>3 DEF Stands
<1>6. after # "none"
  <2>1. CASE r.op \in Reading
    BY <1>5, <2>1
  <2>2. CASE r.op \notin Reading
    BY <2>2 DEF Reading
  <2> QED
    BY <2>1, <2>2
<1> HIDE DEF after
<1>7. Framed(d)'
  BY <1>2, <1>6 DEF Framed
<1>8. Stands(d)'
  BY <1>2, <1>5 DEF Stands
<1> QED
  BY <1>3, <1>7, <1>8, StaysDelivered

LEMMA DeliveredInit == Init => Delivered
<1> SUFFICES ASSUME Init PROVE Delivered
  OBVIOUS
<1>1. DOMAIN rows = Calls /\ DOMAIN saw = Calls
  BY DEF Init
<1>2. ASSUME NEW c \in Calls PROVE Framed(c) /\ Stands(c)
  <2>1. pc[c] = "idle" /\ frames[c] = <<>> /\ rows[c] = <<>>
    BY DEF Init
  <2> QED
    BY <2>1 DEF Framed, Stands
<1> QED
  BY <1>1, <1>2 DEF Delivered

LEMMA DeliveredStep ==
  Settled /\ CallsTyped /\ RemotesTyped /\ Delivered /\ [Next]_vars => Delivered'
<1> SUFFICES ASSUME Settled, CallsTyped, RemotesTyped, Delivered, [Next]_vars
             PROVE  Delivered'
  OBVIOUS
<1>1. CASE UNCHANGED vars
  <2>1. /\ pc' = pc /\ req' = req /\ frames' = frames /\ rows' = rows
        /\ result' = result /\ saw' = saw
    BY <1>1 DEF vars
  <2>2. DOMAIN rows' = Calls /\ DOMAIN saw' = Calls
    BY <2>1 DEF Delivered
  <2>3. ASSUME NEW c \in Calls PROVE Framed(c)' /\ Stands(c)'
    <3>1. Framed(c) /\ Stands(c)
      BY DEF Delivered
    <3> QED
      BY <2>1, <3>1 DEF Framed, Stands
  <2> QED
    BY <2>2, <2>3 DEF Delivered
<1>2. ASSUME NEW d \in Calls, CallManager(d) \/ CallReader(d)
      PROVE  Delivered'
  <2>1. PICK r \in Requests : Called(d, r)
    BY <1>2 DEF CallManager, CallReader, Requests
  <2> QED
    BY <2>1, CallDelivered
<1>3. ASSUME NEW d \in Calls, Native(d)
      PROVE  Delivered'
  BY <1>3, NativeDelivered
<1>4. ASSUME NEW d \in Calls, Deliver(d)
      PROVE  Delivered'
  BY <1>4, RowDelivered, EndDelivered DEF Deliver
<1> QED
  BY <1>1, <1>2, <1>3, <1>4 DEF Next

LEMMA DeliveredHolds == Safety => []Delivered
<1>1. Init => Delivered
  BY DeliveredInit
<1>2. Settled /\ CallsTyped /\ RemotesTyped /\ Delivered /\ [Next]_vars => Delivered'
  BY DeliveredStep
<1> QED
  BY <1>1, <1>2, SettledHolds, TypedHolds, PTL DEF Safety

\* The state has its types, a remote that is configured is complete, a call
\* has frames between the posting and the last of them only, and no future is
\* left open when its port closes (RemoteCrud: FlatpakRemoteManager,
\* _listenForResult() and the listeners of FlatpakInstallation).
THEOREM RemotesTypeCorrect == Safety => []TypeOK
<1>1. CallsTyped /\ RemotesTyped /\ Delivered => TypeOK
  BY DEF CallsTyped, RemotesTyped, WellFormed, Places, Delivered, Framed, TypeOK
<1> QED
  BY <1>1, TypedHolds, DeliveredHolds, PTL

\* A read has succeeded with the whole answer.
LEMMA Complete ==
  ASSUME Settled, Delivered, NEW c \in Calls, result[c] = "ok", req[c].op \in Reading
  PROVE  AList(saw[c]) /\ rows[c] = Answer(req[c], saw[c])
<1> DEFINE r == req[c]
           told == saw[c]
<1>1. Underway(c) /\ Stands(c)
  BY DEF Settled, Delivered
<1>2. pc[c] # "idle" /\ pc[c] # "called"
  BY <1>1 DEF Underway
<1>3. CASE Streams(r, told, frames[c], rows[c], result[c])
  <2>1. AList(told) /\ (r.op \in {"first", "last"} => Cardinality(Wanted(r, told)) = 1)
    BY <1>3 DEF Streams
  <2>2. PICK k \in 0..Cardinality(Wanted(r, told)) :
          /\ rows[c] = Prefix(Answer(r, told), k)
          /\ result[c] = IF r.op = "first" /\ k = 1 THEN "ok" ELSE "none"
    BY <1>3 DEF Streams
  <2>3. r.op = "first" /\ k = 1
    BY <2>2
  <2>4. k = Cardinality(Wanted(r, told))
    BY <2>1, <2>3
  <2>5. Prefix(Answer(r, told), k) = Answer(r, told)
    BY <2>1, <2>4, AnswerIs
  <2> QED
    BY <2>1, <2>2, <2>5
<1>4. CASE Batches(r, told, frames[c], rows[c], result[c])
  BY <1>4 DEF Batches
<1> QED
  BY <1>1, <1>2, <1>3, <1>4 DEF Stands

\* A read that succeeds returns what libflatpak told at one moment of the
\* call: every row the caller asked for, once and in the order told, every
\* field under its own name, whatever is configured in the meantime and
\* however the frames of other calls come in between (write_binary() and
\* GlazeCodec, the filters of list_apps() and list_remote_apps(), the
\* listeners of FlatpakInstallation).
THEOREM ReadsFaithful == Safety => []ReadsAreFaithful
<1>1. Settled /\ Delivered => ReadsAreFaithful
  <2> SUFFICES ASSUME Settled, Delivered,
                      NEW c \in Calls, result[c] = "ok", req[c].op \in {"list", "first", "last"}
               PROVE  LET wanted == Wanted(req[c], saw[c])
                      IN  /\ Len(rows[c]) = Cardinality(wanted)
                          /\ \A i \in wanted :
                               LET row == rows[c][Cardinality({j \in wanted : j <= i})]
                                   fields == {Layouts[req[c].table][k][1] :
                                                k \in DOMAIN Layouts[req[c].table]}
                               IN  DOMAIN row = fields /\ \A f \in fields : row[f] = saw[c][i][f]
    BY DEF ReadsAreFaithful
  <2> DEFINE told == saw[c]
             wanted == Wanted(req[c], told)
             n == Cardinality(wanted)
             layout == Layouts[req[c].table]
             passed == Filtered(told, wanted)
  <2>1. AList(told) /\ rows[c] = Answer(req[c], told)
    BY Complete DEF Reading
  <2>2. Len(told) \in Nat /\ DOMAIN told = 1..Len(told)
    BY <2>1, ListIs DEF AList
  <2>3. wanted \subseteq 1..Len(told)
    BY <2>2 DEF Wanted
  <2>4. /\ n \in Nat
        /\ \A i \in wanted : Rank(wanted, i) \in 1..n /\ passed[Rank(wanted, i)] = told[i]
    <3> HIDE DEF wanted, told, passed
    <3>0. wanted \in SUBSET (1..Len(told))
      BY <2>3
    <3>1. n \in Nat /\ \A i \in wanted : Rank(wanted, i) \in 1..n
      BY <2>2, <2>3, Ranked
    <3>2. \A i \in wanted : passed[Rank(wanted, i)] = told[i]
      BY <2>2, <3>0, FilteredAt DEF passed
    <3> QED
      BY <3>1, <3>2
  <2>5. rows[c] = [i \in 1..n |-> Fielded(layout, passed[i])]
    BY <2>1 DEF Answer
  <2> HIDE DEF n, passed, wanted, layout, told
  <2>6. Len(rows[c]) = n
    BY <2>4, <2>5
  <2>7. ASSUME NEW i \in wanted
        PROVE  /\ DOMAIN rows[c][Rank(wanted, i)] = NamesIn(layout)
               /\ \A f \in NamesIn(layout) : rows[c][Rank(wanted, i)][f] = told[i][f]
    <3>1. rows[c][Rank(wanted, i)] = Fielded(layout, told[i])
      BY <2>4, <2>5
    <3> QED
      BY <3>1 DEF Fielded
  <2> QED
    BY <2>6, <2>7 DEF n, wanted, layout, told, Rank, NamesIn
<1> QED
  BY <1>1, SettledHolds, DeliveredHolds, PTL

=============================================================================
