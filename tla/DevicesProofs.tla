--------------------------- MODULE DevicesProofs ---------------------------
(***************************************************************************)
(* Proofs about Devices, for any devices, groups and calls.                *)
(*                                                                         *)
(* The inductive invariant:                                                *)
(*   - CallInv: the record of each call agrees with its next step: what it *)
(*     erased are the devices before the one at hand, its command has run  *)
(*     or not as its method has it, and its answer tells so;               *)
(*   - ExclInv: a call that writes has its device open with O_EXCL, and    *)
(*     nobody else has a device of a create or add open unless the call is *)
(*     marked as disturbed;                                                *)
(*   - MemberInv: a device with the label of a group is a member of it.    *)
(***************************************************************************)
EXTENDS Devices, FiniteSetTheorems, TLAPS

-----------------------------------------------------------------------------
Lists == {s \in UNION {[1..n -> Devices] : n \in 0..Cardinality(Devices)} :
            IsInjective(s)}

\* The first n devices of a list.
Prefix(s, n) == {s[i] : i \in 1..n}

\* The record of a call by its fields.
IsCall(r) ==
  /\ DOMAIN r = {"method", "vg", "on", "devices", "at", "step", "answer",
                 "erased", "ran", "disturbed"}
  /\ r = [f \in DOMAIN r |-> r[f]]
  /\ r.method \in {"none", "create", "add", "delete", "remove"}
  /\ r.vg \in VGs
  /\ r.on \in Devices
  /\ r.devices \in Lists
  /\ r.at \in Nat
  /\ r.at <= Len(r.devices)
  /\ r.step \in {"none", "open", "write", "wipefs", "command", "late", "end"}
  /\ r.answer \in {"none", "success", "error", "cancelled"}
  /\ r.erased \in SUBSET Devices
  /\ r.ran \in BOOLEAN
  /\ r.disturbed \in BOOLEAN

WipesFirst(r) == r.method \in {"create", "add"}
WipesLast(r)  == r.method \in {"delete", "remove"}

\* What the record of a call says at each of its steps.
WhileWiping(r) ==
  /\ WipesFirst(r) \/ WipesLast(r)
  /\ r.at \in 1..Len(r.devices)
  /\ r.answer = "none"
  /\ r.ran <=> WipesLast(r)
  /\ r.erased = Prefix(r.devices, r.at - 1)

BeforeCommand(r) ==
  /\ WipesFirst(r) \/ WipesLast(r)
  /\ r.answer = "none"
  /\ ~r.ran
  /\ WipesFirst(r) => r.erased = ToSet(r.devices)
  /\ WipesLast(r) => r.erased = {}

WhileLate(r) ==
  /\ r.method = "add"
  /\ r.answer = "cancelled"
  /\ ~r.ran
  /\ r.erased = ToSet(r.devices)

AtEnd(r) ==
  /\ r.answer \in {"success", "error"} =>
       (r.answer = "success" <=> r.ran /\ r.erased = ToSet(r.devices))
  /\ r.answer = "cancelled" =>
       IF r.method = "add" THEN r.erased = ToSet(r.devices)
                           ELSE ~r.ran /\ r.erased = {}
  /\ WipesFirst(r) /\ r.answer \in {"error", "cancelled"} =>
       r.erased \in {{}, ToSet(r.devices)} \/ r.disturbed

GoodCall(r) ==
  /\ IsCall(r)
  /\ r.step = "none" => r.method = "none" /\ r.answer = "none"
  /\ r.step \in {"open", "write", "wipefs"} => WhileWiping(r)
  /\ r.step = "command" => BeforeCommand(r)
  /\ r.step = "late" => WhileLate(r)
  /\ r.step = "end" => AtEnd(r)

CallInv ==
  /\ call = [c \in Calls |-> call[c]]
  /\ \A c \in Calls : GoodCall(call[c])

\* The devices of call c and who has them open.
ExclOf(c) ==
  /\ call[c].step = "write" => excl[At(c)] = c
  /\ c \in Running /\ WipesFirst(call[c]) /\ ~call[c].disturbed =>
       \A d \in ToSet(call[c].devices) :
         \/ excl[d] = "none"
         \/ excl[d] = c /\ call[c].step = "write" /\ d = At(c)

ExclInv == \A c \in Calls : ExclOf(c)

MemberInv == \A d \in Devices : disk[d] \in VGs => d \in member[disk[d]]

Typed ==
  /\ disk \in [Devices -> {"blank", "data", "pv"} \cup VGs]
  /\ member \in [VGs -> SUBSET Devices]
  /\ excl \in [Devices -> {"none", "active", "user"} \cup Calls]
  /\ link \in [Devices -> VGs \cup {"none"}]
  /\ main \in Calls \cup {"none"}

IndInv ==
  /\ Typed
  /\ CallInv
  /\ ExclInv
  /\ MemberInv

-----------------------------------------------------------------------------
\* A list of devices by its places.
LEMMA ListFacts ==
  ASSUME NEW s \in Lists
  PROVE  /\ Len(s) \in Nat
         /\ DOMAIN s = 1..Len(s)
         /\ \A i \in 1..Len(s) : s[i] \in Devices
         /\ \A i, j \in 1..Len(s) : s[i] = s[j] => i = j
         /\ ToSet(s) = {s[i] : i \in 1..Len(s)}
         /\ ToSet(s) \subseteq Devices
<1>1. PICK n \in 0..Cardinality(Devices) : s \in [1..n -> Devices] BY DEF Lists
<1>2. n \in Nat
  BY FiniteAssumption, FS_CardinalityType
<1>3. s \in Seq(Devices) /\ Len(s) = n BY <1>1, <1>2
<1>4. \A i, j \in 1..n : s[i] = s[j] => i = j BY <1>1 DEF Lists, IsInjective
<1>5. QED BY <1>1, <1>2, <1>3, <1>4 DEF ToSet

\* What was erased before a device, and with it.
LEMMA PrefixFacts ==
  ASSUME NEW s \in Lists
  PROVE  /\ Prefix(s, 0) = {}
         /\ Prefix(s, Len(s)) = ToSet(s)
         /\ \A n \in 1..Len(s) :
              /\ Prefix(s, n) = Prefix(s, n - 1) \cup {s[n]}
              /\ s[n] \notin Prefix(s, n - 1)
              /\ s[n] \in Devices
              /\ s[n] \in ToSet(s)
              /\ Prefix(s, n - 1) \subseteq Devices
<1>1. Prefix(s, 0) = {} BY DEF Prefix
<1>2. Prefix(s, Len(s)) = ToSet(s) BY ListFacts DEF Prefix
<1>3. ASSUME NEW n \in 1..Len(s)
      PROVE  /\ Prefix(s, n) = Prefix(s, n - 1) \cup {s[n]}
             /\ s[n] \notin Prefix(s, n - 1)
             /\ s[n] \in Devices
             /\ s[n] \in ToSet(s)
             /\ Prefix(s, n - 1) \subseteq Devices
  <2>1. Len(s) \in Nat /\ n \in Nat BY ListFacts
  <2>2. 1..n = 1..(n - 1) \cup {n} BY <2>1
  <2>3. 1..(n - 1) \subseteq 1..Len(s) /\ n \notin 1..(n - 1) BY <2>1
  <2>4. Prefix(s, n) = Prefix(s, n - 1) \cup {s[n]} BY <2>2 DEF Prefix
  <2>5. s[n] \notin Prefix(s, n - 1) BY <2>3, ListFacts DEF Prefix
  <2>6. Prefix(s, n - 1) \subseteq Devices BY <2>3, ListFacts DEF Prefix
  <2>7. QED BY <2>4, <2>5, <2>6, ListFacts
<1>4. QED BY <1>1, <1>2, <1>3

\* The lists that the handlers make.
LEMMA ListsMade ==
  /\ <<>> \in Lists
  /\ \A d \in Devices : <<d>> \in Lists
  /\ \A S \in SUBSET Devices : \A s \in SetToSeqs(S) : s \in Lists
<1>1. Cardinality(Devices) \in Nat BY FiniteAssumption, FS_CardinalityType
<1>2. <<>> \in Lists
  <2>1. <<>> \in [1..0 -> Devices] OBVIOUS
  <2>2. QED BY <1>1, <2>1 DEF Lists, IsInjective
<1>3. ASSUME NEW d \in Devices PROVE <<d>> \in Lists
  <2>1. <<d>> \in [1..1 -> Devices] OBVIOUS
  <2>2. Cardinality(Devices) # 0 BY FiniteAssumption, FS_EmptySet
  <2>3. 1 \in 0..Cardinality(Devices) BY <1>1, <2>2
  <2>4. QED BY <2>1, <2>3 DEF Lists, IsInjective
<1>4. ASSUME NEW S \in SUBSET Devices, NEW s \in SetToSeqs(S) PROVE s \in Lists
  <2>1. Cardinality(S) \in 0..Cardinality(Devices)
    <3>1. IsFiniteSet(S) /\ Cardinality(S) <= Cardinality(Devices)
      BY FiniteAssumption, FS_Subset
    <3>2. QED BY <1>1, <3>1, FS_CardinalityType
  <2>2. s \in [1..Cardinality(S) -> Devices] BY DEF SetToSeqs
  <2>3. IsInjective(s) BY <2>2 DEF SetToSeqs, IsInjective
  <2>4. QED BY <2>1, <2>2, <2>3 DEF Lists
<1>5. QED BY <1>2, <1>3, <1>4

-----------------------------------------------------------------------------
\* The records of calls.

\* The record of a call before its first step.
Filled(m, v, d, s) ==
  [NoCall EXCEPT !.method = m, !.vg = v, !.on = d, !.devices = s]

\* The empty record.
LEMMA NoCallFields ==
  /\ GoodCall(NoCall)
  /\ NoCall.step = "none" /\ NoCall.method = "none" /\ NoCall.answer = "none"
  /\ NoCall.at = 0 /\ NoCall.devices = <<>> /\ NoCall.erased = {}
  /\ ~NoCall.ran /\ ~NoCall.disturbed
<1> DEFINE v0 == CHOOSE x \in VGs : TRUE
<1> DEFINE d0 == CHOOSE x \in Devices : TRUE
<1>1. v0 \in VGs /\ d0 \in Devices BY FiniteAssumption
<1>2. NoCall = [method |-> "none", vg |-> v0, on |-> d0, devices |-> <<>>, at |-> 0,
                step |-> "none", answer |-> "none", erased |-> {}, ran |-> FALSE,
                disturbed |-> FALSE]
  BY DEF NoCall
<1> HIDE DEF v0, d0
<1>3. <<>> \in Lists /\ Len(<<>>) = 0 BY ListsMade
<1>4. IsCall(NoCall)
  <2>1. /\ DOMAIN NoCall = {"method", "vg", "on", "devices", "at", "step", "answer",
                            "erased", "ran", "disturbed"}
        /\ NoCall = [f \in DOMAIN NoCall |-> NoCall[f]]
        /\ NoCall.method = "none" /\ NoCall.vg = v0 /\ NoCall.on = d0
        /\ NoCall.devices = <<>> /\ NoCall.at = 0 /\ NoCall.step = "none"
        /\ NoCall.answer = "none" /\ NoCall.erased = {} /\ NoCall.ran = FALSE
        /\ NoCall.disturbed = FALSE
    BY <1>2
  <2>2. NoCall.devices \in Lists /\ NoCall.at <= Len(NoCall.devices) BY <1>3, <2>1
  <2>3. NoCall.ran \in BOOLEAN /\ NoCall.disturbed \in BOOLEAN BY <2>1
  <2>4. NoCall.at \in Nat /\ NoCall.erased \in SUBSET Devices BY <2>1
  <2>5. QED BY <1>1, <2>1, <2>2, <2>3, <2>4 DEF IsCall
<1>5. GoodCall(NoCall) BY <1>2, <1>4 DEF GoodCall
<1>6. QED BY <1>2, <1>5

\* One that was just filled in.
LEMMA FilledFields ==
  ASSUME NEW m \in {"create", "add", "delete", "remove"}, NEW v \in VGs,
         NEW d \in Devices, NEW devices \in Lists
  PROVE  LET r == Filled(m, v, d, devices)
         IN  /\ IsCall(r) /\ r.method = m /\ r.devices = devices
             /\ r.answer = "none" /\ r.erased = {} /\ ~r.ran /\ ~r.disturbed
<1> DEFINE r == Filled(m, v, d, devices)
<1>1. IsCall(NoCall) BY NoCallFields DEF GoodCall
<1>2. DOMAIN NoCall = {"method", "vg", "on", "devices", "at", "step", "answer",
                       "erased", "ran", "disturbed"}
  BY <1>1 DEF IsCall
<1>3. /\ DOMAIN r = DOMAIN NoCall /\ r = [f \in DOMAIN r |-> r[f]]
      /\ r.method = m /\ r.vg = v /\ r.on = d /\ r.devices = devices
      /\ r.at = NoCall.at /\ r.step = NoCall.step /\ r.answer = NoCall.answer
      /\ r.erased = NoCall.erased /\ r.ran = NoCall.ran
      /\ r.disturbed = NoCall.disturbed
  BY <1>2 DEF Filled
<1> HIDE DEF r
<1>4. r.devices \in Lists /\ r.at <= Len(r.devices)
  BY <1>3, ListFacts, NoCallFields
<1>5. IsCall(r) BY <1>1, <1>2, <1>3, <1>4 DEF IsCall
<1>6. QED BY <1>3, <1>5, NoCallFields DEF r

\* The ways in which a step changes a record.
GoesTo(r, n, step) == [r EXCEPT !.at = n, !.step = step]
Goes(r, step)      == [r EXCEPT !.step = step]
Marked(r)          == [r EXCEPT !.disturbed = TRUE]
HasRun(r)          == [r EXCEPT !.ran = TRUE]
Erases(r, S)       == [r EXCEPT !.erased = @ \cup S]

\* Records of the same call.
Like(q, r) ==
  /\ q.method = r.method
  /\ q.vg = r.vg
  /\ q.on = r.on
  /\ q.devices = r.devices

\* The next device of a wipe.
LEMMA GoesToFields ==
  ASSUME NEW r, IsCall(r),
         NEW n \in 0..Len(r.devices),
         NEW step \in {"open", "write", "wipefs", "command", "late", "end"}
  PROVE  LET q == GoesTo(r, n, step)
         IN  /\ IsCall(q) /\ Like(q, r) /\ q.at = n /\ q.step = step
             /\ q.answer = r.answer /\ q.erased = r.erased
             /\ q.ran = r.ran /\ q.disturbed = r.disturbed
<1>1. Len(r.devices) \in Nat BY ListFacts DEF IsCall
<1>2. n \in Nat /\ n <= Len(r.devices) BY <1>1
<1>3. QED BY <1>2 DEF GoesTo, Like, IsCall
\* The next step.
LEMMA GoesFields ==
  ASSUME NEW r, IsCall(r),
         NEW step \in {"open", "write", "wipefs", "command", "late", "end"}
  PROVE  LET q == Goes(r, step)
         IN  /\ IsCall(q) /\ Like(q, r) /\ q.at = r.at /\ q.step = step
             /\ q.answer = r.answer /\ q.erased = r.erased
             /\ q.ran = r.ran /\ q.disturbed = r.disturbed
BY DEF Goes, Like, IsCall
\* The answer.
LEMMA EndedFields ==
  ASSUME NEW r, IsCall(r), NEW answer \in {"success", "error", "cancelled"}
  PROVE  LET q == Ended(r, answer)
         IN  /\ IsCall(q) /\ Like(q, r) /\ q.at = r.at /\ q.step = "end"
             /\ q.answer = answer /\ q.erased = r.erased
             /\ q.ran = r.ran /\ q.disturbed = r.disturbed
BY DEF Ended, Like, IsCall

\* Somebody else came in between.
LEMMA MarkedFields ==
  ASSUME NEW r, IsCall(r)
  PROVE  LET q == Marked(r)
         IN  /\ IsCall(q) /\ Like(q, r) /\ q.at = r.at /\ q.step = r.step
             /\ q.answer = r.answer /\ q.erased = r.erased
             /\ q.ran = r.ran /\ q.disturbed
BY DEF Marked, Like, IsCall
\* The command has run.
LEMMA HasRunFields ==
  ASSUME NEW r, IsCall(r)
  PROVE  LET q == HasRun(r)
         IN  /\ IsCall(q) /\ Like(q, r) /\ q.at = r.at /\ q.step = r.step
             /\ q.answer = r.answer /\ q.erased = r.erased
             /\ q.ran /\ q.disturbed = r.disturbed
BY DEF HasRun, Like, IsCall
\* Devices were erased.
LEMMA ErasesFields ==
  ASSUME NEW r, IsCall(r), NEW S \in SUBSET Devices
  PROVE  LET q == Erases(r, S)
         IN  /\ IsCall(q) /\ Like(q, r) /\ q.at = r.at /\ q.step = r.step
             /\ q.answer = r.answer /\ q.erased = r.erased \cup S
             /\ q.ran = r.ran /\ q.disturbed = r.disturbed
BY DEF Erases, Like, IsCall

-----------------------------------------------------------------------------
\* What the helpers of the model make of a good record.

\* A wipe goes on with device n, or is over.
LEMMA WipeFromGood ==
  ASSUME NEW r, IsCall(r), WipesFirst(r) \/ WipesLast(r),
         NEW n \in 1..(Len(r.devices) + 1),
         r.answer = "none", r.ran <=> WipesLast(r),
         r.erased = Prefix(r.devices, n - 1)
  PROVE  LET q == WipeFrom(r, n)
         IN  /\ GoodCall(q) /\ Like(q, r) /\ q.disturbed = r.disturbed
             /\ q.step \notin {"none", "write"} /\ q.ran = r.ran
<1>1. r.devices \in Lists /\ Len(r.devices) \in Nat /\ n \in Nat
  BY ListFacts DEF IsCall
<1>2. CASE n <= Len(r.devices)
  <2>1. PICK step \in {"open", "write", "wipefs", "command", "late", "end"} :
          step = IF r.method = "remove" THEN "wipefs" ELSE "open"
    OBVIOUS
  <2>2. n \in 0..Len(r.devices) /\ n \in 1..Len(r.devices) BY <1>1, <1>2
  <2> DEFINE q == GoesTo(r, n, step)
  <2>3. WipeFrom(r, n) = q BY <1>2, <2>1 DEF WipeFrom, GoesTo
  <2>4. /\ IsCall(q) /\ Like(q, r) /\ q.at = n /\ q.step = step
        /\ q.answer = r.answer /\ q.erased = r.erased /\ q.ran = r.ran
        /\ q.disturbed = r.disturbed
    BY <2>2, GoesToFields
  <2> HIDE DEF q
  <2>5. WhileWiping(q) BY <2>2, <2>4 DEF WhileWiping, Like, WipesFirst, WipesLast
  <2>6. q.step \in {"open", "wipefs"} BY <2>1, <2>4
  <2>7. GoodCall(q) BY <2>4, <2>5, <2>6 DEF GoodCall
  <2>8. QED BY <2>3, <2>4, <2>6, <2>7
<1>3. CASE ~(n <= Len(r.devices))
  <2>1. n - 1 = Len(r.devices) BY <1>1, <1>3
  <2>2. r.erased = ToSet(r.devices) BY <1>1, <2>1, PrefixFacts
  <2>3. CASE WipesFirst(r)
    <3>1. PICK step \in {"open", "write", "wipefs", "command", "late", "end"} :
            step = "command"
      OBVIOUS
    <3>2. 0 \in 0..Len(r.devices) BY <1>1
    <3> DEFINE q == GoesTo(r, 0, step)
    <3>3. WipeFrom(r, n) = q BY <1>3, <2>3, <3>1 DEF WipeFrom, GoesTo, WipesFirst
    <3>4. /\ IsCall(q) /\ Like(q, r) /\ q.at = 0 /\ q.step = step
          /\ q.answer = r.answer /\ q.erased = r.erased /\ q.ran = r.ran
          /\ q.disturbed = r.disturbed
      BY <3>2, GoesToFields
    <3> HIDE DEF q
    <3>5. ~WipesLast(r) BY <2>3 DEF WipesFirst, WipesLast
    <3>6. BeforeCommand(q)
      BY <2>2, <2>3, <3>4, <3>5 DEF BeforeCommand, Like, WipesFirst, WipesLast
    <3>7. GoodCall(q) BY <3>1, <3>4, <3>6 DEF GoodCall
    <3>8. QED BY <3>1, <3>3, <3>4, <3>7
  <2>4. CASE WipesLast(r)
    <3>1. PICK answer \in {"success", "error", "cancelled"} : answer = "success" OBVIOUS
    <3>2. ~WipesFirst(r) BY <2>4 DEF WipesFirst, WipesLast
    <3> DEFINE q == Ended(r, answer)
    <3>3. WipeFrom(r, n) = q BY <1>3, <3>1, <3>2 DEF WipeFrom, WipesFirst
    <3>4. /\ IsCall(q) /\ Like(q, r) /\ q.at = r.at /\ q.step = "end"
          /\ q.answer = answer /\ q.erased = r.erased /\ q.ran = r.ran
          /\ q.disturbed = r.disturbed
      BY EndedFields
    <3> HIDE DEF q
    <3>5. AtEnd(q) BY <2>2, <2>4, <3>1, <3>2, <3>4 DEF AtEnd, Like, WipesFirst
    <3>6. GoodCall(q) BY <3>4, <3>5 DEF GoodCall
    <3>7. QED BY <3>3, <3>4, <3>6
  <2>5. QED BY <2>3, <2>4
<1>4. QED BY <1>2, <1>3

\* A wipe ends early.
LEMMA WipeEndsGood ==
  ASSUME NEW r, GoodCall(r), r.step \in {"open", "write", "wipefs"},
         WipesFirst(r) => r.disturbed
  PROVE  LET q == Ended(r, "error")
         IN  /\ GoodCall(q) /\ Like(q, r) /\ q.step = "end"
<1>1. WhileWiping(r) /\ IsCall(r) BY DEF GoodCall
<1>2. PICK answer \in {"success", "error", "cancelled"} : answer = "error" OBVIOUS
<1> DEFINE q == Ended(r, answer)
<1>3. /\ IsCall(q) /\ Like(q, r) /\ q.at = r.at /\ q.step = "end"
      /\ q.answer = answer /\ q.erased = r.erased /\ q.ran = r.ran
      /\ q.disturbed = r.disturbed
  BY <1>1, EndedFields
<1>4. r.erased # ToSet(r.devices)
  <2>1. r.devices \in Lists /\ r.at \in 1..Len(r.devices)
    BY <1>1 DEF IsCall, WhileWiping
  <2>2. QED BY <1>1, <2>1, PrefixFacts DEF WhileWiping
<1> HIDE DEF q
<1>5. AtEnd(q) BY <1>2, <1>3, <1>4 DEF AtEnd, Like, WipesFirst
<1>6. GoodCall(q) BY <1>3, <1>5 DEF GoodCall
<1>7. QED BY <1>2, <1>3, <1>6 DEF q

\* A call is let in.
LEMMA LaunchedGood ==
  ASSUME NEW m \in {"create", "add", "delete", "remove"}, NEW v \in VGs,
         NEW d \in Devices, NEW devices \in Lists
  PROVE  LET q == Launched(m, v, d, devices)
         IN  /\ GoodCall(q) /\ q.method = m /\ q.devices = devices
             /\ q.step \notin {"none", "write"}
<1> DEFINE r == Filled(m, v, d, devices)
<1>1. /\ IsCall(r) /\ r.method = m /\ r.devices = devices
      /\ r.answer = "none" /\ r.erased = {} /\ ~r.ran /\ ~r.disturbed
  BY FilledFields
<1>2. Launched(m, v, d, devices) = IF m \in {"create", "add"} THEN WipeFrom(r, 1)
                                                        ELSE Goes(r, "command")
  BY DEF Launched, Filled, Goes
<1> HIDE DEF r
<1>3. CASE m \in {"create", "add"}
  <2>1. WipesFirst(r) /\ ~WipesLast(r) BY <1>1, <1>3 DEF WipesFirst, WipesLast
  <2>2. PICK n \in 1..(Len(r.devices) + 1) : n = 1 BY <1>1, ListFacts
  <2>3. r.erased = Prefix(r.devices, n - 1) BY <1>1, <2>2, PrefixFacts
  <2> DEFINE q == WipeFrom(r, n)
  <2>4. GoodCall(q) /\ Like(q, r) /\ q.step \notin {"none", "write"}
    BY <1>1, <2>1, <2>3, WipeFromGood
  <2>5. Launched(m, v, d, devices) = q BY <1>2, <1>3, <2>2
  <2> HIDE DEF q
  <2>6. QED BY <1>1, <2>4, <2>5 DEF Like
<1>4. CASE m \in {"delete", "remove"}
  <2>1. ~WipesFirst(r) /\ WipesLast(r) BY <1>1, <1>4 DEF WipesFirst, WipesLast
  <2>2. PICK step \in {"open", "write", "wipefs", "command", "late", "end"} :
          step = "command"
    OBVIOUS
  <2> DEFINE q == Goes(r, step)
  <2>3. /\ IsCall(q) /\ Like(q, r) /\ q.step = step /\ q.answer = r.answer
        /\ q.erased = r.erased /\ q.ran = r.ran
    BY <1>1, GoesFields
  <2>4. Launched(m, v, d, devices) = q BY <1>2, <1>4, <2>2
  <2> HIDE DEF q
  <2>5. BeforeCommand(q)
    BY <1>1, <2>1, <2>3 DEF BeforeCommand, Like, WipesFirst, WipesLast
  <2>6. GoodCall(q) BY <2>2, <2>3, <2>5 DEF GoodCall
  <2>7. QED BY <1>1, <2>2, <2>3, <2>4, <2>6 DEF Like
<1>5. QED BY <1>3, <1>4

\* A call is refused.
LEMMA RefusedGood ==
  ASSUME NEW m \in {"create", "add", "delete", "remove"}, NEW v \in VGs,
         NEW d \in Devices
  PROVE  GoodCall(Refused(m, v, d)) /\ Refused(m, v, d).step = "end"
<1>1. IsCall(NoCall) BY NoCallFields DEF GoodCall
<1> DEFINE q == Refused(m, v, d)
<1>2. /\ IsCall(q) /\ q.step = "end" /\ q.answer = "error" /\ q.ran = NoCall.ran
      /\ q.erased = NoCall.erased
  <2>1. DOMAIN NoCall = {"method", "vg", "on", "devices", "at", "step", "answer",
                         "erased", "ran", "disturbed"}
    BY <1>1 DEF IsCall
  <2>2. /\ DOMAIN q = DOMAIN NoCall /\ q = [f \in DOMAIN q |-> q[f]]
        /\ q.method = m /\ q.vg = v /\ q.on = d /\ q.devices = NoCall.devices
        /\ q.at = NoCall.at /\ q.step = "end" /\ q.answer = "error"
        /\ q.erased = NoCall.erased /\ q.ran = NoCall.ran
        /\ q.disturbed = NoCall.disturbed
    BY <2>1 DEF Refused
  <2> HIDE DEF q
  <2>3. QED BY <1>1, <2>1, <2>2 DEF IsCall
<1> HIDE DEF q
<1>3. AtEnd(q) BY <1>2, NoCallFields DEF AtEnd
<1>4. GoodCall(q) BY <1>2, <1>3 DEF GoodCall
<1>5. QED BY <1>2, <1>4 DEF q

-----------------------------------------------------------------------------
\* A step of "who" (a call or a user), which touches the devices in S, leaves
\* the other calls as they are, or marks them.
SameCall(q, r) ==
  /\ IsCall(q)
  /\ Like(q, r)
  /\ q.at = r.at
  /\ q.step = r.step
  /\ q.answer = r.answer
  /\ q.erased = r.erased
  /\ q.ran = r.ran
  /\ r.disturbed => q.disturbed

Moves(who, S) ==
  /\ call' = [c \in Calls |-> call'[c]]
  /\ \A c \in Calls \ {who} :
       /\ SameCall(call'[c], call[c])
       /\ c \in Running /\ ToSet(call[c].devices) \cap S # {} => call'[c].disturbed

\* Marking a call keeps its record good.
LEMMA SameGood ==
  ASSUME NEW q, NEW r, GoodCall(r), SameCall(q, r)
  PROVE  GoodCall(q)
<1>1. /\ IsCall(q) /\ IsCall(r) /\ q.method = r.method /\ q.devices = r.devices
      /\ q.at = r.at /\ q.step = r.step /\ q.answer = r.answer
      /\ q.erased = r.erased /\ q.ran = r.ran /\ (r.disturbed => q.disturbed)
  BY DEF SameCall, Like, GoodCall
<1>2. r.step = "none" => r.method = "none" /\ r.answer = "none" BY DEF GoodCall
<1>3. r.step \in {"open", "write", "wipefs"} => WhileWiping(q)
  BY <1>1 DEF GoodCall, WhileWiping, WipesFirst, WipesLast
<1>4. r.step = "command" => BeforeCommand(q)
  BY <1>1 DEF GoodCall, BeforeCommand, WipesFirst, WipesLast
<1>5. r.step = "end" => AtEnd(q) BY <1>1 DEF GoodCall, AtEnd, WipesFirst
<1>6. r.step = "late" => WhileLate(q) BY <1>1 DEF GoodCall, WhileLate
<1>7. QED BY <1>1, <1>2, <1>3, <1>4, <1>5, <1>6 DEF GoodCall

\* What Disturbed does.
LEMMA DisturbedFacts ==
  ASSUME IndInv, NEW S, NEW who
  PROVE  /\ Disturbed(S, who) = [c \in Calls |-> Disturbed(S, who)[c]]
         /\ \A c \in Calls :
              /\ SameCall(Disturbed(S, who)[c], call[c])
              /\ c \in Running /\ c # who /\ ToSet(call[c].devices) \cap S # {}
                   => Disturbed(S, who)[c].disturbed
<1>1. Disturbed(S, who) = [c \in Calls |-> Disturbed(S, who)[c]] BY DEF Disturbed
<1>2. ASSUME NEW c \in Calls
      PROVE  /\ SameCall(Disturbed(S, who)[c], call[c])
             /\ c \in Running /\ c # who /\ ToSet(call[c].devices) \cap S # {}
                  => Disturbed(S, who)[c].disturbed
  <2> DEFINE q == Disturbed(S, who)[c]
  <2> DEFINE r == call[c]
  <2>1. q = IF c \in Running /\ c # who /\ ToSet(r.devices) \cap S # {}
            THEN Marked(r) ELSE r
    BY DEF Disturbed, Marked
  <2>2. IsCall(r) BY DEF IndInv, CallInv, GoodCall
  <2>3. /\ IsCall(Marked(r)) /\ Like(Marked(r), r) /\ Marked(r).at = r.at
        /\ Marked(r).step = r.step /\ Marked(r).answer = r.answer
        /\ Marked(r).erased = r.erased /\ Marked(r).ran = r.ran
        /\ Marked(r).disturbed
    BY <2>2, MarkedFields
  <2> HIDE DEF q, r
  <2>4. SameCall(Marked(r), r) BY <2>3 DEF SameCall
  <2>5. SameCall(r, r) BY <2>2 DEF SameCall, Like
  <2>6. QED BY <2>1, <2>3, <2>4, <2>5 DEF q, r
<1>3. QED BY <1>1, <1>2

\* The calls after a step of call c, whose record becomes r.
LEMMA StepMoves ==
  ASSUME IndInv, NEW c \in Calls, NEW S, NEW r,
         \/ call' = [call EXCEPT ![c] = r] /\ S = {}
         \/ call' = [Disturbed(S, c) EXCEPT ![c] = r]
  PROVE  Moves(c, S) /\ call'[c] = r
<1>1. CASE call' = [call EXCEPT ![c] = r] /\ S = {}
  <2>1. call = [k \in Calls |-> call[k]] /\ \A k \in Calls : IsCall(call[k])
    BY DEF IndInv, CallInv, GoodCall
  <2>2. call' = [k \in Calls |-> call'[k]] /\ call'[c] = r BY <1>1, <2>1
  <2>3. \A k \in Calls \ {c} : call'[k] = call[k] BY <1>1, <2>1
  <2>4. \A k \in Calls \ {c} : SameCall(call'[k], call[k])
    BY <2>1, <2>3 DEF SameCall, Like
  <2>5. \A k \in Calls : ToSet(call[k].devices) \cap S = {} BY <1>1
  <2>6. QED BY <2>2, <2>4, <2>5 DEF Moves
<1>2. CASE call' = [Disturbed(S, c) EXCEPT ![c] = r]
  <2> DEFINE o == Disturbed(S, c)
  <2>1. /\ o = [k \in Calls |-> o[k]]
        /\ \A k \in Calls :
             /\ SameCall(o[k], call[k])
             /\ k \in Running /\ k # c /\ ToSet(call[k].devices) \cap S # {}
                  => o[k].disturbed
    BY DisturbedFacts
  <2>2. call' = [o EXCEPT ![c] = r] BY <1>2
  <2> HIDE DEF o
  <2>3. call' = [k \in Calls |-> call'[k]] /\ call'[c] = r BY <2>1, <2>2
  <2>4. \A k \in Calls \ {c} : call'[k] = o[k] BY <2>1, <2>2
  <2>5. QED BY <2>1, <2>3, <2>4 DEF Moves
<1>3. QED BY <1>1, <1>2

\* The same for Use: all the calls are others.
LEMMA UseMoves ==
  ASSUME IndInv, NEW S, call' = Disturbed(S, "user")
  PROVE  Moves("user", S)
<1>1. \A c \in Calls : c # "user" BY NamesAssumption
<1>2. QED BY <1>1, DisturbedFacts DEF Moves

\* The other calls keep their good records and what they know of their devices.
LEMMA OthersKept ==
  ASSUME IndInv, NEW who \in Calls \cup {"user"}, NEW S, Moves(who, S),
         \A d \in Devices :
           \/ excl'[d] = excl[d]
           \/ d \in S /\ excl[d] = "none"
           \/ excl[d] \in {who, "active", "user"}
  PROVE  \A c \in Calls \ {who} : GoodCall(call'[c]) /\ ExclOf(c)'
<1> SUFFICES ASSUME NEW c \in Calls \ {who} PROVE GoodCall(call'[c]) /\ ExclOf(c)'
  OBVIOUS
<1>1. /\ SameCall(call'[c], call[c])
      /\ c \in Running /\ ToSet(call[c].devices) \cap S # {} => call'[c].disturbed
  BY DEF Moves
<1>2. GoodCall(call[c]) /\ ExclOf(c) BY DEF IndInv, CallInv, ExclInv
<1>3. GoodCall(call'[c]) BY <1>1, <1>2, SameGood
<1> DEFINE q == call'[c]
<1> DEFINE r == call[c]
<1>4. /\ q.method = r.method /\ q.devices = r.devices /\ q.at = r.at
      /\ q.step = r.step /\ (r.disturbed => q.disturbed)
  BY <1>1 DEF SameCall, Like
<1>5. c \notin {"none", "active", "user", who} BY NamesAssumption
<1>6. At(c)' = At(c) BY <1>4 DEF At
<1>7. c \in Running' <=> c \in Running BY <1>4 DEF Running
<1>8. r.step = "write" => At(c) \in Devices
  <2>1. r.step = "write" => r.at \in 1..Len(r.devices) /\ r.devices \in Lists
    BY <1>2 DEF GoodCall, WhileWiping, IsCall
  <2>2. QED BY <2>1, ListFacts DEF At
<1>9. q.step = "write" => excl'[At(c)'] = c
  BY <1>2, <1>4, <1>5, <1>6, <1>8 DEF ExclOf
<1>10. ASSUME c \in Running', WipesFirst(q), ~q.disturbed,
              NEW d \in ToSet(q.devices)
       PROVE  \/ excl'[d] = "none"
              \/ excl'[d] = c /\ q.step = "write" /\ d = At(c)'
  <2>1. c \in Running /\ WipesFirst(r) /\ ~r.disturbed /\ d \in ToSet(r.devices)
    BY <1>4, <1>7, <1>10 DEF WipesFirst
  <2>2. d \notin S BY <1>1, <1>10, <2>1
  <2>3. \/ excl[d] = "none"
        \/ excl[d] = c /\ r.step = "write" /\ d = At(c)
    BY <1>2, <2>1 DEF ExclOf
  <2>4. r.devices \in Lists BY <1>2 DEF GoodCall, IsCall
  <2>5. d \in Devices BY <2>1, <2>4, ListFacts
  <2>6. who # "none" BY NamesAssumption
  <2>7. excl'[d] = excl[d] BY <1>5, <2>2, <2>3, <2>5, <2>6
  <2>8. QED BY <1>4, <1>6, <2>3, <2>7
<1>11. ExclOf(c)' BY <1>9, <1>10 DEF ExclOf
<1>12. QED BY <1>3, <1>11

-----------------------------------------------------------------------------
\* The parts of the invariant, put together after a step of "who".
LEMMA Together ==
  ASSUME IndInv, NEW who \in Calls \cup {"user"}, NEW S, Moves(who, S),
         \A d \in Devices :
           \/ excl'[d] = excl[d]
           \/ d \in S /\ excl[d] = "none"
           \/ excl[d] \in {who, "active", "user"},
         who \in Calls => GoodCall(call'[who]) /\ ExclOf(who)',
         Typed', MemberInv'
  PROVE  IndInv'
<1>1. \A c \in Calls \ {who} : GoodCall(call'[c]) /\ ExclOf(c)' BY OthersKept
<1>2. \A c \in Calls : GoodCall(call'[c]) /\ ExclOf(c)' BY <1>1
<1>3. CallInv' BY <1>2 DEF CallInv, Moves
<1>4. ExclInv' BY <1>2 DEF ExclInv
<1>5. QED BY <1>3, <1>4 DEF IndInv

\* No device that somebody uses is changed, but for a Delete.
Survives ==
  \A d \in Devices :
    /\ excl[d] = "user" => disk'[d] = disk[d]
    /\ excl[d] = "active" /\ disk'[d] # disk[d] =>
         \E c \in Calls : /\ call[c].method = "delete"
                          /\ call[c].step = "command"
                          /\ call[c].vg = disk[d]
                          /\ call'[c].ran

\* A call is let in or refused.
LEMMA HandlerKeepsIndInv ==
  ASSUME IndInv, NEW c \in Calls, NEW r, call' = [call EXCEPT ![c] = r],
         UNCHANGED <<disk, member, excl, link>>,
         main' \in Calls \cup {"none"},
         GoodCall(r), r.step # "write",
         r.step # "end" /\ WipesFirst(r) /\ ~r.disturbed =>
           \A d \in ToSet(r.devices) : excl[d] = "none"
  PROVE  IndInv' /\ Survives
<1>1. PICK S : S = {} OBVIOUS
<1>2. Moves(c, S) /\ call'[c] = r BY <1>1, StepMoves
<1>3. ExclOf(c)' BY <1>2 DEF ExclOf, Running
<1>4. Typed' /\ MemberInv' BY DEF IndInv, Typed, MemberInv
<1>5. \A d \in Devices : excl'[d] = excl[d] OBVIOUS
<1>6. IndInv' BY <1>2, <1>3, <1>4, <1>5, Together
<1>7. QED BY <1>6 DEF Survives

\* The handlers of the four methods.
LEMMA HandlersKeepIndInv ==
  ASSUME IndInv, NEW c \in Calls, HandlerNext(c)
  PROVE  IndInv' /\ Survives
<1>1. PICK v \in VGs :
        \/ \E devices \in DeviceLists : handle_volume_group_create(c, v, devices)
        \/ \E d \in Devices : handle_add_device(c, v, d)
        \/ \E wipe \in BOOLEAN :
             \/ handle_delete(c, v, wipe)
             \/ \E d \in Devices : handle_remove_device(c, v, d, wipe)
  BY DEF HandlerNext
<1>2. PICK d0 \in Devices : d0 = NoCall.on
  BY NoCallFields DEF GoodCall, IsCall
<1>3. main \in Calls \cup {"none"} BY DEF IndInv, Typed
<1>4. ASSUME NEW devices \in DeviceLists, handle_volume_group_create(c, v, devices)
      PROVE  IndInv' /\ Survives
  <2>1. devices \in Lists BY ListsMade DEF DeviceLists
  <2>2. PICK m \in {"create", "add", "delete", "remove"} : m = "create" OBVIOUS
  <2> DEFINE q == Launched(m, v, d0, devices)
  <2>3. /\ GoodCall(q) /\ q.method = m /\ q.devices = devices
        /\ q.step \notin {"none", "write"}
    BY <2>1, LaunchedGood
  <2> DEFINE e == Refused(m, v, d0)
  <2>4. GoodCall(e) /\ e.step = "end" BY RefusedGood
  <2>5. /\ UNCHANGED <<disk, member, excl, link, main>>
        /\ \/ /\ call' = [call EXCEPT ![c] = q]
              /\ \A d \in ToSet(devices) : excl[d] = "none"
           \/ call' = [call EXCEPT ![c] = e]
    BY <1>2, <1>4, <2>2
    DEF handle_volume_group_create, Handles, storage_block_is_unused
  <2> HIDE DEF q, e
  <2>6. CASE /\ call' = [call EXCEPT ![c] = q]
             /\ \A d \in ToSet(devices) : excl[d] = "none"
    BY <1>3, <2>3, <2>5, <2>6, HandlerKeepsIndInv
  <2>7. CASE call' = [call EXCEPT ![c] = e]
    BY <1>3, <2>4, <2>5, <2>7, HandlerKeepsIndInv
  <2>8. QED BY <2>5, <2>6, <2>7
<1>5. ASSUME NEW d \in Devices, handle_add_device(c, v, d)
      PROVE  IndInv' /\ Survives
  <2>1. PICK devices \in Lists : devices = <<d>> BY ListsMade
  <2>2. PICK m \in {"create", "add", "delete", "remove"} : m = "add" OBVIOUS
  <2> DEFINE q == Launched(m, v, d, devices)
  <2>3. /\ GoodCall(q) /\ q.method = m /\ q.devices = devices
        /\ q.step \notin {"none", "write"}
    BY LaunchedGood
  <2> DEFINE e == Refused(m, v, d)
  <2>4. GoodCall(e) /\ e.step = "end" BY RefusedGood
  <2>5. ToSet(devices) = {d} BY <2>1 DEF ToSet
  <2>6. /\ UNCHANGED <<disk, member, excl, link>>
        /\ \/ /\ call' = [call EXCEPT ![c] = q] /\ main' = c
              /\ excl[d] = "none"
           \/ call' = [call EXCEPT ![c] = e] /\ main' = main
    BY <1>5, <2>1, <2>2 DEF handle_add_device, Handles, storage_block_is_unused
  <2> HIDE DEF q, e
  <2>7. CASE call' = [call EXCEPT ![c] = q] /\ main' = c /\ excl[d] = "none"
    BY <2>3, <2>5, <2>6, <2>7, HandlerKeepsIndInv
  <2>8. CASE call' = [call EXCEPT ![c] = e] /\ main' = main
    BY <1>3, <2>4, <2>6, <2>8, HandlerKeepsIndInv
  <2>9. QED BY <2>6, <2>7, <2>8
<1>6. ASSUME NEW wipe \in BOOLEAN, handle_delete(c, v, wipe)
      PROVE  IndInv' /\ Survives
  <2> DEFINE T == {d \in Devices : wipe /\ link[d] = v}
  <2>1. PICK devices \in SetToSeqs(T) :
          call' = [call EXCEPT ![c] = Launched("delete", v, NoCall.on, devices)]
    BY <1>6 DEF handle_delete
  <2>2. T \in SUBSET Devices OBVIOUS
  <2> HIDE DEF T
  <2>3. devices \in Lists BY <2>2, ListsMade
  <2>4. PICK m \in {"create", "add", "delete", "remove"} : m = "delete" OBVIOUS
  <2> DEFINE q == Launched(m, v, d0, devices)
  <2>5. /\ GoodCall(q) /\ q.method = m /\ q.devices = devices
        /\ q.step \notin {"none", "write"}
    BY <2>3, LaunchedGood
  <2>6. UNCHANGED <<disk, member, excl, link, main>> /\ call' = [call EXCEPT ![c] = q]
    BY <1>2, <1>6, <2>1, <2>4 DEF handle_delete, Handles
  <2> HIDE DEF q
  <2>7. ~WipesFirst(q) BY <2>4, <2>5 DEF WipesFirst
  <2>8. QED BY <1>3, <2>5, <2>6, <2>7, HandlerKeepsIndInv
<1>7. ASSUME NEW wipe \in BOOLEAN, NEW d \in Devices,
             handle_remove_device(c, v, d, wipe)
      PROVE  IndInv' /\ Survives
  <2>1. PICK devices \in Lists : devices = IF wipe THEN <<d>> ELSE <<>>
    BY ListsMade
  <2>2. PICK m \in {"create", "add", "delete", "remove"} : m = "remove" OBVIOUS
  <2> DEFINE q == Launched(m, v, d, devices)
  <2>3. /\ GoodCall(q) /\ q.method = m /\ q.devices = devices
        /\ q.step \notin {"none", "write"}
    BY LaunchedGood
  <2>4. UNCHANGED <<disk, member, excl, link, main>> /\ call' = [call EXCEPT ![c] = q]
    BY <1>7, <2>1, <2>2 DEF handle_remove_device, Handles
  <2> HIDE DEF q
  <2>5. ~WipesFirst(q) BY <2>2, <2>3 DEF WipesFirst
  <2>6. QED BY <1>3, <2>3, <2>4, <2>5, HandlerKeepsIndInv
<1>8. QED BY <1>1, <1>4, <1>5, <1>6, <1>7

-----------------------------------------------------------------------------
\* The steps of a wipe.

\* What is known of a call that wipes.
LEMMA WipingFacts ==
  ASSUME IndInv, NEW c \in Calls, call[c].step \in {"open", "write", "wipefs"}
  PROVE  /\ GoodCall(call[c])
         /\ IsCall(call[c])
         /\ WhileWiping(call[c])
         /\ c \in Running
         /\ At(c) \in Devices
         /\ At(c) \in ToSet(call[c].devices)
         /\ WipesFirst(call[c]) /\ call[c].step # "write" /\ ~call[c].disturbed =>
              \A d \in ToSet(call[c].devices) : excl[d] = "none"
<1>1. GoodCall(call[c]) /\ IsCall(call[c]) /\ WhileWiping(call[c])
  BY DEF IndInv, CallInv, GoodCall
<1>2. call[c].devices \in Lists /\ call[c].at \in 1..Len(call[c].devices)
  BY <1>1 DEF IsCall, WhileWiping
<1>3. At(c) \in Devices /\ At(c) \in ToSet(call[c].devices)
  BY <1>2, PrefixFacts DEF At
<1>4. c \in Running BY DEF Running
<1>5. QED BY <1>1, <1>3, <1>4 DEF IndInv, ExclInv, ExclOf

\* The main loop is with a call or with none.
LEMMA MainTyped ==
  ASSUME IndInv, NEW c \in Calls, NEW r
  PROVE  MainAfter(c, r) \in Calls \cup {"none"}
BY DEF MainAfter, IndInv, Typed

\* A call ends with an error, and leaves the devices alone.
LEMMA FailureKeepsIndInv ==
  ASSUME IndInv, NEW c \in Calls, NEW r, Becomes(c, call, r),
         GoodCall(r), r.step = "end",
         UNCHANGED <<disk, member, excl, link>>
  PROVE  IndInv' /\ Survives
<1>1. main' \in Calls \cup {"none"} BY MainTyped DEF Becomes
<1>2. call' = [call EXCEPT ![c] = r] BY DEF Becomes
<1>3. QED BY <1>1, <1>2, HandlerKeepsIndInv

\* open (device_file, O_WRONLY | O_EXCL).
LEMMA OpenKeepsIndInv ==
  ASSUME IndInv, NEW c \in Calls, wipe_opens(c)
  PROVE  IndInv' /\ Survives
<1> DEFINE r == call[c]
<1>1. r.step = "open" BY DEF wipe_opens
<1>2. /\ GoodCall(r) /\ IsCall(r) /\ WhileWiping(r) /\ At(c) \in Devices
      /\ WipesFirst(r) /\ ~r.disturbed =>
           \A d \in ToSet(r.devices) : excl[d] = "none"
      /\ At(c) \in ToSet(r.devices)
  BY <1>1, WipingFacts
<1>3. CASE /\ excl[At(c)] = "none"
           /\ Becomes(c, Disturbed({At(c)}, c), [call[c] EXCEPT !.step = "write"])
           /\ excl' = [excl EXCEPT ![At(c)] = c]
  <2>1. PICK step \in {"open", "write", "wipefs", "command", "late", "end"} : step = "write"
    OBVIOUS
  <2> DEFINE q == Goes(r, step)
  <2>2. /\ IsCall(q) /\ Like(q, r) /\ q.at = r.at /\ q.step = step
        /\ q.answer = r.answer /\ q.erased = r.erased /\ q.ran = r.ran
        /\ q.disturbed = r.disturbed
    BY <1>2, GoesFields
  <2>3. Becomes(c, Disturbed({At(c)}, c), q) BY <1>3, <2>1 DEF Goes
  <2> HIDE DEF q
  <2>4. WhileWiping(q) BY <1>2, <2>2 DEF WhileWiping, Like, WipesFirst, WipesLast
  <2>5. GoodCall(q) BY <2>1, <2>2, <2>4 DEF GoodCall
  <2>6. PICK S : S = {At(c)} OBVIOUS
  <2>7. call' = [Disturbed(S, c) EXCEPT ![c] = q] BY <2>3, <2>6 DEF Becomes
  <2>8. Moves(c, S) /\ call'[c] = q BY <2>7, StepMoves
  <2>9. At(c)' = At(c) BY <2>2, <2>8 DEF At, Like
  <2>10. excl \in [Devices -> {"none", "active", "user"} \cup Calls] BY DEF IndInv, Typed
  <2>11. /\ excl'[At(c)] = c
         /\ \A d \in Devices : d # At(c) => excl'[d] = excl[d]
         /\ excl' \in [Devices -> {"none", "active", "user"} \cup Calls]
    BY <1>2, <1>3, <2>10
  <2>12. ExclOf(c)'
    <3>1. ToSet(q.devices) \subseteq Devices
      BY <2>2, ListFacts DEF IsCall
    <3>2. ASSUME WipesFirst(q), ~q.disturbed, NEW d \in ToSet(q.devices)
          PROVE  excl'[d] = "none" \/ (excl'[d] = c /\ d = At(c))
      <4>1. WipesFirst(r) /\ ~r.disturbed /\ d \in ToSet(r.devices) /\ d \in Devices
        BY <2>2, <3>1, <3>2 DEF Like, WipesFirst
      <4>2. excl[d] = "none" BY <1>2, <4>1
      <4>3. QED BY <2>11, <4>1, <4>2
    <3>3. q.step = "write" BY <2>1, <2>2
    <3>4. QED BY <2>8, <2>9, <2>11, <3>2, <3>3 DEF ExclOf
  <2>13. UNCHANGED <<disk, member, link>> BY DEF wipe_opens
  <2>14. main' \in Calls \cup {"none"} BY <2>3, MainTyped DEF Becomes
  <2>15. Typed' /\ MemberInv' /\ Survives
    BY <2>11, <2>13, <2>14 DEF IndInv, Typed, MemberInv, Survives
  <2>16. \A d \in Devices : \/ excl'[d] = excl[d]
                            \/ d \in S /\ excl[d] = "none"
    BY <1>3, <2>6, <2>11
  <2>17. IndInv' BY <2>5, <2>8, <2>12, <2>15, <2>16, Together
  <2>18. QED BY <2>15, <2>17
<1>4. CASE /\ excl[At(c)] # "none"
           /\ Becomes(c, call, Ended(call[c], "error"))
           /\ UNCHANGED excl
  <2>1. WipesFirst(r) => r.disturbed BY <1>2, <1>4
  <2> DEFINE q == Ended(r, "error")
  <2>2. GoodCall(q) /\ q.step = "end" BY <1>1, <1>2, <2>1, WipeEndsGood
  <2>3. Becomes(c, call, q) /\ UNCHANGED <<disk, member, excl, link>>
    BY <1>4 DEF wipe_opens
  <2> HIDE DEF q
  <2>4. QED BY <2>2, <2>3, FailureKeepsIndInv
<1>5. QED BY <1>3, <1>4 DEF wipe_opens

\* A step of a wipe fails.
LEMMA WipeFailsGood ==
  ASSUME IndInv, NEW c \in Calls, call[c].step \in {"write", "wipefs"}
  PROVE  GoodCall(WipeFails(c)) /\ WipeFails(c).step = "end"
<1> DEFINE r == call[c]
<1> DEFINE m == Marked(r)
<1>1. GoodCall(r) /\ IsCall(r) BY WipingFacts
<1>2. /\ IsCall(m) /\ Like(m, r) /\ m.at = r.at /\ m.step = r.step
      /\ m.answer = r.answer /\ m.erased = r.erased /\ m.ran = r.ran /\ m.disturbed
  BY <1>1, MarkedFields
<1>3. WipeFails(c) = Ended(m, "error") BY DEF WipeFails, Marked
<1>4. r.step \in {"write", "wipefs"} OBVIOUS
<1> HIDE DEF m, r
<1>5. SameCall(m, r) BY <1>2 DEF SameCall
<1>6. GoodCall(m) BY <1>1, <1>5, SameGood
<1>7. GoodCall(Ended(m, "error")) /\ Ended(m, "error").step = "end"
  BY <1>2, <1>4, <1>6, WipeEndsGood
<1>8. QED BY <1>3, <1>7

\* The first sector is written, and the device closed.
LEMMA WriteKeepsIndInv ==
  ASSUME IndInv, NEW c \in Calls, wipe_writes(c)
  PROVE  IndInv' /\ Survives
<1> DEFINE r == call[c]
<1>1. r.step = "write" BY DEF wipe_writes
<1>2. GoodCall(r) /\ IsCall(r) /\ WhileWiping(r) /\ At(c) \in Devices
  BY <1>1, WipingFacts
<1>3. ExclOf(c) /\ excl[At(c)] = c BY <1>1 DEF IndInv, ExclInv, ExclOf
<1>4. c \notin {"none", "active", "user"} BY NamesAssumption
<1>5. excl \in [Devices -> {"none", "active", "user"} \cup Calls] BY DEF IndInv, Typed
<1>6. /\ excl'[At(c)] = "none"
      /\ \A d \in Devices : d # At(c) => excl'[d] = excl[d]
      /\ excl' \in [Devices -> {"none", "active", "user"} \cup Calls]
  BY <1>2, <1>5 DEF wipe_writes
<1>7. /\ disk' \in [Devices -> {"blank", "data", "pv"} \cup VGs]
      /\ \A d \in Devices : d # At(c) => disk'[d] = disk[d]
      /\ disk'[At(c)] = disk[At(c)] \/ disk'[At(c)] = "blank"
  <2>1. disk \in [Devices -> {"blank", "data", "pv"} \cup VGs] BY DEF IndInv, Typed
  <2>2. disk' = disk \/ disk' = [disk EXCEPT ![At(c)] = IF @ = "data" THEN "blank"
                                                                   ELSE @]
    BY DEF wipe_writes
  <2>3. QED BY <1>2, <2>1, <2>2
<1>8. UNCHANGED <<member, link>> BY DEF wipe_writes
<1>9. MemberInv' BY <1>7, <1>8, NamesAssumption DEF IndInv, MemberInv
<1>10. Survives BY <1>3, <1>4, <1>7 DEF Survives
<1>11. ASSUME NEW q, Becomes(c, call, q), GoodCall(q), q.step \in {"wipefs", "end"},
              q.step = "wipefs" => Like(q, r) /\ q.disturbed = r.disturbed
       PROVE  IndInv'
  <2>1. call' = [call EXCEPT ![c] = q] BY <1>11 DEF Becomes
  <2>2. PICK S : S = {} OBVIOUS
  <2>3. Moves(c, S) /\ call'[c] = q BY <2>1, <2>2, StepMoves
  <2>4. ExclOf(c)'
    <3>1. CASE q.step = "end" BY <2>3, <3>1 DEF ExclOf, Running
    <3>2. CASE q.step = "wipefs"
      <4>1. q.devices \in Lists /\ ToSet(q.devices) \subseteq Devices
        BY <1>11, ListFacts DEF GoodCall, IsCall
      <4>2. ASSUME WipesFirst(q), ~q.disturbed, NEW d \in ToSet(q.devices)
            PROVE  excl'[d] = "none"
        <5>1. WipesFirst(r) /\ ~r.disturbed /\ d \in ToSet(r.devices) /\ d \in Devices
          BY <1>11, <3>2, <4>1, <4>2 DEF Like, WipesFirst
        <5>2. c \in Running BY <1>1 DEF Running
        <5>3. excl[d] = "none" \/ d = At(c) BY <1>3, <5>1, <5>2 DEF ExclOf
        <5>4. QED BY <1>6, <5>1, <5>3
      <4>3. QED BY <2>3, <3>2, <4>2 DEF ExclOf
    <3>3. QED BY <1>11, <3>1, <3>2
  <2>5. main' \in Calls \cup {"none"} BY <1>11, MainTyped DEF Becomes
  <2>6. Typed' BY <1>6, <1>7, <1>8, <2>5 DEF IndInv, Typed
  <2>7. \A d \in Devices : \/ excl'[d] = excl[d]
                           \/ excl[d] \in {c, "active", "user"}
    BY <1>3, <1>6
  <2>8. QED BY <1>9, <1>11, <2>3, <2>4, <2>6, <2>7, Together
<1>12. CASE Becomes(c, call, [call[c] EXCEPT !.step = "wipefs"])
  <2>1. PICK step \in {"open", "write", "wipefs", "command", "late", "end"} : step = "wipefs"
    OBVIOUS
  <2> DEFINE q == Goes(r, step)
  <2>2. /\ IsCall(q) /\ Like(q, r) /\ q.at = r.at /\ q.step = step
        /\ q.answer = r.answer /\ q.erased = r.erased /\ q.ran = r.ran
        /\ q.disturbed = r.disturbed
    BY <1>2, GoesFields
  <2>3. Becomes(c, call, q) BY <1>12, <2>1 DEF Goes
  <2> HIDE DEF q
  <2>4. WhileWiping(q) BY <1>2, <2>2 DEF WhileWiping, Like, WipesFirst, WipesLast
  <2>5. GoodCall(q) BY <2>1, <2>2, <2>4 DEF GoodCall
  <2>6. QED BY <1>10, <1>11, <2>1, <2>2, <2>3, <2>5
<1>13. CASE Becomes(c, call, WipeFails(c))
  <2>1. GoodCall(WipeFails(c)) /\ WipeFails(c).step = "end" BY <1>1, WipeFailsGood
  <2>2. QED BY <1>10, <1>11, <1>13, <2>1
<1>14. QED BY <1>12, <1>13 DEF wipe_writes

\* wipefs.
LEMMA WipefsKeepsIndInv ==
  ASSUME IndInv, NEW c \in Calls, wipefs(c)
  PROVE  IndInv' /\ Survives
<1> DEFINE r == call[c]
<1>1. r.step = "wipefs" BY DEF wipefs
<1>2. /\ GoodCall(r) /\ IsCall(r) /\ WhileWiping(r) /\ At(c) \in Devices
      /\ WipesFirst(r) /\ ~r.disturbed =>
           \A d \in ToSet(r.devices) : excl[d] = "none"
      /\ At(c) \in ToSet(r.devices)
  BY <1>1, WipingFacts
<1>3. UNCHANGED <<member, excl, link>> BY DEF wipefs
<1>4. CASE /\ excl[At(c)] = "none"
           /\ disk' = [disk EXCEPT ![At(c)] = "blank"]
           /\ Becomes(c, Disturbed({At(c)}, c),
                      WipeFrom([call[c] EXCEPT !.erased = @ \cup {At(c)}],
                               call[c].at + 1))
  <2>1. PICK S \in SUBSET Devices : S = {At(c)} BY <1>2
  <2> DEFINE e == Erases(r, S)
  <2>2. /\ IsCall(e) /\ Like(e, r) /\ e.at = r.at /\ e.step = r.step
        /\ e.answer = r.answer /\ e.erased = r.erased \cup S /\ e.ran = r.ran
        /\ e.disturbed = r.disturbed
    BY <1>2, ErasesFields
  <2>3. [call[c] EXCEPT !.erased = @ \cup {At(c)}] = e BY <2>1 DEF Erases
  <2> HIDE DEF e
  <2>4. Becomes(c, Disturbed(S, c), WipeFrom(e, r.at + 1)) BY <1>4, <2>1, <2>3
  <2>5. r.devices \in Lists /\ Len(r.devices) \in Nat /\ r.at \in 1..Len(r.devices)
    BY <1>2, ListFacts DEF IsCall, WhileWiping
  <2>6. PICK n \in 1..(Len(e.devices) + 1) : n = r.at + 1
    <3>1. e.devices = r.devices BY <2>2 DEF Like
    <3>2. r.at + 1 \in 1..(Len(r.devices) + 1) BY <2>5
    <3>3. QED BY <3>1, <3>2
  <2>7. e.erased = Prefix(e.devices, n - 1)
    <3>1. n - 1 = r.at BY <2>5, <2>6
    <3>2. Prefix(r.devices, r.at) = Prefix(r.devices, r.at - 1) \cup {At(c)}
      BY <2>5, PrefixFacts DEF At
    <3>3. QED BY <1>2, <2>1, <2>2, <3>1, <3>2 DEF WhileWiping, Like
  <2> DEFINE q == WipeFrom(e, n)
  <2>8. GoodCall(q) /\ Like(q, e) /\ q.disturbed = e.disturbed
          /\ q.step \notin {"none", "write"}
    <3>1. /\ WipesFirst(e) \/ WipesLast(e)
          /\ e.answer = "none"
          /\ e.ran <=> WipesLast(e)
      BY <1>2, <2>2 DEF WhileWiping, Like, WipesFirst, WipesLast
    <3>2. QED BY <2>2, <2>7, <3>1, WipeFromGood
  <2>9. call' = [Disturbed(S, c) EXCEPT ![c] = q] /\ main' = MainAfter(c, q)
    BY <2>4, <2>6 DEF Becomes
  <2> HIDE DEF q
  <2>10. Moves(c, S) /\ call'[c] = q BY <2>9, StepMoves
  <2>11. ExclOf(c)'
    <3>1. ASSUME WipesFirst(q), ~q.disturbed, NEW d \in ToSet(q.devices)
          PROVE  excl[d] = "none"
      BY <1>2, <2>2, <2>8, <3>1 DEF Like, WipesFirst
    <3>2. QED BY <1>3, <2>8, <2>10, <3>1 DEF ExclOf
  <2>12. /\ disk' \in [Devices -> {"blank", "data", "pv"} \cup VGs]
         /\ \A d \in Devices : d # At(c) => disk'[d] = disk[d]
         /\ disk'[At(c)] = "blank"
    BY <1>2, <1>4 DEF IndInv, Typed
  <2>13. MemberInv' BY <1>3, <2>12, NamesAssumption DEF IndInv, MemberInv
  <2>14. Survives BY <1>4, <2>12 DEF Survives
  <2>15. Typed' BY <1>3, <2>9, <2>12, MainTyped DEF IndInv, Typed
  <2>16. IndInv' BY <1>3, <2>8, <2>10, <2>11, <2>13, <2>15, Together
  <2>17. QED BY <2>14, <2>16
<1>5. CASE /\ excl[At(c)] # "none"
           /\ Becomes(c, call, Ended(call[c], "error"))
           /\ UNCHANGED disk
  <2>1. WipesFirst(r) => r.disturbed BY <1>2, <1>5
  <2> DEFINE q == Ended(r, "error")
  <2>2. GoodCall(q) /\ q.step = "end" BY <1>1, <1>2, <2>1, WipeEndsGood
  <2>3. Becomes(c, call, q) /\ UNCHANGED <<disk, member, excl, link>>
    BY <1>3, <1>5
  <2> HIDE DEF q
  <2>4. QED BY <2>2, <2>3, FailureKeepsIndInv
<1>6. CASE Becomes(c, call, WipeFails(c)) /\ UNCHANGED disk
  <2>1. GoodCall(WipeFails(c)) /\ WipeFails(c).step = "end" BY <1>1, WipeFailsGood
  <2>2. QED BY <1>3, <1>6, <2>1, FailureKeepsIndInv
<1>7. QED BY <1>4, <1>5, <1>6 DEF wipefs

-----------------------------------------------------------------------------
\* What command r spares: only vgremove takes a device that is in use, one with
\* active volumes of its group.
Spares(r) ==
  \A d \in Devices :
    disk'[d] # disk[d] =>
      \/ excl[d] = "none"
      \/ excl[d] = "active" /\ r.method = "delete" /\ disk[d] = r.vg

\* The commands keep the labels on members only, and spare used devices.
LEMMA CommandFacts ==
  ASSUME IndInv, NEW r, IsCall(r), Command(r)
  PROVE  /\ disk' \in [Devices -> {"blank", "data", "pv"} \cup VGs]
         /\ member' \in [VGs -> SUBSET Devices]
         /\ excl' \in [Devices -> {"none", "active", "user"} \cup Calls]
         /\ \A d \in Devices : excl'[d] = excl[d] \/ excl[d] = "active"
         /\ MemberInv'
         /\ Spares(r)
<1> DEFINE v == r.vg
<1> DEFINE o == r.on
<1> DEFINE D == ToSet(r.devices)
<1>1. v \in VGs /\ o \in Devices /\ D \subseteq Devices BY ListFacts DEF IsCall
<1>2. disk \in [Devices -> {"blank", "data", "pv"} \cup VGs] BY DEF IndInv, Typed
<1>3. member \in [VGs -> SUBSET Devices] BY DEF IndInv, Typed
<1>4. \A d \in Devices : disk[d] \in VGs => d \in member[disk[d]]
  BY DEF IndInv, MemberInv
<1>5. "pv" \notin VGs BY NamesAssumption
<1> DEFINE Kept ==
      /\ excl' \in [Devices -> {"none", "active", "user"} \cup Calls]
      /\ \A d \in Devices : excl'[d] = excl[d] \/ excl[d] = "active"
<1>0. excl \in [Devices -> {"none", "active", "user"} \cup Calls]
  BY DEF IndInv, Typed
<1>11. ASSUME UNCHANGED excl PROVE Kept BY <1>0, <1>11
<1>6. CASE vgcreate(r)
  <2>1. /\ member[v] = {}
        /\ \A d \in D : excl[d] = "none" /\ disk[d] \notin VGs
        /\ member' = [member EXCEPT ![v] = D]
        /\ disk' = [d \in Devices |-> IF d \in D THEN v ELSE disk[d]]
    BY <1>6 DEF vgcreate, Exists, Free
  <2> HIDE DEF v, D
  <2>2. \A d \in Devices : disk'[d] = IF d \in D THEN v ELSE disk[d] BY <2>1
  <2>3. /\ member'[v] = D
        /\ \A w \in VGs : w # v => member'[w] = member[w]
    BY <1>1, <1>3, <2>1
  <2>4. ASSUME NEW d \in Devices, disk'[d] \in VGs PROVE d \in member'[disk'[d]]
    <3>1. CASE d \in D BY <2>2, <2>3, <3>1
    <3>2. CASE d \notin D BY <1>4, <2>1, <2>2, <2>3, <2>4, <3>2
    <3>3. QED BY <3>1, <3>2
  <2>5. MemberInv' BY <2>4 DEF MemberInv
  <2>6. Spares(r) BY <1>1, <2>1, <2>2 DEF Spares
  <2>7. disk' \in [Devices -> {"blank", "data", "pv"} \cup VGs] BY <1>1, <1>2, <2>1
  <2>8. member' \in [VGs -> SUBSET Devices] BY <1>1, <1>3, <2>1
  <2>9. Kept BY <1>11, <1>6 DEF vgcreate
  <2>10. QED BY <2>5, <2>6, <2>7, <2>8, <2>9
<1>7. CASE vgextend(r)
  <2>1. /\ excl[o] = "none" /\ disk[o] \notin VGs
        /\ member' = [member EXCEPT ![v] = @ \cup {o}]
        /\ disk' = [disk EXCEPT ![o] = v]
    BY <1>7 DEF vgextend, Free
  <2> HIDE DEF v, o
  <2>2. \A d \in Devices : disk'[d] = IF d = o THEN v ELSE disk[d] BY <1>2, <2>1
  <2>3. \A w \in VGs : member'[w] = IF w = v THEN member[w] \cup {o} ELSE member[w]
    BY <1>3, <2>1
  <2>4. MemberInv' BY <1>1, <1>4, <2>2, <2>3 DEF MemberInv
  <2>5. Spares(r) BY <1>1, <2>1, <2>2 DEF Spares
  <2>6. disk' \in [Devices -> {"blank", "data", "pv"} \cup VGs] BY <1>1, <1>2, <2>1
  <2>7. member' \in [VGs -> SUBSET Devices] BY <1>1, <1>3, <2>1
  <2>8. Kept BY <1>11, <1>7 DEF vgextend
  <2>9. QED BY <2>4, <2>5, <2>6, <2>7, <2>8
<1>8. CASE r.method = "delete" /\ vgremove(r)
  <2>1. /\ \A d \in Devices : disk[d] = v => excl[d] \in {"none", "active"}
        /\ member' = [member EXCEPT ![v] = {}]
        /\ disk' = [d \in Devices |-> IF disk[d] = v THEN "pv" ELSE disk[d]]
        /\ excl' = [d \in Devices |-> IF disk[d] = v THEN "none" ELSE excl[d]]
    BY <1>8 DEF vgremove
  <2>9. v = r.vg OBVIOUS
  <2> HIDE DEF v
  <2>2. \A d \in Devices : disk'[d] = IF disk[d] = v THEN "pv" ELSE disk[d] BY <2>1
  <2>3. \A w \in VGs : w # v => member'[w] = member[w] BY <1>3, <2>1
  <2>4. MemberInv' BY <1>4, <1>5, <2>2, <2>3 DEF MemberInv
  <2>5. Spares(r) BY <1>8, <2>1, <2>2, <2>9 DEF Spares
  <2>6. disk' \in [Devices -> {"blank", "data", "pv"} \cup VGs] BY <1>2, <2>1
  <2>7. member' \in [VGs -> SUBSET Devices] BY <1>1, <1>3, <2>1
  <2>8. Kept BY <1>0, <2>1
  <2>10. QED BY <2>4, <2>5, <2>6, <2>7, <2>8
<1>9. CASE vgreduce(r)
  <2>1. /\ excl[o] = "none"
        /\ member' = [member EXCEPT ![v] = @ \ {o}]
        /\ disk' = [disk EXCEPT ![o] = "pv"]
    BY <1>9 DEF vgreduce
  <2> HIDE DEF v, o
  <2>2. \A d \in Devices : disk'[d] = IF d = o THEN "pv" ELSE disk[d] BY <1>2, <2>1
  <2>3. \A w \in VGs : member'[w] = IF w = v THEN member[w] \ {o} ELSE member[w]
    BY <1>3, <2>1
  <2>4. MemberInv' BY <1>4, <1>5, <2>2, <2>3 DEF MemberInv
  <2>5. Spares(r) BY <1>1, <2>1, <2>2 DEF Spares
  <2>6. disk' \in [Devices -> {"blank", "data", "pv"} \cup VGs] BY <1>1, <1>2, <2>1
  <2>7. member' \in [VGs -> SUBSET Devices] BY <1>1, <1>3, <2>1
  <2>8. Kept BY <1>11, <1>9 DEF vgreduce
  <2>9. QED BY <2>4, <2>5, <2>6, <2>7, <2>8
<1>10. QED BY <1>6, <1>7, <1>8, <1>9 DEF Command

\* A command with record h takes effect, as a step of call c, whose record
\* becomes q.
LEMMA EffectKeepsIndInv ==
  ASSUME IndInv, NEW c \in Calls, NEW h, IsCall(h), Command(h), UNCHANGED link,
         h.method = call[c].method, h.vg = call[c].vg,
         h.method = "delete" => call[c].step = "command",
         NEW q, GoodCall(q), q.ran, q.step # "write",
         q.step # "end" => ~WipesFirst(q),
         Becomes(c, Disturbed({d \in Devices : disk'[d] # disk[d]}, c), q)
  PROVE  IndInv' /\ Survives
<1>1. PICK S : S = {d \in Devices : disk'[d] # disk[d]} OBVIOUS
<1>2. call' = [Disturbed(S, c) EXCEPT ![c] = q] /\ main' = MainAfter(c, q)
  BY <1>1 DEF Becomes
<1>3. Moves(c, S) /\ call'[c] = q BY <1>2, StepMoves
<1>4. ExclOf(c)' BY <1>3 DEF ExclOf, Running
<1>5. /\ disk' \in [Devices -> {"blank", "data", "pv"} \cup VGs]
      /\ member' \in [VGs -> SUBSET Devices]
      /\ excl' \in [Devices -> {"none", "active", "user"} \cup Calls]
      /\ \A d \in Devices : excl'[d] = excl[d] \/ excl[d] = "active"
      /\ MemberInv'
      /\ Spares(h)
  BY CommandFacts
<1>6. Survives
  <2>1. \A d \in Devices : excl[d] = "user" => disk'[d] = disk[d]
    BY <1>5 DEF Spares
  <2>2. ASSUME NEW d \in Devices, excl[d] = "active", disk'[d] # disk[d]
        PROVE  /\ call[c].method = "delete"
               /\ call[c].step = "command"
               /\ call[c].vg = disk[d]
               /\ call'[c].ran
    BY <1>3, <1>5, <2>2 DEF Spares
  <2>3. QED BY <2>1, <2>2 DEF Survives
<1>7. Typed' BY <1>2, <1>5, MainTyped DEF IndInv, Typed
<1>8. IndInv' BY <1>3, <1>4, <1>5, <1>7, Together
<1>9. QED BY <1>6, <1>8

\* The command of a call runs, or fails.
LEMMA CommandKeepsIndInv ==
  ASSUME IndInv, NEW c \in Calls, command_runs(c)
  PROVE  IndInv' /\ Survives
<1> DEFINE r == call[c]
<1>1. r.step = "command" /\ UNCHANGED link BY DEF command_runs
<1>2. GoodCall(r) /\ IsCall(r) /\ BeforeCommand(r)
  BY <1>1 DEF IndInv, CallInv, GoodCall
<1> DEFINE h == HasRun(r)
<1>3. /\ IsCall(h) /\ Like(h, r) /\ h.at = r.at /\ h.step = r.step
      /\ h.answer = r.answer /\ h.erased = r.erased /\ h.ran
      /\ h.disturbed = r.disturbed
  BY <1>2, HasRunFields
<1>4. /\ WipesFirst(h) \/ WipesLast(h)
      /\ WipesFirst(h) <=> h.method \in {"create", "add"}
      /\ h.answer = "none"
      /\ WipesFirst(h) => h.erased = ToSet(h.devices)
      /\ WipesLast(h) => h.erased = {}
  BY <1>2, <1>3 DEF BeforeCommand, Like, WipesFirst, WipesLast
<1>5. h = [call[c] EXCEPT !.ran = TRUE] BY DEF HasRun
<1> HIDE DEF h
<1> DEFINE q == IF h.method \in {"create", "add"} THEN Ended(h, "success")
                                                  ELSE WipeFrom(h, 1)
<1>6. CASE /\ Command(h)
           /\ Becomes(c, Disturbed({d \in Devices : disk'[d] # disk[d]}, c), q)
  <2>1. GoodCall(q) /\ q.step \notin {"none", "write"} /\ q.ran
          /\ (q.step # "end" => ~WipesFirst(q))
    <3>1. CASE WipesFirst(h)
      <4>1. PICK answer \in {"success", "error", "cancelled"} : answer = "success" OBVIOUS
      <4> DEFINE e == Ended(h, answer)
      <4>2. /\ IsCall(e) /\ Like(e, h) /\ e.at = h.at /\ e.step = "end"
            /\ e.answer = answer /\ e.erased = h.erased /\ e.ran = h.ran
            /\ e.disturbed = h.disturbed
        <5>1. IsCall(h) BY <1>3
        <5>2. QED BY <5>1, EndedFields
      <4>3. q = e BY <1>4, <3>1, <4>1
      <4> HIDE DEF e, q
      <4>4. AtEnd(e) BY <1>3, <1>4, <3>1, <4>1, <4>2 DEF AtEnd, Like, WipesFirst
      <4>5. GoodCall(e) BY <4>2, <4>4 DEF GoodCall
      <4>6. QED BY <1>3, <4>2, <4>3, <4>5
    <3>2. CASE ~WipesFirst(h)
      <4>1. h.devices \in Lists /\ Len(h.devices) \in Nat
        BY <1>3, ListFacts DEF IsCall
      <4>2. PICK n \in 1..(Len(h.devices) + 1) : n = 1 BY <4>1
      <4>3. h.erased = Prefix(h.devices, n - 1)
        <5>1. Prefix(h.devices, 0) = {} BY <4>1, PrefixFacts
        <5>2. n - 1 = 0 BY <4>2
        <5>3. QED BY <1>4, <3>2, <5>1, <5>2
      <4>4. h.ran <=> WipesLast(h) BY <1>3, <1>4, <3>2
      <4> DEFINE e == WipeFrom(h, n)
      <4>5. GoodCall(e) /\ Like(e, h) /\ e.step \notin {"none", "write"} /\ e.ran
        BY <1>3, <1>4, <4>3, <4>4, WipeFromGood
      <4>6. q = e BY <1>4, <3>2, <4>2
      <4> HIDE DEF e, q
      <4>7. QED BY <3>2, <4>5, <4>6 DEF Like, WipesFirst
    <3>3. QED BY <3>1, <3>2
  <2> HIDE DEF q
  <2>2. Becomes(c, Disturbed({d \in Devices : disk'[d] # disk[d]}, c), q) BY <1>6
  <2>3. QED BY <1>1, <1>3, <1>6, <2>1, <2>2, EffectKeepsIndInv DEF Like
<1>7. CASE Becomes(c, call, Ended(call[c], "error")) /\ UNCHANGED <<disk, member, excl>>
  <2>1. PICK answer \in {"success", "error", "cancelled"} : answer = "error" OBVIOUS
  <2> DEFINE e == Ended(r, answer)
  <2>2. /\ IsCall(e) /\ Like(e, r) /\ e.at = r.at /\ e.step = "end"
        /\ e.answer = answer /\ e.erased = r.erased /\ e.ran = r.ran
        /\ e.disturbed = r.disturbed
    BY <1>2, EndedFields
  <2>3. Becomes(c, call, e) BY <1>7, <2>1
  <2> HIDE DEF e
  <2>4. AtEnd(e)
    BY <1>2, <2>1, <2>2 DEF AtEnd, Like, WipesFirst, WipesLast, BeforeCommand
  <2>5. GoodCall(e) BY <2>2, <2>4 DEF GoodCall
  <2>6. QED BY <1>1, <1>7, <2>2, <2>3, <2>5, FailureKeepsIndInv
<1>8. QED BY <1>5, <1>6, <1>7 DEF command_runs

\* A job is cancelled before its thread did anything.
LEMMA ThreadCancelledKeepsIndInv ==
  ASSUME IndInv, NEW c \in Calls, thread_cancelled(c)
  PROVE  IndInv' /\ Survives
<1> DEFINE r == call[c]
<1>1. /\ IsCall(r) /\ r.method # "add" /\ r.erased = {} /\ ~r.ran
      /\ Becomes(c, call, Ended(r, "cancelled"))
      /\ UNCHANGED <<disk, member, excl, link>>
  BY DEF thread_cancelled, IndInv, CallInv, GoodCall
<1>2. PICK answer \in {"success", "error", "cancelled"} : answer = "cancelled"
  OBVIOUS
<1> DEFINE e == Ended(r, answer)
<1>3. /\ IsCall(e) /\ Like(e, r) /\ e.at = r.at /\ e.step = "end"
      /\ e.answer = answer /\ e.erased = r.erased /\ e.ran = r.ran
      /\ e.disturbed = r.disturbed
  BY <1>1, EndedFields
<1>4. Becomes(c, call, e) BY <1>1, <1>2
<1> HIDE DEF e, r
<1>5. AtEnd(e) BY <1>1, <1>2, <1>3 DEF AtEnd, Like
<1>6. GoodCall(e) BY <1>3, <1>5 DEF GoodCall
<1>7. QED BY <1>1, <1>3, <1>4, <1>6, FailureKeepsIndInv

\* The job of an AddDevice is cancelled.
LEMMA CancelledKeepsIndInv ==
  ASSUME IndInv, NEW c \in Calls, on_cancelled(c)
  PROVE  IndInv' /\ Survives
<1> DEFINE r == call[c]
<1>1. /\ GoodCall(r) /\ ExclOf(c) /\ r.step = "command" /\ r.method = "add"
      /\ Becomes(c, call, [Ended(r, "cancelled") EXCEPT !.step = "late"])
      /\ UNCHANGED <<disk, member, excl, link>>
  BY DEF on_cancelled, IndInv, CallInv, ExclInv
<1>2. IsCall(r) /\ BeforeCommand(r) /\ WipesFirst(r) /\ c \in Running
  BY <1>1 DEF GoodCall, WipesFirst, Running
<1>3. PICK answer \in {"success", "error", "cancelled"} : answer = "cancelled"
  OBVIOUS
<1>4. PICK step \in {"open", "write", "wipefs", "command", "late", "end"} :
        step = "late"
  OBVIOUS
<1> DEFINE e == Ended(r, answer)
<1>5. /\ IsCall(e) /\ Like(e, r) /\ e.at = r.at /\ e.step = "end"
      /\ e.answer = answer /\ e.erased = r.erased /\ e.ran = r.ran
      /\ e.disturbed = r.disturbed
  BY <1>2, EndedFields
<1> DEFINE q == Goes(e, step)
<1>6. Becomes(c, call, q) BY <1>1, <1>3, <1>4 DEF Goes
<1> HIDE DEF e
<1>7. /\ IsCall(q) /\ Like(q, e) /\ q.at = e.at /\ q.step = step
      /\ q.answer = e.answer /\ q.erased = e.erased /\ q.ran = e.ran
      /\ q.disturbed = e.disturbed
  BY <1>5, GoesFields
<1> HIDE DEF q
<1>8. WhileLate(q)
  BY <1>1, <1>2, <1>3, <1>5, <1>7 DEF WhileLate, BeforeCommand, Like
<1>9. GoodCall(q) BY <1>4, <1>7, <1>8 DEF GoodCall
<1>10. ~q.disturbed => \A d \in ToSet(q.devices) : excl[d] = "none"
  BY <1>1, <1>2, <1>5, <1>7 DEF ExclOf, Like
<1>11. main' \in Calls \cup {"none"} BY <1>6, MainTyped DEF Becomes
<1>12. call' = [call EXCEPT ![c] = q] BY <1>6 DEF Becomes
<1>13. q.step # "write" BY <1>4, <1>7
<1>14. QED BY <1>1, <1>9, <1>10, <1>11, <1>12, <1>13, HandlerKeepsIndInv

\* The vgextend of a cancelled AddDevice ends.
LEMMA VgextendEndsKeepsIndInv ==
  ASSUME IndInv, NEW c \in Calls, vgextend_ends(c)
  PROVE  IndInv' /\ Survives
<1> DEFINE r == call[c]
<1> DEFINE h == HasRun(r)
<1>1. /\ GoodCall(r) /\ IsCall(r) /\ r.step = "late" /\ WhileLate(r)
      /\ UNCHANGED link
  BY DEF vgextend_ends, IndInv, CallInv, GoodCall
<1>2. PICK step \in {"open", "write", "wipefs", "command", "late", "end"} :
        step = "end"
  OBVIOUS
<1>3. /\ IsCall(h) /\ Like(h, r) /\ h.at = r.at /\ h.step = r.step
      /\ h.answer = r.answer /\ h.erased = r.erased /\ h.ran
      /\ h.disturbed = r.disturbed
  BY <1>1, HasRunFields
<1>4. \/ /\ vgextend(h)
         /\ Becomes(c, Disturbed({d \in Devices : disk'[d] # disk[d]}, c),
                    Goes(h, step))
      \/ /\ Becomes(c, call, Goes(r, step))
         /\ UNCHANGED <<disk, member, excl>>
  BY <1>2 DEF vgextend_ends, HasRun, Goes
<1> HIDE DEF h, r
<1>5. ASSUME NEW m, IsCall(m), Like(m, r), m.answer = r.answer, m.erased = r.erased
      PROVE  GoodCall(Goes(m, step)) /\ Goes(m, step).step = "end"
               /\ Goes(m, step).ran = m.ran
  <2> DEFINE q == Goes(m, step)
  <2>1. /\ IsCall(q) /\ Like(q, m) /\ q.at = m.at /\ q.step = step
        /\ q.answer = m.answer /\ q.erased = m.erased /\ q.ran = m.ran
        /\ q.disturbed = m.disturbed
    BY <1>5, GoesFields
  <2> HIDE DEF q
  <2>2. AtEnd(q) BY <1>1, <1>5, <2>1 DEF AtEnd, WhileLate, Like, WipesFirst
  <2>3. GoodCall(q) BY <1>2, <2>1, <2>2 DEF GoodCall
  <2>4. QED BY <1>2, <2>1, <2>3 DEF q
<1>6. CASE /\ vgextend(h)
           /\ Becomes(c, Disturbed({d \in Devices : disk'[d] # disk[d]}, c),
                      Goes(h, step))
  <2> DEFINE q == Goes(h, step)
  <2>1. GoodCall(q) /\ q.step = "end" /\ q.ran BY <1>3, <1>5
  <2>2. Becomes(c, Disturbed({d \in Devices : disk'[d] # disk[d]}, c), q) BY <1>6
  <2> HIDE DEF q
  <2>3. h.method = "add" /\ h.method = r.method /\ h.vg = r.vg
    BY <1>1, <1>3 DEF Like, WhileLate
  <2>4. Command(h) BY <1>6, <2>3 DEF Command
  <2>5. QED BY <1>1, <1>3, <2>1, <2>2, <2>3, <2>4, EffectKeepsIndInv DEF r
<1>7. CASE Becomes(c, call, Goes(r, step)) /\ UNCHANGED <<disk, member, excl>>
  <2> DEFINE q == Goes(r, step)
  <2>1. Like(r, r) BY DEF Like
  <2>2. GoodCall(q) /\ q.step = "end" BY <1>1, <1>5, <2>1
  <2>3. Becomes(c, call, q) /\ UNCHANGED <<disk, member, excl, link>>
    BY <1>1, <1>7
  <2> HIDE DEF q
  <2>4. QED BY <2>2, <2>3, FailureKeepsIndInv
<1>8. QED BY <1>4, <1>6, <1>7

-----------------------------------------------------------------------------
\* The users of the devices, and the overlays.
LEMMA UsersKeepIndInv ==
  ASSUME IndInv, NEW d \in Devices, Activate(d) \/ Use(d) \/ Release(d) \/ UpdateLink(d)
  PROVE  IndInv' /\ Survives
<1>1. excl \in [Devices -> {"none", "active", "user"} \cup Calls] BY DEF IndInv, Typed
<1>2. PICK who \in Calls \cup {"user"} : who = "user" OBVIOUS
<1>3. who \notin Calls BY <1>2, NamesAssumption
<1>4. CASE Activate(d) \/ Use(d)
  <2>1. PICK S : S = {d} OBVIOUS
  <2>2. Moves(who, S) BY <1>2, <1>4, <2>1, UseMoves DEF Activate, Use
  <2>3. /\ excl' \in [Devices -> {"none", "active", "user"} \cup Calls]
        /\ \A k \in Devices : k # d => excl'[k] = excl[k]
        /\ excl[d] \in {"none", "active"}
        /\ UNCHANGED <<disk, member, link, main>>
    BY <1>1, <1>4 DEF Activate, Use
  <2>4. Typed' /\ MemberInv' /\ Survives
    BY <2>3 DEF IndInv, Typed, MemberInv, Survives
  <2>5. \A k \in Devices : \/ excl'[k] = excl[k]
                           \/ k \in S /\ excl[k] = "none"
                           \/ excl[k] \in {who, "active", "user"}
    BY <2>1, <2>3
  <2>6. IndInv' BY <1>3, <2>2, <2>4, <2>5, Together
  <2>7. QED BY <2>4, <2>6
<1>5. ASSUME UNCHANGED call PROVE Moves(who, {})
  <2>1. call = [c \in Calls |-> call[c]] /\ \A c \in Calls : IsCall(call[c])
    BY DEF IndInv, CallInv, GoodCall
  <2>2. \A c \in Calls : SameCall(call[c], call[c]) BY <2>1 DEF SameCall, Like
  <2>3. QED BY <1>5, <2>1, <2>2 DEF Moves
<1>6. CASE Release(d)
  <2>1. PICK S : S = {} OBVIOUS
  <2>2. Moves(who, S) BY <1>5, <1>6, <2>1 DEF Release
  <2>3. /\ excl' \in [Devices -> {"none", "active", "user"} \cup Calls]
        /\ \A k \in Devices : k # d => excl'[k] = excl[k]
        /\ excl[d] \in {"active", "user"}
    BY <1>1, <1>6 DEF Release
  <2>4. Typed' /\ MemberInv' /\ Survives
    BY <1>6, <2>3 DEF Release, IndInv, Typed, MemberInv, Survives
  <2>5. \A k \in Devices : \/ excl'[k] = excl[k]
                           \/ excl[k] \in {who, "active", "user"}
    BY <2>3
  <2>6. IndInv' BY <1>3, <2>2, <2>4, <2>5, Together
  <2>7. QED BY <2>4, <2>6
<1>7. CASE UpdateLink(d)
  <2>1. PICK S : S = {} OBVIOUS
  <2>2. Moves(who, S) BY <1>5, <1>7, <2>1 DEF UpdateLink
  <2>3. link' \in [Devices -> VGs \cup {"none"}]
    BY <1>7 DEF UpdateLink, IndInv, Typed
  <2>4. Typed' /\ MemberInv' /\ Survives
    BY <1>7, <2>3 DEF UpdateLink, IndInv, Typed, MemberInv, Survives
  <2>5. \A k \in Devices : excl'[k] = excl[k] BY <1>7 DEF UpdateLink
  <2>6. IndInv' BY <1>3, <2>2, <2>4, <2>5, Together
  <2>7. QED BY <2>4, <2>6
<1>8. QED BY <1>4, <1>6, <1>7

-----------------------------------------------------------------------------
\* The initial state.
LEMMA InitIndInv == Init => IndInv
<1> SUFFICES ASSUME Init PROVE IndInv
  OBVIOUS
<1>1. Typed
  <2>1. disk \in [Devices -> {"blank", "data", "pv"} \cup VGs] BY DEF Init
  <2>2. member \in [VGs -> SUBSET Devices] BY DEF Init
  <2>3. link \in [Devices -> VGs \cup {"none"}] BY DEF Init
  <2>4. excl \in [Devices -> {"none", "active", "user"} \cup Calls] BY DEF Init
  <2>5. QED BY <2>1, <2>2, <2>3, <2>4 DEF Init, Typed
<1>2. \A c \in Calls : call[c] = NoCall BY DEF Init
<1>3. CallInv BY <1>2, NoCallFields DEF Init, CallInv
<1>4. ExclInv BY <1>2, NoCallFields DEF ExclInv, ExclOf, Running
<1>5. MemberInv BY DEF Init, MemberInv
<1>6. QED BY <1>1, <1>3, <1>4, <1>5 DEF IndInv

\* Every step keeps the invariant and spares the devices in use.
LEMMA NextIndInv ==
  ASSUME IndInv, Next
  PROVE  IndInv' /\ Survives
<1>1. ASSUME NEW c \in Calls, HandlerNext(c) PROVE IndInv' /\ Survives
  BY <1>1, HandlersKeepIndInv
<1>2. ASSUME NEW c \in Calls, JobNext(c) PROVE IndInv' /\ Survives
  BY <1>2, OpenKeepsIndInv, WriteKeepsIndInv, WipefsKeepsIndInv, CommandKeepsIndInv,
     ThreadCancelledKeepsIndInv, CancelledKeepsIndInv, VgextendEndsKeepsIndInv
  DEF JobNext
<1>3. ASSUME NEW d \in Devices, Activate(d) \/ Use(d) \/ Release(d) \/ UpdateLink(d)
      PROVE  IndInv' /\ Survives
  BY <1>3, UsersKeepIndInv
<1>4. QED BY <1>1, <1>2, <1>3 DEF Next

\* The inductive invariant holds.
THEOREM IndInvHolds == Spec => []IndInv
<1>1. IndInv /\ [Next]_vars => IndInv'
  <2> SUFFICES ASSUME IndInv, [Next]_vars PROVE IndInv'
    OBVIOUS
  <2>1. CASE Next BY <2>1, NextIndInv
  <2>2. CASE UNCHANGED vars
    BY <2>2 DEF vars, IndInv, Typed, CallInv, ExclInv, ExclOf, MemberInv, At, Running
  <2>3. QED BY <2>1, <2>2
<1>2. QED BY <1>1, InitIndInv, PTL DEF Spec

\* Each variable keeps its type; the loops over the devices to wipe stay
\* within the list.
THEOREM TypeCorrect == Spec => []TypeOK
<1>1. IndInv => TypeOK
  <2> SUFFICES ASSUME IndInv PROVE TypeOK
    OBVIOUS
  <2>1. \A c \in Calls : IsCall(call[c]) BY DEF IndInv, CallInv, GoodCall
  <2>2. ASSUME NEW r, IsCall(r) PROVE r \in CallRecord
    <3>1. r = [method |-> r.method, vg |-> r.vg, on |-> r.on,
               devices |-> r.devices, at |-> r.at, step |-> r.step,
               answer |-> r.answer, erased |-> r.erased, ran |-> r.ran,
               disturbed |-> r.disturbed]
      BY <2>2 DEF IsCall
    <3>2. QED BY <2>2, <3>1 DEF IsCall, CallRecord, Lists
  <2>3. call \in [Calls -> CallRecord] BY <2>1, <2>2 DEF IndInv, CallInv
  <2>4. \A c \in Calls : call[c].at <= Len(call[c].devices) BY <2>1 DEF IsCall
  <2>5. QED BY <2>3, <2>4 DEF IndInv, Typed, TypeOK
<1>2. QED BY <1>1, IndInvHolds, PTL

\* No method call changes what is on a device that is mounted or holds a volume
\* that is open, however its wipe and its command race with the user; and only
\* the vgremove of a Delete takes a device with active volumes out of its group.
THEOREM UsersKeepTheirData == Spec => UsedDevicesSurvive
<1>1. IndInv /\ [Next]_vars =>
        [\A d \in Devices :
           /\ excl[d] = "user" => disk'[d] = disk[d]
           /\ excl[d] = "active" /\ disk'[d] # disk[d] =>
                \E c \in Calls : /\ call[c].method = "delete"
                                 /\ call[c].step = "command"
                                 /\ call[c].vg = disk[d]
                                 /\ call'[c].ran]_vars
  BY NextIndInv DEF Survives
<1>2. QED BY <1>1, IndInvHolds, PTL DEF Spec, UsedDevicesSurvive

\* The check of all the devices before the first wipe does what its comment
\* says (manager.c:685).
THEOREM ErasesAreAtomic == Spec => []ErasesAllOrNothing
<1>1. IndInv => ErasesAllOrNothing
  <2> SUFFICES ASSUME IndInv, NEW c \in Calls, WipesFirst(call[c]),
                      call[c].answer \in {"error", "cancelled"}
               PROVE  \/ call[c].erased \in {{}, ToSet(call[c].devices)}
                      \/ call[c].disturbed
    BY DEF ErasesAllOrNothing, WipesFirst
  <2>1. GoodCall(call[c]) BY DEF IndInv, CallInv
  <2>2. call[c].step \in {"late", "end"}
    BY <2>1 DEF GoodCall, IsCall, WhileWiping, BeforeCommand
  <2>3. QED BY <2>1, <2>2 DEF GoodCall, AtEnd, WhileLate
<1>2. QED BY <1>1, IndInvHolds, PTL

\* A method is answered with success exactly when its command has run and it
\* has wiped all that it was asked to wipe; a cancelled one has done nothing,
\* but for an AddDevice, which has wiped its device and may have added it.
THEOREM AnswersAreTrue == Spec => []AnswerTellsWhatHappened
<1>1. IndInv => AnswerTellsWhatHappened
  <2> SUFFICES ASSUME IndInv, NEW c \in Calls, call[c].answer # "none"
               PROVE  /\ call[c].answer \in {"success", "error"} =>
                           (call[c].answer = "success" <=>
                              call[c].ran /\ call[c].erased = ToSet(call[c].devices))
                      /\ call[c].answer = "cancelled" =>
                           IF call[c].method = "add"
                           THEN call[c].erased = ToSet(call[c].devices)
                           ELSE ~call[c].ran /\ call[c].erased = {}
    BY DEF AnswerTellsWhatHappened
  <2>1. GoodCall(call[c]) BY DEF IndInv, CallInv
  <2>2. call[c].step \in {"late", "end"}
    BY <2>1 DEF GoodCall, IsCall, WhileWiping, BeforeCommand
  <2>3. QED BY <2>1, <2>2 DEF GoodCall, AtEnd, WhileLate
<1>2. QED BY <1>1, IndInvHolds, PTL
=============================================================================
