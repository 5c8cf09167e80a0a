------------------------- MODULE MethodReplyProofs -------------------------
(***************************************************************************)
(* Proofs about MethodReply, for any groups, volumes and calls.            *)
(*                                                                         *)
(* The inductive invariant is a property CallInv of one call while the     *)
(* daemon runs: who owes the answer, that a freed closure goes with an     *)
(* answer that was given, and that only a cancelled command has completed  *)
(* before its end.  OnlyEarlyOrCancelledFault and AnsweredTwiceOnlyInDeath *)
(* are what it says of the call whose step brings the daemon down; and as  *)
(* it says that a call that is still to be answered was not answered yet,  *)
(* every step maps to a step of Service.                                   *)
(***************************************************************************)
EXTENDS MethodReply, TLAPS

-----------------------------------------------------------------------------
\* The fields have their types; with HasFields this is r \in CallRecord.
CallFields(r) ==
  /\ r.method \in {"none", "vg_create", "vg_rename", "lv_create", "lv_rename",
                   "activate", "deactivate", "vg_delete", "lv_delete",
                   "remove_device", "change"}
  /\ r.on \in Things
  /\ r.awaits \in Things
  /\ r.command \in {"none", "runs", "worked", "nudged", "over"}
  /\ r.cancel \in {"no", "asked", "done"}
  /\ r.result \in {"none", "success", "failure"}
  /\ r.closure \in {"none", "live", "freed"}
  /\ r.replies \in 0..2
  /\ r.answer \in {"none", "success", "error"}
  /\ r.missed \in BOOLEAN
  /\ r.stale \in BOOLEAN

HasFields(r) ==
  /\ DOMAIN r = {"method", "on", "awaits", "command", "cancel", "result",
                 "closure", "replies", "answer", "missed", "stale"}
  /\ r = [f \in DOMAIN r |-> r[f]]

\* What a method is called on, and what it makes.
ShapeInv(r) ==
  /\ r.method = "vg_rename" /\ r.command # "none" =>
       r.on \in GroupThings /\ r.awaits \in GroupThings
  /\ r.method = "lv_rename" /\ r.command # "none" =>
       r.on \in VolumeThings /\ r.awaits \in VolumeThings
  /\ r.method = "lv_create" /\ r.command # "none" => r.awaits \in VolumeThings

\* A call that waits has its closure from the launch of its job on; a refused
\* one never has.  The closure goes with the first answer, and a failure of
\* the job is one.
ClosureInv(r) ==
  /\ r.closure # "none" <=> Waits(r) /\ r.command # "none"
  /\ r.closure = "live" => r.replies = 0
  /\ r.closure = "freed" => r.replies = 1
  /\ r.closure = "freed" /\ r.answer = "error" => r.result = "failure"
  /\ Waits(r) /\ r.result = "failure" => r.closure = "freed"

\* A call that does not wait is answered when its job has completed.
AnswerInv(r) ==
  /\ r.answer = "none" <=> r.replies = 0
  /\ r.replies < 2
  /\ r.method = "none" => r.command = "none" /\ r.replies = 0
  /\ r.method # "none" /\ r.command = "none" => r.replies = 1
  /\ ~Waits(r) /\ r.command # "none" => (r.replies = 0 <=> r.result = "none")
  /\ ~Waits(r) /\ r.result = "failure" => r.answer = "error"

\* A job has completed when its command is over, or when it was cancelled, and
\* then it has failed.
JobInv(r) ==
  /\ r.result # "none" <=> r.command = "over" \/ r.cancel = "done"
  /\ r.cancel # "no" => Spawned(r) /\ r.command # "none"
  /\ r.cancel = "done" => r.result = "failure"

\* The call while the daemon runs.
LiveInv(r) == ClosureInv(r) /\ AnswerInv(r) /\ JobInv(r)

CallInv(r) == HasFields(r) /\ CallFields(r) /\ ShapeInv(r) /\ LiveInv(r)

Faults == {"none", "completion", "thread", "output", "object"}

IndInv ==
  /\ there \subseteq Things
  /\ seen \subseteq Things
  /\ call = [c \in Calls |-> call[c]]
  /\ \A c \in Calls : HasFields(call[c]) /\ CallFields(call[c]) /\ ShapeInv(call[c])
  /\ Runs => \A c \in Calls : LiveInv(call[c])
  /\ fault \in Faults
  /\ OnlyEarlyOrCancelledFault
  /\ AnsweredTwiceOnlyInDeath

-----------------------------------------------------------------------------
\* The fields' types make the record's type.
LEMMA FieldsMakeRecord ==
  ASSUME NEW r, HasFields(r), CallFields(r)
  PROVE  r \in CallRecord
BY DEF HasFields, CallFields, CallRecord

\* Groups, volumes and blocks are things.
LEMMA SomeGroupIsThing == SomeGroup \in Things
<1>1. (CHOOSE g \in Groups : TRUE) \in Groups BY NamesAssumption
<1>2. QED BY <1>1 DEF SomeGroup, Things, GroupThings

\* What a call says of itself before it is made.
LEMMA NoCallInv == CallInv(NoCall)
<1>1. HasFields(NoCall) BY DEF HasFields, NoCall
<1>2. CallFields(NoCall) BY SomeGroupIsThing DEF CallFields, NoCall
<1>3. ShapeInv(NoCall) BY DEF ShapeInv, NoCall
<1>4. LiveInv(NoCall)
  BY DEF LiveInv, ClosureInv, AnswerInv, JobInv, Waits, Spawned, NoCall
<1>5. QED BY <1>1, <1>2, <1>3, <1>4 DEF CallInv

\* Its fields.
LEMMA NoCallFields ==
  ASSUME NEW z, z = NoCall
  PROVE  /\ HasFields(z) /\ z.awaits = SomeGroup /\ z.command = "none"
         /\ z.cancel = "no" /\ z.result = "none" /\ z.closure = "none"
         /\ z.replies = 0 /\ z.answer = "none" /\ z.missed \in BOOLEAN
         /\ z.stale \in BOOLEAN
<1>1. HasFields(z) BY NoCallInv DEF CallInv
<1>2. QED BY <1>1 DEF NoCall

\* An answer: one more, and nothing else of the call changes.
LEMMA RepliedFields ==
  ASSUME NEW r, HasFields(r), NEW answer, NEW s, s = Replied(r, answer)
  PROVE  /\ HasFields(s)
         /\ s.method = r.method /\ s.on = r.on /\ s.awaits = r.awaits
         /\ s.command = r.command /\ s.cancel = r.cancel /\ s.result = r.result
         /\ s.closure = r.closure /\ s.replies = r.replies + 1
         /\ s.answer = answer /\ s.missed = r.missed /\ s.stale = r.stale
BY DEF HasFields, Replied

\* An answer that frees the closure.
LEMMA FreedFields ==
  ASSUME NEW r, HasFields(r), NEW answer, NEW s,
         s = RepliedAndFreed(r, answer)
  PROVE  /\ HasFields(s)
         /\ s.method = r.method /\ s.on = r.on /\ s.awaits = r.awaits
         /\ s.command = r.command /\ s.cancel = r.cancel /\ s.result = r.result
         /\ s.closure = "freed" /\ s.replies = r.replies + 1
         /\ s.answer = answer /\ s.missed = r.missed /\ s.stale = r.stale
<1>1. PICK q : q = Replied(r, answer) OBVIOUS
<1>2. /\ HasFields(q)
      /\ q.method = r.method /\ q.on = r.on /\ q.awaits = r.awaits
      /\ q.command = r.command /\ q.cancel = r.cancel /\ q.result = r.result
      /\ q.closure = r.closure /\ q.replies = r.replies + 1
      /\ q.answer = answer /\ q.missed = r.missed /\ q.stale = r.stale
  BY <1>1, RepliedFields
<1>3. s = [q EXCEPT !.closure = "freed"] BY <1>1 DEF RepliedAndFreed
<1>4. QED BY <1>2, <1>3 DEF HasFields

\* A refused call is answered and has no job.
LEMMA RefusedInv ==
  ASSUME NEW method \in {"vg_create", "lv_create", "change", "remove_device"},
         NEW o \in Things, NEW s,
         s = Refused(method, o)
  PROVE  /\ CallInv(s)
         /\ s.method = method /\ s.replies = 1 /\ s.answer = "error"
         /\ s.command = "none" /\ s.closure = "none"
<1>0. PICK z : z = NoCall OBVIOUS
<1>1. PICK n : n = [z EXCEPT !.method = method, !.on = o] OBVIOUS
<1>3. /\ HasFields(n) /\ n.method = method /\ n.on = o
      /\ n.awaits = SomeGroup /\ n.command = "none" /\ n.cancel = "no"
      /\ n.result = "none" /\ n.closure = "none" /\ n.replies = 0
      /\ n.missed \in BOOLEAN /\ n.stale \in BOOLEAN
  BY <1>0, <1>1, NoCallFields DEF HasFields
<1>4. s = Replied(n, "error") BY <1>0, <1>1 DEF Refused
<1>5. /\ HasFields(s) /\ s.method = method /\ s.on = o
      /\ s.awaits = SomeGroup /\ s.command = "none" /\ s.cancel = "no"
      /\ s.result = "none" /\ s.closure = "none" /\ s.replies = 1
      /\ s.answer = "error" /\ s.missed \in BOOLEAN /\ s.stale \in BOOLEAN
  BY <1>3, <1>4, RepliedFields
<1>6. CallFields(s) BY <1>5, SomeGroupIsThing DEF CallFields
<1>7. ShapeInv(s) BY <1>5 DEF ShapeInv
<1>8. LiveInv(s)
  BY <1>5 DEF LiveInv, ClosureInv, AnswerInv, JobInv, Waits, Spawned
<1>9. QED BY <1>5, <1>6, <1>7, <1>8 DEF CallInv

WaitingMethods == {"vg_create", "vg_rename", "lv_create", "lv_rename", "activate"}

\* What is launched fits its method.
LaunchShape(method, o, n, closure) ==
  /\ method \in {"vg_create", "vg_rename", "lv_create", "lv_rename",
                 "activate", "deactivate", "vg_delete", "lv_delete",
                 "remove_device", "change"}
  /\ o \in Things
  /\ n \in Things
  /\ closure = IF method \in WaitingMethods THEN "live" ELSE "none"
  /\ method = "vg_rename" => o \in GroupThings /\ n \in GroupThings
  /\ method = "lv_rename" => o \in VolumeThings /\ n \in VolumeThings
  /\ method = "lv_create" => n \in VolumeThings

\* A launched call is not answered, and has a closure if it waits.
LEMMA LaunchedInv ==
  ASSUME NEW method, NEW o, NEW n, NEW closure, NEW stale \in BOOLEAN,
         LaunchShape(method, o, n, closure),
         NEW s, s = Launched(method, o, n, closure, stale)
  PROVE  CallInv(s) /\ s.method = method /\ s.replies = 0 /\ s.command = "runs"
<1>0. PICK z : z = NoCall OBVIOUS
<1>1. s = [z EXCEPT !.method = method, !.on = o, !.awaits = n,
                    !.command = "runs", !.closure = closure, !.stale = stale]
  BY <1>0 DEF Launched
<1>a. HasFields(z) BY <1>0, NoCallFields
<1>b. HasFields(s) BY <1>a, <1>1 DEF HasFields
<1>c. /\ s.method = method /\ s.on = o /\ s.awaits = n /\ s.command = "runs"
      /\ s.closure = closure /\ s.stale = stale
      /\ s.cancel = z.cancel /\ s.result = z.result /\ s.replies = z.replies
      /\ s.answer = z.answer /\ s.missed = z.missed
  BY <1>a, <1>1 DEF HasFields
<1>2. /\ HasFields(s) /\ s.method = method /\ s.on = o /\ s.awaits = n
      /\ s.command = "runs" /\ s.cancel = "no" /\ s.result = "none"
      /\ s.closure = closure /\ s.replies = 0 /\ s.answer = "none"
      /\ s.missed \in BOOLEAN /\ s.stale \in BOOLEAN
  BY <1>0, <1>b, <1>c, NoCallFields
<1>3. CallFields(s) BY <1>2 DEF CallFields, LaunchShape
<1>4. ShapeInv(s) BY <1>2 DEF ShapeInv, LaunchShape
<1>5. LiveInv(s)
  BY <1>2 DEF LiveInv, ClosureInv, AnswerInv, JobInv, Waits, Spawned,
              LaunchShape, WaitingMethods
<1>6. QED BY <1>2, <1>3, <1>4, <1>5 DEF CallInv

-----------------------------------------------------------------------------
\* s is the call r with other histories.
SameButHistory(r, s) ==
  /\ HasFields(s)
  /\ s.method = r.method /\ s.on = r.on /\ s.awaits = r.awaits
  /\ s.command = r.command /\ s.cancel = r.cancel /\ s.result = r.result
  /\ s.closure = r.closure /\ s.replies = r.replies /\ s.answer = r.answer
  /\ s.missed \in BOOLEAN /\ s.stale \in BOOLEAN

LEMMA HistoryInv ==
  ASSUME NEW r, NEW s, CallInv(r), SameButHistory(r, s)
  PROVE  CallInv(s)
<1> USE DEF CallInv, SameButHistory
<1>1. CallFields(s) BY DEF CallFields
<1>2. ShapeInv(s) BY DEF ShapeInv
<1>3. LiveInv(s) BY DEF LiveInv, ClosureInv, AnswerInv, JobInv, Waits, Spawned
<1>4. QED BY <1>1, <1>2, <1>3

\* s is the call r whose job has gone on without an answer.
JobHasGoneOn(r, s) ==
  /\ HasFields(s)
  /\ s.method = r.method /\ s.on = r.on /\ s.awaits = r.awaits
  /\ s.result = r.result
  /\ s.closure = r.closure /\ s.replies = r.replies /\ s.answer = r.answer
  /\ s.missed \in BOOLEAN /\ s.stale \in BOOLEAN
  /\ \/ r.command = "runs" /\ s.command = "worked" /\ s.cancel = r.cancel
     \/ r.command = "worked" /\ s.command = "nudged" /\ s.cancel = r.cancel
     \/ /\ r.result = "failure" /\ r.command \in {"runs", "worked"}
        /\ s.command = "over" /\ s.cancel = r.cancel
     \/ /\ r.command \in {"runs", "worked"} /\ r.result = "none" /\ Spawned(r)
        /\ r.cancel = "no" /\ s.command = r.command /\ s.cancel = "asked"

LEMMA JobGoesOnInv ==
  ASSUME NEW r, NEW s, CallInv(r), JobHasGoneOn(r, s)
  PROVE  CallInv(s)
<1> USE DEF CallInv, JobHasGoneOn
<1>1. CallFields(s) BY DEF CallFields
<1>2. ShapeInv(s) BY DEF ShapeInv
<1>3. LiveInv(s) BY DEF LiveInv, ClosureInv, AnswerInv, JobInv, Waits, Spawned
<1>4. QED BY <1>1, <1>2, <1>3

-----------------------------------------------------------------------------
\* r is the call o at the moment its job completes with a result: its command
\* is over, or the completion is the one that Cancel queued.
IsCompleting(o, r, result) ==
  /\ HasFields(r)
  /\ r.method = o.method /\ r.on = o.on /\ r.awaits = o.awaits
  /\ r.result = o.result
  /\ r.closure = o.closure /\ r.replies = o.replies /\ r.answer = o.answer
  /\ r.missed = o.missed /\ r.stale = o.stale
  /\ result \in {"success", "failure"}
  /\ \/ /\ o.command \in {"runs", "worked", "nudged"}
        /\ result = "success" => o.command \in {"worked", "nudged"}
        /\ r.command = "over"
        /\ r.cancel = o.cancel
     \/ /\ o.cancel = "asked"
        /\ o.result = "none"
        /\ result = "failure"
        /\ r.command = o.command
        /\ r.cancel = "done"

\* The call after the handlers of "completed".
AfterCompletion(r, result) ==
  LET s == [r EXCEPT !.result = result]
  IN  IF ClosureIsGone(r, result) THEN s ELSE job_handled(s, result)

CompletionFault(r, result) ==
  IF ClosureIsGone(r, result) THEN "completion"
  ELSE IF r.result # "none" THEN "object" ELSE "none"

\* A completion in terms of one call.
LEMMA CompletionSteps ==
  ASSUME NEW c, NEW r, NEW result, JobCompletes(c, r, result)
  PROVE  /\ call' = [call EXCEPT ![c] = AfterCompletion(r, result)]
         /\ fault' = CompletionFault(r, result)
         /\ UNCHANGED <<there, seen>>
BY DEF JobCompletes, AfterCompletion, CompletionFault

\* What a completion makes of the fields.
LEMMA CompletionFields ==
  ASSUME NEW o, NEW r, NEW result, CallInv(o), IsCompleting(o, r, result),
         NEW s, s = AfterCompletion(r, result)
  PROVE  /\ HasFields(s)
         /\ s.method = o.method /\ s.on = o.on /\ s.awaits = o.awaits
         /\ s.command = r.command /\ s.cancel = r.cancel /\ s.result = result
         /\ s.missed = o.missed /\ s.stale = o.stale
         /\ \/ /\ ~Waits(o)
               /\ s.closure = o.closure /\ s.replies = o.replies + 1
               /\ s.answer = IF result = "success" THEN "success" ELSE "error"
            \/ /\ Waits(o)
               /\ result = "success" \/ o.closure = "freed"
               /\ s.closure = o.closure /\ s.replies = o.replies
               /\ s.answer = o.answer
            \/ /\ Waits(o) /\ result = "failure" /\ o.closure # "freed"
               /\ s.closure = "freed" /\ s.replies = o.replies + 1
               /\ s.answer = "error"
<1> USE DEF IsCompleting
<1>1. PICK q : q = [r EXCEPT !.result = result] OBVIOUS
<1>2. /\ HasFields(q)
      /\ q.method = o.method /\ q.on = o.on /\ q.awaits = o.awaits
      /\ q.command = r.command /\ q.cancel = r.cancel /\ q.result = result
      /\ q.closure = o.closure /\ q.replies = o.replies /\ q.answer = o.answer
      /\ q.missed = o.missed /\ q.stale = o.stale
  BY <1>1 DEF HasFields
<1>3. (Waits(q) <=> Waits(o)) /\ (Waits(r) <=> Waits(o)) BY <1>2 DEF Waits
<1>4. CASE ~Waits(o)
  <2>1. PICK a : a = IF result = "success" THEN "success" ELSE "error" OBVIOUS
  <2>2. s = Replied(q, a)
    BY <1>1, <1>3, <1>4, <2>1 DEF AfterCompletion, ClosureIsGone, job_handled
  <2>3. /\ HasFields(s)
        /\ s.method = q.method /\ s.on = q.on /\ s.awaits = q.awaits
        /\ s.command = q.command /\ s.cancel = q.cancel /\ s.result = q.result
        /\ s.closure = q.closure /\ s.replies = q.replies + 1
        /\ s.answer = a /\ s.missed = q.missed /\ s.stale = q.stale
    BY <1>2, <2>2, RepliedFields
  <2>4. QED BY <1>2, <1>4, <2>1, <2>3
<1>5. CASE Waits(o) /\ (result = "success" \/ o.closure = "freed")
  <2>1. s = q
    BY <1>1, <1>3, <1>5 DEF AfterCompletion, ClosureIsGone, job_handled
  <2>2. QED BY <1>2, <1>5, <2>1
<1>6. CASE Waits(o) /\ result = "failure" /\ o.closure # "freed"
  <2>1. s = job_failed(q)
    BY <1>1, <1>3, <1>6 DEF AfterCompletion, ClosureIsGone, job_handled
  <2>2. s = RepliedAndFreed(q, "error")
    BY <2>1 DEF job_failed
  <2>3. /\ HasFields(s)
        /\ s.method = q.method /\ s.on = q.on /\ s.awaits = q.awaits
        /\ s.command = q.command /\ s.cancel = q.cancel /\ s.result = q.result
        /\ s.closure = "freed" /\ s.replies = q.replies + 1
        /\ s.answer = "error" /\ s.missed = q.missed /\ s.stale = q.stale
    BY <1>2, <2>2, FreedFields
  <2>4. QED BY <1>2, <1>6, <2>3
<1>7. QED BY <1>4, <1>5, <1>6

\* What a fault of call s must look like.
FaultOf(s, f) ==
  /\ f = "completion" =>
       s.result = "failure" /\ (s.answer = "success" \/ s.cancel = "done")
  /\ f = "thread" =>
       /\ s.method = "vg_create" /\ s.answer = "success"
       /\ s.command \in {"runs", "worked"}
  /\ f \in {"output", "object"} => Spawned(s) /\ s.cancel # "no"
  /\ s.replies > 1 =>
       f = "object" /\ ~Waits(s) /\ Spawned(s) /\ s.cancel = "done"

\* A first completion keeps the invariant of the call, a second one is the
\* fault of a cancelled command.
LEMMA CompletedInv ==
  ASSUME NEW o, NEW r, NEW result, CallInv(o), IsCompleting(o, r, result),
         NEW s, s = AfterCompletion(r, result)
  PROVE  /\ HasFields(s) /\ CallFields(s) /\ ShapeInv(s)
         /\ CompletionFault(r, result) = "none" => LiveInv(s)
         /\ FaultOf(s, CompletionFault(r, result))
         /\ CompletionFault(r, result) \in Faults
<1>1. /\ HasFields(s)
      /\ s.method = o.method /\ s.on = o.on /\ s.awaits = o.awaits
      /\ s.command = r.command /\ s.cancel = r.cancel /\ s.result = result
      /\ s.missed = o.missed /\ s.stale = o.stale
      /\ \/ /\ ~Waits(o)
            /\ s.closure = o.closure /\ s.replies = o.replies + 1
            /\ s.answer = IF result = "success" THEN "success" ELSE "error"
         \/ /\ Waits(o)
            /\ result = "success" \/ o.closure = "freed"
            /\ s.closure = o.closure /\ s.replies = o.replies
            /\ s.answer = o.answer
         \/ /\ Waits(o) /\ result = "failure" /\ o.closure # "freed"
            /\ s.closure = "freed" /\ s.replies = o.replies + 1
            /\ s.answer = "error"
  BY CompletionFields
<1>2. /\ r.method = o.method /\ r.closure = o.closure /\ r.result = o.result
      /\ result \in {"success", "failure"}
      /\ \/ /\ o.command \in {"runs", "worked", "nudged"}
            /\ r.command = "over" /\ r.cancel = o.cancel
         \/ /\ o.cancel = "asked" /\ o.result = "none" /\ result = "failure"
            /\ r.command = o.command /\ r.cancel = "done"
  BY DEF IsCompleting
<1>3. CallFields(o) /\ ShapeInv(o) /\ ClosureInv(o) /\ AnswerInv(o) /\ JobInv(o)
  BY DEF CallInv, LiveInv
<1>4. /\ Waits(s) <=> Waits(o)
      /\ Waits(r) <=> Waits(o)
      /\ Spawned(s) <=> Spawned(o)
  BY <1>1, <1>2 DEF Waits, Spawned
<1>5. o.command # "none" BY <1>2, <1>3 DEF JobInv
<1>6. s.replies \in 0..2 BY <1>1, <1>3 DEF CallFields, AnswerInv
<1>7. CallFields(s)
  <2>1. s.answer \in {"none", "success", "error"} /\ s.closure \in {"none", "live", "freed"}
    BY <1>1, <1>3 DEF CallFields
  <2>2. s.command \in {"none", "runs", "worked", "nudged", "over"}
        /\ s.cancel \in {"no", "asked", "done"}
    BY <1>1, <1>2, <1>3 DEF CallFields
  <2>3. QED BY <1>1, <1>2, <1>3, <1>6, <2>1, <2>2 DEF CallFields
<1>8. ShapeInv(s) BY <1>1, <1>3, <1>5 DEF ShapeInv
<1>9. CASE ClosureIsGone(r, result)
  <2>1. Waits(o) /\ result = "failure" /\ o.closure = "freed"
    BY <1>2, <1>4, <1>9 DEF ClosureIsGone
  <2>2. s.replies = 1 /\ s.answer = o.answer /\ s.cancel = r.cancel
    BY <1>1, <1>3, <2>1 DEF ClosureInv
  <2>3. o.answer = "success" \/ o.result = "failure"
    BY <1>3, <2>1 DEF CallFields, ClosureInv, AnswerInv
  <2>4. o.result = "failure" => r.cancel = "done" BY <1>2, <1>3 DEF JobInv
  <2>5. CompletionFault(r, result) = "completion" BY <1>9 DEF CompletionFault
  <2>6. QED BY <1>1, <1>7, <1>8, <2>1, <2>2, <2>3, <2>4, <2>5 DEF FaultOf, Faults
<1>10. CASE ~ClosureIsGone(r, result) /\ o.result # "none"
  <2>1. CompletionFault(r, result) = "object" BY <1>2, <1>10 DEF CompletionFault
  <2>2. /\ o.command \in {"runs", "worked", "nudged"} /\ r.cancel = o.cancel
        /\ o.cancel = "done" /\ Spawned(o) /\ o.result = "failure"
    BY <1>2, <1>3, <1>10 DEF JobInv
  <2>3. Waits(o) => o.closure = "freed" BY <1>3, <2>2 DEF ClosureInv
  <2>4. Waits(o) => s.replies < 2 BY <1>1, <1>3, <2>3 DEF AnswerInv
  <2>5. QED BY <1>1, <1>4, <1>6, <1>7, <1>8, <2>1, <2>2, <2>4 DEF FaultOf, Faults
<1>11. CASE ~ClosureIsGone(r, result) /\ o.result = "none"
  <2>1. CompletionFault(r, result) = "none" BY <1>2, <1>11 DEF CompletionFault
  <2>2. Waits(o) /\ result = "failure" => o.closure = "live"
    BY <1>2, <1>3, <1>4, <1>5, <1>11 DEF ClosureIsGone, ClosureInv, CallFields
  <2>3. JobInv(s) BY <1>1, <1>2, <1>3, <1>4, <1>5, <1>11 DEF JobInv
  <2>4. CASE ~Waits(o)
    <3>1. o.replies = 0 /\ o.closure = "none"
      BY <1>3, <1>5, <1>11, <2>4 DEF AnswerInv, ClosureInv
    <3>2. /\ s.closure = "none" /\ s.replies = 1
          /\ s.answer = IF result = "success" THEN "success" ELSE "error"
      BY <1>1, <2>4, <3>1
    <3>3. s.method # "none" BY <1>1, <1>3, <1>5 DEF AnswerInv
    <3>4. ClosureInv(s) /\ AnswerInv(s)
      BY <1>1, <1>2, <1>4, <1>5, <2>4, <3>2, <3>3 DEF ClosureInv, AnswerInv
    <3>5. QED BY <1>1, <1>7, <1>8, <2>1, <2>3, <3>2, <3>4 DEF LiveInv, FaultOf, Faults
  <2>5. CASE Waits(o) /\ result = "success"
    <3>1. s.closure = o.closure /\ s.replies = o.replies /\ s.answer = o.answer
      BY <1>1, <2>5
    <3>2. s.command # "none" BY <1>1, <1>2, <1>5
    <3>3. ClosureInv(s)
      BY <1>1, <1>3, <1>4, <1>5, <1>11, <2>5, <3>1, <3>2 DEF ClosureInv
    <3>4. AnswerInv(s)
      BY <1>1, <1>3, <1>4, <1>5, <2>5, <3>1, <3>2 DEF AnswerInv
    <3>5. s.replies < 2 BY <3>4 DEF AnswerInv
    <3>6. ~(s.replies > 1) BY <1>6, <3>5
    <3>7. QED BY <1>1, <1>7, <1>8, <2>1, <2>3, <3>3, <3>4, <3>6 DEF LiveInv, FaultOf, Faults
  <2>6. CASE Waits(o) /\ result = "failure"
    <3>1. o.closure = "live" /\ o.replies = 0 BY <1>3, <2>2, <2>6 DEF ClosureInv
    <3>2. s.closure = "freed" /\ s.replies = 1 /\ s.answer = "error"
      BY <1>1, <2>6, <3>1
    <3>3. s.command # "none" /\ s.method # "none"
      BY <1>1, <1>2, <1>3, <1>5 DEF AnswerInv
    <3>4. ClosureInv(s) /\ AnswerInv(s)
      BY <1>1, <1>4, <2>6, <3>2, <3>3 DEF ClosureInv, AnswerInv
    <3>5. QED BY <1>1, <1>7, <1>8, <2>1, <2>3, <3>2, <3>4 DEF LiveInv, FaultOf, Faults
  <2>7. QED BY <1>2, <2>4, <2>5, <2>6
<1>12. QED BY <1>9, <1>10, <1>11

\* An announcement answers a call that waits, once.
LEMMA AnnouncedInv ==
  ASSUME NEW r, CallInv(r), r.closure = "live", NEW s,
         s = RepliedAndFreed(r, "success")
  PROVE  /\ CallInv(s)
         /\ s.closure = "freed" /\ s.replies = 1 /\ s.answer = "success"
         /\ s.method = r.method /\ r.method # "none" /\ r.replies = 0
<1>1. HasFields(r) /\ CallFields(r) /\ ShapeInv(r) /\ ClosureInv(r)
      /\ AnswerInv(r) /\ JobInv(r)
  BY DEF CallInv, LiveInv
<1>2. /\ r.replies = 0 /\ Waits(r) /\ r.command # "none"
      /\ r.result # "failure" /\ r.method # "none"
  BY <1>1 DEF ClosureInv, AnswerInv
<1>3. /\ HasFields(s)
      /\ s.method = r.method /\ s.on = r.on /\ s.awaits = r.awaits
      /\ s.command = r.command /\ s.cancel = r.cancel /\ s.result = r.result
      /\ s.closure = "freed" /\ s.replies = 1
      /\ s.answer = "success" /\ s.missed = r.missed /\ s.stale = r.stale
  BY <1>1, <1>2, FreedFields
<1>4. CallFields(s) BY <1>1, <1>3 DEF CallFields
<1>5. ShapeInv(s) BY <1>1, <1>3 DEF ShapeInv
<1>6. (Waits(s) <=> Waits(r)) /\ (Spawned(s) <=> Spawned(r))
  BY <1>3 DEF Waits, Spawned
<1>7. ClosureInv(s) /\ AnswerInv(s) /\ JobInv(s)
  BY <1>1, <1>2, <1>3, <1>6 DEF ClosureInv, AnswerInv, JobInv
<1>8. CallInv(s) BY <1>3, <1>4, <1>5, <1>7 DEF CallInv, LiveInv
<1>9. QED BY <1>2, <1>3, <1>8

\* "published", for the calls that await it and the others.
LEMMA PublishedInv ==
  ASSUME NEW r, CallInv(r), NEW t, NEW s, s = published(r, t)
  PROVE  /\ CallInv(s)
         /\ \/ s = r /\ ~(r.closure = "live" /\ r.awaits = t /\ ~r.stale)
            \/ /\ r.closure = "live" /\ r.awaits = t /\ ~r.stale
               /\ s.closure = "freed" /\ s.replies = 1 /\ s.answer = "success"
               /\ s.method = r.method /\ r.method # "none" /\ r.replies = 0
<1>1. CASE ~(r.closure = "live" /\ r.awaits = t /\ ~r.stale)
  BY <1>1 DEF published
<1>2. CASE r.closure = "live" /\ r.awaits = t /\ ~r.stale
  <2>1. s = RepliedAndFreed(r, "success") BY <1>2 DEF published
  <2>2. QED BY <1>2, <2>1, AnnouncedInv
<1>3. QED BY <1>1, <1>2

-----------------------------------------------------------------------------
\* The initial state.
LEMMA InitIndInv == Init => IndInv
<1> SUFFICES ASSUME Init PROVE IndInv
  OBVIOUS
<1>1. \A c \in Calls : call[c] = NoCall BY DEF Init
<1>2. \A c \in Calls : CallInv(call[c]) BY <1>1, NoCallInv
<1>3. \A c \in Calls : ~(call[c].replies > 1)
  BY <1>1 DEF NoCall
<1>4. AnsweredTwiceOnlyInDeath BY <1>3 DEF AnsweredTwiceOnlyInDeath
<1>5. OnlyEarlyOrCancelledFault BY DEF Init, OnlyEarlyOrCancelledFault
<1>6. QED BY <1>2, <1>4, <1>5 DEF Init, IndInv, CallInv, Runs, Faults

\* While the daemon runs every call has its invariant.
LEMMA RunningCallInv ==
  ASSUME IndInv, Runs, NEW c \in Calls
  PROVE  CallInv(call[c])
BY DEF IndInv, CallInv

\* A step without a fault changes each call to one that satisfies CallInv.
LEMMA KeepsIndInv ==
  ASSUME fault' = "none", there' \subseteq Things, seen' \subseteq Things,
         call' = [c \in Calls |-> call'[c]], \A c \in Calls : CallInv(call'[c])
  PROVE  IndInv'
<1>1. OnlyEarlyOrCancelledFault' BY DEF OnlyEarlyOrCancelledFault
<1>2. \A c \in Calls : ~(call'[c].replies > 1)
  BY DEF CallInv, CallFields, LiveInv, AnswerInv
<1>3. AnsweredTwiceOnlyInDeath' BY <1>2 DEF AnsweredTwiceOnlyInDeath
<1>4. QED BY <1>1, <1>3 DEF IndInv, CallInv, Faults

\* The record of one call is replaced.
LEMMA OneCallChanges ==
  ASSUME IndInv, NEW c \in Calls, NEW r, call' = [call EXCEPT ![c] = r]
  PROVE  /\ call'[c] = r
         /\ \A d \in Calls \ {c} : call'[d] = call[d]
         /\ call' = [d \in Calls |-> call'[d]]
<1>1. call = [d \in Calls |-> call[d]] BY DEF IndInv
<1>2. call' = [d \in Calls |-> IF d = c THEN r ELSE call[d]] BY <1>1
<1>3. QED BY <1>2

\* A step of one call.
LEMMA CallKeepsIndInv ==
  ASSUME IndInv, Runs, fault' = "none", there' \subseteq Things,
         UNCHANGED seen, NEW c \in Calls, NEW r,
         call' = [call EXCEPT ![c] = r], CallInv(r)
  PROVE  IndInv'
<1>1. /\ call'[c] = r /\ \A d \in Calls \ {c} : call'[d] = call[d]
      /\ call' = [d \in Calls |-> call'[d]]
  BY OneCallChanges
<1>2. \A d \in Calls : CallInv(call'[d]) BY <1>1, RunningCallInv
<1>3. seen' \subseteq Things BY DEF IndInv
<1>4. QED BY <1>1, <1>2, <1>3, KeepsIndInv

\* A step of one call that brings the daemon down.
LEMMA FaultKeepsIndInv ==
  ASSUME IndInv, Runs, fault' \in Faults \ {"none"}, UNCHANGED <<there, seen>>,
         NEW c \in Calls, NEW s, call' = [call EXCEPT ![c] = s],
         HasFields(s), CallFields(s), ShapeInv(s), FaultOf(s, fault')
  PROVE  IndInv'
<1>1. /\ call'[c] = s /\ \A d \in Calls \ {c} : call'[d] = call[d]
      /\ call' = [d \in Calls |-> call'[d]]
  BY OneCallChanges
<1>2. \A d \in Calls : HasFields(call'[d]) /\ CallFields(call'[d]) /\ ShapeInv(call'[d])
  BY <1>1 DEF IndInv
<1>3. \A d \in Calls \ {c} : ~(call'[d].replies > 1)
  BY <1>1, RunningCallInv DEF CallInv, CallFields, LiveInv, AnswerInv
<1>4. AnsweredTwiceOnlyInDeath' BY <1>1, <1>3 DEF AnsweredTwiceOnlyInDeath, FaultOf
<1>5. OnlyEarlyOrCancelledFault'
  BY <1>1 DEF OnlyEarlyOrCancelledFault, FaultOf
<1>6. there' \subseteq Things /\ seen' \subseteq Things BY DEF IndInv
<1>7. ~Runs' BY DEF Runs
<1>8. QED BY <1>1, <1>2, <1>4, <1>5, <1>6, <1>7 DEF IndInv

\* The record of c is replaced by that of a refused or of a launched call.
RefusesIt(c) ==
  \E method \in {"vg_create", "lv_create", "change", "remove_device"}, o \in Things :
    call' = [call EXCEPT ![c] = Refused(method, o)]

LaunchesIt(c) ==
  \E method, o, n, closure : \E stale \in BOOLEAN :
    /\ LaunchShape(method, o, n, closure)
    /\ call' = [call EXCEPT ![c] = Launched(method, o, n, closure, stale)]

Steps(c) == RefusesIt(c) \/ LaunchesIt(c)

\* A refusal.
LEMMA RefusesSteps ==
  ASSUME NEW c, NEW method \in {"vg_create", "lv_create", "change", "remove_device"},
         NEW o \in Things, Refuses(c, method, o)
  PROVE  Steps(c)
<1>1. call' = [call EXCEPT ![c] = Refused(method, o)]
  BY DEF Refuses
<1>2. RefusesIt(c) BY <1>1 DEF RefusesIt
<1>3. QED BY <1>2 DEF Steps

\* A launch that is answered by the job.
LEMMA RepliesSteps ==
  ASSUME NEW c, NEW method \in {"deactivate", "vg_delete", "lv_delete",
                                "remove_device", "change"},
         NEW o \in Things, LaunchesAndReplies(c, method, o)
  PROVE  Steps(c)
<1>1. call' = [call EXCEPT ![c] = Launched(method, o, o, "none", FALSE)]
  BY DEF LaunchesAndReplies, Launches
<1>2. LaunchShape(method, o, o, "none") BY DEF LaunchShape, WaitingMethods
<1>3. FALSE \in BOOLEAN OBVIOUS
<1>4. LaunchesIt(c) BY <1>1, <1>2, <1>3 DEF LaunchesIt
<1>5. QED BY <1>4 DEF Steps

\* A launch with a closure.
LEMMA WaitsSteps ==
  ASSUME NEW c, NEW method, NEW o, NEW n, LaunchShape(method, o, n, "live"),
         LaunchesAndWaits(c, method, o, n)
  PROVE  Steps(c)
<1>1. PICK stale \in BOOLEAN :
        call' = [call EXCEPT ![c] = Launched(method, o, n, "live", stale)]
  BY DEF LaunchesAndWaits, Launches
<1>2. LaunchesIt(c) BY <1>1 DEF LaunchesIt
<1>3. QED BY <1>2 DEF Steps

\* The kinds of things.
LEMMA KindsOfThings ==
  /\ GroupThings \subseteq Things /\ VolumeThings \subseteq Things
  /\ BlockThings \subseteq Things
  /\ \A g \in Groups : Group(g) \in GroupThings
  /\ \A g \in Groups, v \in Volumes :
       Volume(g, v) \in VolumeThings /\ Block(g, v) \in BlockThings
  /\ \A t \in Things : t.group \in Groups
  /\ \A t \in VolumeThings \cup BlockThings : t.volume \in Volumes
<1>1. \A t \in Things : t.group \in Groups
  BY DEF Things, GroupThings, VolumeThings, BlockThings, Group, Volume, Block
<1>2. \A t \in VolumeThings \cup BlockThings : t.volume \in Volumes
  BY DEF VolumeThings, BlockThings, Volume, Block
<1>3. QED BY <1>1, <1>2 DEF Things, GroupThings, VolumeThings, BlockThings

\* A handler refuses its call or launches a job for it.
LEMMA HandlerSteps ==
  ASSUME NEW c \in Calls, Handles(c)
  PROVE  /\ Runs
         /\ UNCHANGED <<there, seen, fault>>
         /\ call[c].method = "none"
         /\ Steps(c)
<1> DEFINE Frame == /\ Runs /\ UNCHANGED <<there, seen, fault>>
                    /\ call[c].method = "none"
<1>1. ASSUME NEW method, NEW o, Refuses(c, method, o) PROVE Frame
  BY <1>1 DEF Refuses
<1>2. ASSUME NEW r, Launches(c, r) PROVE Frame BY <1>2 DEF Launches
<1>3. ASSUME NEW method, NEW o, LaunchesAndReplies(c, method, o) PROVE Frame
  BY <1>2, <1>3 DEF LaunchesAndReplies
<1>4. ASSUME NEW method, NEW o, NEW n, LaunchesAndWaits(c, method, o, n)
      PROVE  Frame
  BY <1>2, <1>4 DEF LaunchesAndWaits
<1> HIDE DEF Frame
<1>5. ASSUME NEW o \in GroupThings \cup VolumeThings, CreatesOn(c, o)
      PROVE  Frame /\ Steps(c)
  <2>1. PICK v \in Volumes :
          LaunchesAndWaits(c, "lv_create", o, Volume(o.group, v))
    BY <1>5 DEF CreatesOn
  <2>2. LaunchShape("lv_create", o, Volume(o.group, v), "live")
    BY KindsOfThings DEF LaunchShape, WaitingMethods
  <2>3. QED BY <1>4, <2>1, <2>2, WaitsSteps
<1>6. CASE handle_volume_group_create(c)
  <2>1. PICK g \in Groups :
          \/ Refuses(c, "vg_create", Group(g))
          \/ LaunchesAndWaits(c, "vg_create", Group(g), Group(g))
    BY <1>6 DEF handle_volume_group_create
  <2>2. Group(g) \in Things BY KindsOfThings
  <2>3. LaunchShape("vg_create", Group(g), Group(g), "live")
    BY <2>2 DEF LaunchShape, WaitingMethods
  <2>4. CASE Refuses(c, "vg_create", Group(g)) BY <1>1, <2>2, <2>4, RefusesSteps DEF Frame
  <2>5. CASE LaunchesAndWaits(c, "vg_create", Group(g), Group(g))
    BY <1>4, <2>3, <2>5, WaitsSteps DEF Frame
  <2>6. QED BY <2>1, <2>4, <2>5 DEF Frame
<1>7. CASE handle_create_plain_volume(c)
  BY <1>5, <1>7 DEF handle_create_plain_volume, Frame
<1>8. CASE handle_create_thin_volume(c)
  <2>1. PICK o \in GroupThings : Refuses(c, "lv_create", o) \/ CreatesOn(c, o)
    BY <1>8 DEF handle_create_thin_volume
  <2>2. CASE Refuses(c, "lv_create", o) BY <1>1, <2>2, RefusesSteps, KindsOfThings DEF Frame
  <2>3. QED BY <1>5, <2>1, <2>2 DEF Frame
<1>9. CASE handle_create_snapshot(c)
  BY <1>5, <1>9 DEF handle_create_snapshot, Frame
<1>10. CASE volume_group_handle_rename(c)
  <2>1. PICK o \in GroupThings, n \in GroupThings : LaunchesAndWaits(c, "vg_rename", o, n)
    BY <1>10 DEF volume_group_handle_rename
  <2>2. LaunchShape("vg_rename", o, n, "live")
    BY KindsOfThings DEF LaunchShape, WaitingMethods
  <2>3. QED BY <1>4, <2>1, <2>2, WaitsSteps DEF Frame
<1>11. CASE logical_volume_handle_rename(c)
  <2>1. PICK o \in VolumeThings, v \in Volumes :
          LaunchesAndWaits(c, "lv_rename", o, Volume(o.group, v))
    BY <1>11 DEF logical_volume_handle_rename
  <2>2. LaunchShape("lv_rename", o, Volume(o.group, v), "live")
    BY KindsOfThings DEF LaunchShape, WaitingMethods
  <2>3. QED BY <1>4, <2>1, <2>2, WaitsSteps DEF Frame
<1>12. CASE handle_activate(c)
  <2>1. PICK o \in VolumeThings :
          LaunchesAndWaits(c, "activate", o, Block(o.group, o.volume))
    BY <1>12 DEF handle_activate
  <2>2. LaunchShape("activate", o, Block(o.group, o.volume), "live")
    BY KindsOfThings DEF LaunchShape, WaitingMethods
  <2>3. QED BY <1>4, <2>1, <2>2, WaitsSteps DEF Frame
<1>13. ASSUME NEW method \in {"deactivate", "vg_delete", "lv_delete",
                              "remove_device", "change"},
              NEW o \in GroupThings \cup VolumeThings,
              LaunchesAndReplies(c, method, o)
       PROVE  Frame /\ Steps(c)
  BY <1>3, <1>13, RepliesSteps, KindsOfThings
<1>14. ASSUME NEW method \in {"change", "remove_device"}, NEW o \in GroupThings,
              Refuses(c, method, o)
       PROVE  Frame /\ Steps(c)
  BY <1>1, <1>14, RefusesSteps, KindsOfThings
<1>15. CASE handle_deactivate(c) BY <1>13, <1>15 DEF handle_deactivate, Frame
<1>16. CASE volume_group_handle_delete(c)
  BY <1>13, <1>16 DEF volume_group_handle_delete, Frame
<1>17. CASE logical_volume_handle_delete(c)
  BY <1>13, <1>17 DEF logical_volume_handle_delete, Frame
<1>18. CASE handle_resize(c) BY <1>13, <1>18 DEF handle_resize, Frame
<1>19. CASE handle_add_device(c)
  BY <1>13, <1>14, <1>19 DEF handle_add_device, Frame
<1>20. CASE handle_remove_device(c)
  BY <1>13, <1>14, <1>20 DEF handle_remove_device, Frame
<1>21. QED
  BY <1>6, <1>7, <1>8, <1>9, <1>10, <1>11, <1>12, <1>15, <1>16, <1>17, <1>18,
     <1>19, <1>20
     DEF Handles, handle_create_thin_pool_volume, handle_empty_device

\* A refused or launched call has its invariant.
LEMMA StepsInv ==
  ASSUME NEW c, Steps(c)
  PROVE  \E s : /\ call' = [call EXCEPT ![c] = s] /\ CallInv(s) /\ s.method # "none"
                /\ \/ s.replies = 1 /\ s.answer = "error" /\ s.closure = "none"
                   \/ s.replies = 0 /\ s.command = "runs"
<1>1. CASE RefusesIt(c)
  <2>1. PICK method \in {"vg_create", "lv_create", "change", "remove_device"},
             o \in Things :
          call' = [call EXCEPT ![c] = Refused(method, o)]
    BY <1>1 DEF RefusesIt
  <2>2. PICK s : s = Refused(method, o)
    OBVIOUS
  <2>3. CallInv(s) /\ s.method = method /\ s.replies = 1 /\ s.answer = "error"
        /\ s.closure = "none"
    BY <2>2, RefusedInv
  <2>4. call' = [call EXCEPT ![c] = s] BY <2>1, <2>2
  <2>5. QED BY <2>3, <2>4
<1>2. CASE LaunchesIt(c)
  <2>1. PICK method, o, n, closure : \E stale \in BOOLEAN :
          /\ LaunchShape(method, o, n, closure)
          /\ call' = [call EXCEPT ![c] = Launched(method, o, n, closure, stale)]
    BY <1>2 DEF LaunchesIt
  <2>2. PICK stale \in BOOLEAN :
          /\ LaunchShape(method, o, n, closure)
          /\ call' = [call EXCEPT ![c] = Launched(method, o, n, closure, stale)]
    BY <2>1
  <2>3. PICK s : s = Launched(method, o, n, closure, stale) OBVIOUS
  <2>4. CallInv(s) /\ s.method = method /\ s.replies = 0 /\ s.command = "runs"
    BY <2>2, <2>3, LaunchedInv
  <2>5. method # "none" BY <2>2 DEF LaunchShape
  <2>6. call' = [call EXCEPT ![c] = s] BY <2>2, <2>3
  <2>7. QED BY <2>4, <2>5, <2>6
<1>3. QED BY <1>1, <1>2 DEF Steps

\* The thread of VolumeGroupCreate finds its arguments freed.
LEMMA ThreadFaultKeepsIndInv ==
  ASSUME IndInv, Runs, NEW c \in Calls, CallInv(call[c]),
         ThreadFault(call[c]), call[c].command \in {"runs", "worked"},
         fault' = "thread", UNCHANGED <<there, seen, call>>
  PROVE  IndInv'
<1>1. PICK r : r = call[c] OBVIOUS
<1>2. HasFields(r) /\ CallFields(r) /\ ShapeInv(r) /\ ClosureInv(r)
      /\ AnswerInv(r) /\ JobInv(r)
  BY <1>1 DEF CallInv, LiveInv
<1>3. r.method = "vg_create" /\ r.closure = "freed" /\ r.command \in {"runs", "worked"}
  BY <1>1 DEF ThreadFault
<1>4. ~Spawned(r) BY <1>3 DEF Spawned
<1>5. r.result = "none" BY <1>2, <1>3, <1>4 DEF JobInv
<1>6. r.answer = "success" /\ ~(r.replies > 1)
  BY <1>2, <1>3, <1>5 DEF ClosureInv, AnswerInv, CallFields
<1>7. FaultOf(r, "thread") BY <1>3, <1>6 DEF FaultOf
<1>8. call' = [call EXCEPT ![c] = r] BY <1>1 DEF IndInv
<1>9. "thread" \in Faults \ {"none"} BY DEF Faults
<1>10. QED BY <1>2, <1>7, <1>8, <1>9, FaultKeepsIndInv

-----------------------------------------------------------------------------
\* A renamed thing is a thing, and the renamed one is the one that is awaited.
LEMMA RenamedType ==
  ASSUME NEW u \in Things, NEW o, NEW n,
         \/ o \in GroupThings /\ n \in GroupThings
         \/ o \in VolumeThings /\ n \in VolumeThings /\ u \in Within(o)
  PROVE  Renamed(u, o, n) \in Things /\ (u = o => Renamed(u, o, n) = n)
<1>1. CASE o \in GroupThings /\ n \in GroupThings
  <2>1. PICK g \in Groups : n = Group(g) BY <1>1 DEF GroupThings
  <2>2. o.kind = "group" /\ n.group = g
    BY <1>1, <2>1 DEF GroupThings, Group
  <2>3. PICK v : v = u.volume OBVIOUS
  <2>4. Renamed(u, o, n) = [u EXCEPT !.group = g, !.volume = v]
    BY <2>2, <2>3 DEF Renamed
  <2>5. CASE u \in GroupThings
    <3>1. PICK h \in Groups : u = Group(h) BY <2>5 DEF GroupThings
    <3>2. Renamed(u, o, n) = Group(g) BY <2>3, <2>4, <3>1 DEF Group
    <3>3. QED BY <2>1, <3>2, KindsOfThings
  <2>6. CASE u \in VolumeThings
    <3>1. PICK h \in Groups, w \in Volumes : u = Volume(h, w)
      BY <2>6 DEF VolumeThings
    <3>2. Renamed(u, o, n) = Volume(g, w) BY <2>3, <2>4, <3>1 DEF Volume
    <3>3. u # o BY <2>2, <3>1 DEF Volume
    <3>4. QED BY <3>2, <3>3, KindsOfThings
  <2>7. CASE u \in BlockThings
    <3>1. PICK h \in Groups, w \in Volumes : u = Block(h, w)
      BY <2>7 DEF BlockThings
    <3>2. Renamed(u, o, n) = Block(g, w) BY <2>3, <2>4, <3>1 DEF Block
    <3>3. u # o BY <2>2, <3>1 DEF Block
    <3>4. QED BY <3>2, <3>3, KindsOfThings
  <2>8. QED BY <2>5, <2>6, <2>7 DEF Things
<1>2. CASE o \in VolumeThings /\ n \in VolumeThings /\ u \in Within(o)
  <2>1. PICK g \in Groups, v \in Volumes : n = Volume(g, v)
    BY <1>2 DEF VolumeThings
  <2>2. o.kind = "volume" /\ n.group = g /\ n.volume = v /\ o.volume \in Volumes
    BY <1>2, <2>1 DEF VolumeThings, Volume
  <2>3. Renamed(u, o, n) = [u EXCEPT !.group = g, !.volume = v]
    BY <2>2 DEF Renamed
  <2>4. u.volume \in Volumes BY <1>2, <2>2 DEF Within
  <2>5. CASE u \in GroupThings
    BY <2>4, <2>5, NamesAssumption DEF GroupThings, Group
  <2>6. CASE u \in VolumeThings
    <3>1. PICK h \in Groups, w \in Volumes : u = Volume(h, w)
      BY <2>6 DEF VolumeThings
    <3>2. Renamed(u, o, n) = Volume(g, v) BY <2>3, <3>1 DEF Volume
    <3>3. QED BY <2>1, <3>2, KindsOfThings
  <2>7. CASE u \in BlockThings
    <3>1. PICK h \in Groups, w \in Volumes : u = Block(h, w)
      BY <2>7 DEF BlockThings
    <3>2. Renamed(u, o, n) = Block(g, v) BY <2>3, <3>1 DEF Block
    <3>3. u # o BY <2>2, <3>1 DEF Block
    <3>4. QED BY <3>2, <3>3, KindsOfThings
  <2>8. QED BY <2>5, <2>6, <2>7 DEF Things
<1>3. QED BY <1>1, <1>2

\* What a command leaves are things.
LEMMA AfterCommandType ==
  ASSUME there \subseteq Things, NEW r, CallInv(r), r.command # "none"
  PROVE  AfterCommand(r) \subseteq Things
<1>1. r.on \in Things /\ r.awaits \in Things /\ ShapeInv(r)
  BY DEF CallInv, CallFields
<1>2. CASE r.method \in {"vg_rename", "lv_rename"}
  <2>1. AfterCommand(r) = (there \ Within(r.on)) \cup
          {Renamed(u, r.on, r.awaits) : u \in there \cap Within(r.on)}
    BY <1>2 DEF AfterCommand
  <2>2. ASSUME NEW u \in there \cap Within(r.on)
        PROVE  Renamed(u, r.on, r.awaits) \in Things
    BY <1>1, <1>2, RenamedType DEF ShapeInv
  <2>3. QED BY <2>1, <2>2
<1>3. CASE r.method = "lv_create"
  <2>1. Block(r.awaits.group, r.awaits.volume) \in Things
    BY <1>1, <1>3, KindsOfThings DEF ShapeInv
  <2>2. AfterCommand(r) =
          there \cup {r.awaits, Block(r.awaits.group, r.awaits.volume)}
    BY <1>3 DEF AfterCommand
  <2>3. QED BY <1>1, <2>1, <2>2
<1>4. CASE r.method \in {"vg_create", "activate"}
  BY <1>1, <1>4 DEF AfterCommand
<1>5. CASE r.method \notin {"vg_rename", "lv_rename", "lv_create", "vg_create",
                            "activate"}
  BY <1>5 DEF AfterCommand
<1>6. QED BY <1>2, <1>3, <1>4, <1>5

\* A history is written.
LEMMA MissedHistory ==
  ASSUME NEW r, HasFields(r), CallFields(r), NEW m \in BOOLEAN, NEW s,
         s = [r EXCEPT !.missed = m]
  PROVE  SameButHistory(r, s) /\ s.missed = m /\ s.stale = r.stale
BY DEF HasFields, CallFields, SameButHistory

LEMMA StaleHistory ==
  ASSUME NEW r, HasFields(r), CallFields(r), NEW m \in BOOLEAN, NEW s,
         s = [r EXCEPT !.stale = m]
  PROVE  SameButHistory(r, s) /\ s.stale = m /\ s.missed = r.missed
BY DEF HasFields, CallFields, SameButHistory

\* What a command does to another call that is waiting.
LEMMA LosesHistory ==
  ASSUME NEW r, HasFields(r), CallFields(r), NEW S, NEW s,
         s = [r EXCEPT !.missed = r.missed \/ Loses(r, S)]
  PROVE  /\ SameButHistory(r, s) /\ s.stale = r.stale
         /\ r.missed \/ Loses(r, S) => s.missed
<1>1. PICK m \in BOOLEAN : m <=> r.missed \/ Loses(r, S) OBVIOUS
<1>2. (r.missed \/ Loses(r, S)) = m BY <1>1 DEF CallFields, Loses
<1>3. s = [r EXCEPT !.missed = m] BY <1>2
<1>4. QED BY <1>1, <1>3, MissedHistory

\* The command of c has its effect, on c and on the others.
LEMMA CommandSteps ==
  ASSUME IndInv, NEW c \in Calls, CommandWorks(c), ~ThreadFault(call[c])
  PROVE  /\ Runs /\ fault' = fault /\ UNCHANGED seen
         /\ there' = AfterCommand(call[c])
         /\ call[c].command = "runs"
         /\ call' = [d \in Calls |-> call'[d]]
         /\ JobHasGoneOn(call[c], call'[c])
         /\ call'[c].command = "worked"
         /\ call[c].awaits \in seen => call'[c].missed
         /\ \A d \in Calls \ {c} :
              /\ SameButHistory(call[d], call'[d])
              /\ call'[d].stale = call[d].stale
              /\ call[d].missed \/ Loses(call[d], there') => call'[d].missed
<1>1. /\ Runs /\ call[c].command = "runs"
      /\ there' = AfterCommand(call[c]) /\ UNCHANGED <<seen, fault>>
      /\ call' = [d \in Calls |->
                    IF d = c
                    THEN [call[c] EXCEPT !.command = "worked",
                                         !.missed = call[c].awaits \in seen]
                    ELSE [call[d] EXCEPT !.missed = @ \/ Loses(call[d], there')]]
  BY DEF CommandWorks
<1>2. \A d \in Calls : HasFields(call[d]) /\ CallFields(call[d]) BY DEF IndInv
<1>3. ASSUME NEW d \in Calls \ {c}
      PROVE  /\ SameButHistory(call[d], call'[d])
             /\ call'[d].stale = call[d].stale
             /\ call[d].missed \/ Loses(call[d], there') => call'[d].missed
  <2>1. call'[d] = [call[d] EXCEPT !.missed = call[d].missed \/ Loses(call[d], there')]
    BY <1>1
  <2>2. QED BY <1>2, <2>1, LosesHistory
<1>4. /\ JobHasGoneOn(call[c], call'[c]) /\ call'[c].command = "worked"
      /\ call[c].awaits \in seen => call'[c].missed
  <2>1. PICK r : r = call[c] OBVIOUS
  <2>2. PICK m \in BOOLEAN : m <=> r.awaits \in seen OBVIOUS
  <2>3. (r.awaits \in seen) = m BY <2>2
  <2>4. PICK s : s = call'[c] OBVIOUS
  <2>5. s = [r EXCEPT !.command = "worked", !.missed = m]
    BY <1>1, <2>1, <2>3, <2>4
  <2>6. HasFields(r) /\ CallFields(r) BY <1>2, <2>1
  <2>7. /\ HasFields(s)
        /\ s.method = r.method /\ s.on = r.on /\ s.awaits = r.awaits
        /\ s.result = r.result /\ s.cancel = r.cancel
        /\ s.closure = r.closure /\ s.replies = r.replies /\ s.answer = r.answer
        /\ s.missed = m /\ s.stale = r.stale /\ s.command = "worked"
    BY <2>5, <2>6 DEF HasFields
  <2>8. JobHasGoneOn(r, s)
    BY <1>1, <2>1, <2>6, <2>7 DEF JobHasGoneOn, CallFields
  <2>9. QED BY <2>1, <2>2, <2>4, <2>7, <2>8
<1>5. call' = [d \in Calls |-> call'[d]] BY <1>1
<1>6. QED BY <1>1, <1>3, <1>4, <1>5

LEMMA CommandKeepsIndInv ==
  ASSUME IndInv, NEW c \in Calls, CommandWorks(c)
  PROVE  IndInv'
<1>1. Runs /\ call[c].command = "runs" BY DEF CommandWorks
<1>2. CallInv(call[c]) BY <1>1, RunningCallInv
<1>3. CASE ThreadFault(call[c])
  <2>1. fault' = "thread" /\ UNCHANGED <<there, seen, call>>
    BY <1>3 DEF CommandWorks
  <2>2. QED BY <1>1, <1>2, <1>3, <2>1, ThreadFaultKeepsIndInv
<1>4. CASE ~ThreadFault(call[c])
  <2>1. there \subseteq Things BY DEF IndInv
  <2>2. there' \subseteq Things
    BY <1>1, <1>2, <1>4, <2>1, CommandSteps, AfterCommandType
  <2>3. \A d \in Calls : CallInv(call'[d])
    BY <1>1, <1>4, CommandSteps, RunningCallInv, JobGoesOnInv, HistoryInv
  <2>4. fault' = "none" /\ seen' \subseteq Things
    BY <1>1, <1>4, CommandSteps DEF Runs, IndInv
  <2>5. call' = [d \in Calls |-> call'[d]] BY <1>4, CommandSteps
  <2>6. QED BY <2>2, <2>3, <2>4, <2>5, KeepsIndInv
<1>5. QED BY <1>3, <1>4

\* Somebody else runs an LVM command.
LEMMA SomebodySteps ==
  ASSUME IndInv, NEW t \in Things, SomebodysCommand(t)
  PROVE  /\ Runs /\ fault' = fault /\ UNCHANGED seen
         /\ there' \subseteq Things
         /\ call' = [d \in Calls |-> call'[d]]
         /\ \A d \in Calls :
              /\ SameButHistory(call[d], call'[d])
              /\ call'[d].stale = call[d].stale
              /\ call[d].missed \/ Loses(call[d], there') => call'[d].missed
<1>1. /\ Runs /\ UNCHANGED <<seen, fault>>
      /\ call' = [d \in Calls |->
                    [call[d] EXCEPT !.missed = @ \/ Loses(call[d], there')]]
  BY DEF SomebodysCommand
<1>2. there' \subseteq Things BY DEF SomebodysCommand, IndInv
<1>3. \A d \in Calls : HasFields(call[d]) /\ CallFields(call[d]) BY DEF IndInv
<1>4. ASSUME NEW d \in Calls
      PROVE  /\ SameButHistory(call[d], call'[d])
             /\ call'[d].stale = call[d].stale
             /\ call[d].missed \/ Loses(call[d], there') => call'[d].missed
  <2>1. call'[d] = [call[d] EXCEPT !.missed = call[d].missed \/ Loses(call[d], there')]
    BY <1>1
  <2>2. QED BY <1>3, <2>1, LosesHistory
<1>5. call' = [d \in Calls |-> call'[d]] BY <1>1
<1>6. QED BY <1>1, <1>2, <1>4, <1>5

\* A step that writes histories only.
LEMMA HistoryKeepsIndInv ==
  ASSUME IndInv, Runs, fault' = fault, there' \subseteq Things,
         seen' \subseteq Things, call' = [d \in Calls |-> call'[d]],
         \A d \in Calls : SameButHistory(call[d], call'[d])
  PROVE  IndInv'
<1>1. \A d \in Calls : CallInv(call'[d]) BY RunningCallInv, HistoryInv
<1>2. QED BY <1>1, KeepsIndInv DEF Runs

\* The thread of VolumeGroupCreate tells udev, Cancel is accepted, or a command
\* ends that nobody listens to.
GoesOnAlone(c) == TriggersUdev(c) \/ on_cancelled(c) \/ child_watch_from_release_cb(c)

LEMMA GoesOnSteps ==
  ASSUME IndInv, NEW c \in Calls, GoesOnAlone(c), fault' = fault
  PROVE  /\ Runs /\ UNCHANGED <<there, seen>>
         /\ \E s : /\ call' = [call EXCEPT ![c] = s] /\ JobHasGoneOn(call[c], s)
                   /\ s.stale = call[c].stale /\ s.missed = call[c].missed
                   /\ call[c].command = "runs" => s.command = "runs" \/ call[c].result = "failure"
<1>1. PICK r : r = call[c] OBVIOUS
<1>2. HasFields(r) /\ CallFields(r) BY <1>1 DEF IndInv
<1>3. CASE TriggersUdev(c)
  <2>1. /\ Runs /\ UNCHANGED <<there, seen>> /\ r.command = "worked"
        /\ call' = [call EXCEPT ![c].command = "nudged"]
    BY <1>1, <1>3 DEF TriggersUdev, Runs
  <2>2. PICK s : s = [r EXCEPT !.command = "nudged"] OBVIOUS
  <2>3. call' = [call EXCEPT ![c] = s] BY <1>1, <2>1, <2>2
  <2>4. /\ HasFields(s)
        /\ s.method = r.method /\ s.on = r.on /\ s.awaits = r.awaits
        /\ s.result = r.result /\ s.cancel = r.cancel
        /\ s.closure = r.closure /\ s.replies = r.replies /\ s.answer = r.answer
        /\ s.missed = r.missed /\ s.stale = r.stale /\ s.command = "nudged"
    BY <1>2, <2>2 DEF HasFields
  <2>5. JobHasGoneOn(r, s) BY <1>2, <2>1, <2>4 DEF JobHasGoneOn, CallFields
  <2>6. /\ s.stale = r.stale /\ s.missed = r.missed
        /\ r.command = "runs" => s.command = "runs" \/ r.result = "failure"
    BY <2>1, <2>4
  <2>7. Runs /\ UNCHANGED <<there, seen>> BY <2>1
  <2>8. QED BY <1>1, <2>3, <2>5, <2>6, <2>7
<1>4. CASE on_cancelled(c)
  <2>1. /\ Runs /\ UNCHANGED <<there, seen>> /\ r.command \in {"runs", "worked"}
        /\ r.result = "none" /\ r.cancel = "no" /\ Spawned(r)
        /\ call' = [call EXCEPT ![c].cancel = "asked"]
    BY <1>1, <1>4 DEF on_cancelled
  <2>2. PICK s : s = [r EXCEPT !.cancel = "asked"] OBVIOUS
  <2>3. call' = [call EXCEPT ![c] = s] BY <1>1, <2>1, <2>2
  <2>4. /\ HasFields(s)
        /\ s.method = r.method /\ s.on = r.on /\ s.awaits = r.awaits
        /\ s.result = r.result /\ s.cancel = "asked"
        /\ s.closure = r.closure /\ s.replies = r.replies /\ s.answer = r.answer
        /\ s.missed = r.missed /\ s.stale = r.stale /\ s.command = r.command
    BY <1>2, <2>2 DEF HasFields
  <2>5. JobHasGoneOn(r, s) BY <1>2, <2>1, <2>4 DEF JobHasGoneOn, CallFields
  <2>6. /\ s.stale = r.stale /\ s.missed = r.missed
        /\ r.command = "runs" => s.command = "runs" \/ r.result = "failure"
    BY <2>1, <2>4
  <2>7. Runs /\ UNCHANGED <<there, seen>> BY <2>1
  <2>8. QED BY <1>1, <2>3, <2>5, <2>6, <2>7
<1>5. CASE child_watch_from_release_cb(c)
  <2>1. /\ Runs /\ UNCHANGED <<there, seen>> /\ r.command \in {"runs", "worked"}
        /\ r.result = "failure"
        /\ call' = [call EXCEPT ![c].command = "over"]
    BY <1>1, <1>5 DEF child_watch_from_release_cb
  <2>2. PICK s : s = [r EXCEPT !.command = "over"] OBVIOUS
  <2>3. call' = [call EXCEPT ![c] = s] BY <1>1, <2>1, <2>2
  <2>4. /\ HasFields(s)
        /\ s.method = r.method /\ s.on = r.on /\ s.awaits = r.awaits
        /\ s.result = r.result /\ s.cancel = r.cancel
        /\ s.closure = r.closure /\ s.replies = r.replies /\ s.answer = r.answer
        /\ s.missed = r.missed /\ s.stale = r.stale /\ s.command = "over"
    BY <1>2, <2>2 DEF HasFields
  <2>5. JobHasGoneOn(r, s) BY <1>2, <2>1, <2>4 DEF JobHasGoneOn, CallFields
  <2>6. /\ s.stale = r.stale /\ s.missed = r.missed
        /\ r.command = "runs" => s.command = "runs" \/ r.result = "failure"
    BY <2>1, <2>4
  <2>7. Runs /\ UNCHANGED <<there, seen>> BY <2>1
  <2>8. QED BY <1>1, <2>3, <2>5, <2>6, <2>7
<1>6. QED BY <1>3, <1>4, <1>5 DEF GoesOnAlone

\* The thread's fault is the only one of these steps.
LEMMA GoesOnFault ==
  ASSUME NEW c, GoesOnAlone(c), fault' # fault
  PROVE  /\ Runs /\ ThreadFault(call[c]) /\ call[c].command = "worked"
         /\ fault' = "thread" /\ UNCHANGED <<there, seen, call>>
BY DEF GoesOnAlone, TriggersUdev, on_cancelled, child_watch_from_release_cb

LEMMA GoesOnKeepsIndInv ==
  ASSUME IndInv, NEW c \in Calls, GoesOnAlone(c)
  PROVE  IndInv'
<1>1. CASE fault' # fault
  BY <1>1, GoesOnFault, RunningCallInv, ThreadFaultKeepsIndInv
<1>2. CASE fault' = fault
  <2>1. Runs /\ UNCHANGED <<there, seen>> BY <1>2, GoesOnSteps
  <2>2. PICK s : call' = [call EXCEPT ![c] = s] /\ JobHasGoneOn(call[c], s)
    BY <1>2, GoesOnSteps
  <2>3. CallInv(s) BY <2>1, <2>2, RunningCallInv, JobGoesOnInv
  <2>4. fault' = "none" /\ there' \subseteq Things BY <1>2, <2>1 DEF Runs, IndInv
  <2>5. QED BY <2>1, <2>2, <2>3, <2>4, CallKeepsIndInv
<1>3. QED BY <1>1, <1>2

\* A job completes: its command has ended, or it was cancelled.
Completes(c) ==
  \/ \E result \in {"success", "failure"} : on_job_completed(c, result)
  \/ emit_completed_with_error_in_idle_cb(c)

LEMMA CompletesSteps ==
  ASSUME IndInv, NEW c \in Calls, Completes(c)
  PROVE  /\ Runs /\ UNCHANGED <<there, seen>>
         /\ \/ /\ call[c].cancel = "asked" /\ fault' = "output" /\ UNCHANGED call
            \/ \E r, result :
                 /\ IsCompleting(call[c], r, result)
                 /\ call' = [call EXCEPT ![c] = AfterCompletion(r, result)]
                 /\ fault' = CompletionFault(r, result)
<1>1. PICK o : o = call[c] OBVIOUS
<1>2. HasFields(o) /\ CallFields(o) BY <1>1 DEF IndInv
<1>3. ASSUME NEW result \in {"success", "failure"}, on_job_completed(c, result)
      PROVE  /\ Runs /\ UNCHANGED <<there, seen>>
             /\ \E r : /\ IsCompleting(call[c], r, result)
                       /\ call' = [call EXCEPT ![c] = AfterCompletion(r, result)]
                       /\ fault' = CompletionFault(r, result)
  <2>1. PICK r : r = [o EXCEPT !.command = "over"] OBVIOUS
  <2>2. /\ Runs /\ JobCompletes(c, r, result)
        /\ o.command \in {"runs", "worked", "nudged"}
        /\ result = "success" => o.command \in {"worked", "nudged"}
    BY <1>1, <1>3, <2>1 DEF on_job_completed
  <2>3. /\ HasFields(r)
        /\ r.method = o.method /\ r.on = o.on /\ r.awaits = o.awaits
        /\ r.result = o.result /\ r.cancel = o.cancel
        /\ r.closure = o.closure /\ r.replies = o.replies /\ r.answer = o.answer
        /\ r.missed = o.missed /\ r.stale = o.stale /\ r.command = "over"
    BY <1>2, <2>1 DEF HasFields
  <2>4. IsCompleting(o, r, result) BY <2>2, <2>3 DEF IsCompleting
  <2>5. QED BY <1>1, <2>2, <2>4, CompletionSteps
<1>4. CASE emit_completed_with_error_in_idle_cb(c)
  <2>1. Runs /\ o.cancel = "asked" BY <1>1, <1>4 DEF emit_completed_with_error_in_idle_cb
  <2>2. CASE o.result # "none"
    BY <1>1, <1>4, <2>1, <2>2 DEF emit_completed_with_error_in_idle_cb
  <2>3. CASE o.result = "none"
    <3>1. PICK r : r = [o EXCEPT !.cancel = "done"] OBVIOUS
    <3>2. JobCompletes(c, r, "failure")
      BY <1>1, <1>4, <2>3, <3>1 DEF emit_completed_with_error_in_idle_cb
    <3>3. /\ HasFields(r)
          /\ r.method = o.method /\ r.on = o.on /\ r.awaits = o.awaits
          /\ r.result = o.result /\ r.cancel = "done"
          /\ r.closure = o.closure /\ r.replies = o.replies /\ r.answer = o.answer
          /\ r.missed = o.missed /\ r.stale = o.stale /\ r.command = o.command
      BY <1>2, <3>1 DEF HasFields
    <3>4. IsCompleting(o, r, "failure") BY <2>1, <2>3, <3>3 DEF IsCompleting
    <3>5. QED BY <1>1, <2>1, <3>2, <3>4, CompletionSteps
  <2>4. QED BY <2>2, <2>3
<1>5. QED BY <1>3, <1>4 DEF Completes

LEMMA CompletionKeepsIndInv ==
  ASSUME IndInv, NEW c \in Calls, Completes(c)
  PROVE  IndInv'
<1>1. Runs /\ UNCHANGED <<there, seen>> BY CompletesSteps
<1>2. PICK o : o = call[c] OBVIOUS
<1>3. CallInv(o) BY <1>1, <1>2, RunningCallInv
<1>4. CASE call[c].cancel = "asked" /\ fault' = "output" /\ UNCHANGED call
  <2>1. Spawned(o) /\ ~(o.replies > 1)
    BY <1>2, <1>3, <1>4 DEF CallInv, LiveInv, JobInv, AnswerInv, CallFields
  <2>2. FaultOf(o, "output") BY <1>2, <1>4, <2>1 DEF FaultOf
  <2>3. call' = [call EXCEPT ![c] = o] BY <1>2, <1>4 DEF IndInv
  <2>4. fault' \in Faults \ {"none"} BY <1>4 DEF Faults
  <2>5. HasFields(o) /\ CallFields(o) /\ ShapeInv(o) BY <1>3 DEF CallInv
  <2>6. QED BY <1>1, <1>4, <2>2, <2>3, <2>4, <2>5, FaultKeepsIndInv
<1>5. ASSUME NEW r, NEW result, IsCompleting(o, r, result),
             call' = [call EXCEPT ![c] = AfterCompletion(r, result)],
             fault' = CompletionFault(r, result)
      PROVE  IndInv'
  <2>1. PICK s : s = AfterCompletion(r, result) OBVIOUS
  <2>2. /\ HasFields(s) /\ CallFields(s) /\ ShapeInv(s)
        /\ fault' = "none" => LiveInv(s)
        /\ FaultOf(s, fault') /\ fault' \in Faults
    BY <1>3, <1>5, <2>1, CompletedInv
  <2>3. call' = [call EXCEPT ![c] = s] BY <1>5, <2>1
  <2>4. CASE fault' = "none"
    <3>1. CallInv(s) BY <2>2, <2>4 DEF CallInv
    <3>2. there' \subseteq Things BY <1>1 DEF IndInv
    <3>3. QED BY <1>1, <2>3, <2>4, <3>1, <3>2, CallKeepsIndInv
  <2>5. CASE fault' # "none"
    BY <1>1, <2>2, <2>3, <2>5, FaultKeepsIndInv
  <2>6. QED BY <2>4, <2>5
<1>6. QED BY <1>2, <1>4, <1>5, CompletesSteps

\* Something is published.
LEMMA PublishKeepsIndInv ==
  ASSUME IndInv, NEW t \in Things, storage_daemon_publish(t)
  PROVE  IndInv'
<1>1. /\ Runs /\ UNCHANGED <<there, fault>> /\ seen' = seen \cup {t}
      /\ call' = [c \in Calls |-> published(call[c], t)]
  BY DEF storage_daemon_publish
<1>2. \A c \in Calls : call'[c] = published(call[c], t) BY <1>1
<1>3. \A c \in Calls : CallInv(call'[c]) BY <1>1, <1>2, RunningCallInv, PublishedInv
<1>4. call' = [c \in Calls |-> call'[c]] BY <1>1
<1>5. there' \subseteq Things /\ seen' \subseteq Things /\ fault' = "none"
  BY <1>1 DEF IndInv, Runs
<1>6. QED BY <1>3, <1>4, <1>5, KeepsIndInv

\* Something is disposed of: who compares with it will not hear.
LEMMA UnpublishSteps ==
  ASSUME IndInv, NEW t \in Things, storage_daemon_unpublish(t)
  PROVE  /\ Runs /\ UNCHANGED <<there, fault>> /\ seen' \subseteq seen
         /\ call' = [c \in Calls |-> call'[c]]
         /\ \A c \in Calls :
              /\ SameButHistory(call[c], call'[c])
              /\ call'[c].missed = call[c].missed
              /\ call[c].stale => call'[c].stale
<1> DEFINE P(c) == call[c].closure = "live"
                     /\ \E u \in Within(t) \cap seen : Holds(call[c], u)
<1>1. /\ Runs /\ UNCHANGED <<there, fault>>
      /\ call' = [c \in Calls |-> [call[c] EXCEPT !.stale = @ \/ P(c)]]
  BY DEF storage_daemon_unpublish
<1>2. seen' \subseteq seen BY DEF storage_daemon_unpublish
<1>3. ASSUME NEW c \in Calls
      PROVE  /\ SameButHistory(call[c], call'[c])
             /\ call'[c].missed = call[c].missed
             /\ call[c].stale => call'[c].stale
  <2>1. PICK r : r = call[c] OBVIOUS
  <2>2. HasFields(r) /\ CallFields(r) BY <2>1 DEF IndInv
  <2>3. PICK m \in BOOLEAN : m <=> r.stale \/ P(c) OBVIOUS
  <2>4. (r.stale \/ P(c)) = m BY <2>2, <2>3 DEF CallFields
  <2>5. call'[c] = [r EXCEPT !.stale = m] BY <1>1, <2>1, <2>4
  <2>6. QED BY <2>1, <2>2, <2>3, <2>5, StaleHistory
<1>4. call' = [c \in Calls |-> call'[c]] BY <1>1
<1>5. QED BY <1>1, <1>2, <1>3, <1>4

\* A block is made to point at another volume: who awaited it misses it.
LEMMA BlockSteps ==
  ASSUME IndInv, NEW b \in BlockThings, NEW n \in BlockThings,
         storage_block_update_lv(b, n)
  PROVE  /\ Runs /\ UNCHANGED <<there, fault>> /\ seen' = (seen \ {b}) \cup {n}
         /\ call' = [c \in Calls |-> call'[c]]
         /\ \A c \in Calls :
              /\ SameButHistory(call[c], call'[c])
              /\ call'[c].stale = call[c].stale
              /\ call[c].missed => call'[c].missed
              /\ call[c].closure = "live" /\ call[c].awaits = n => call'[c].missed
<1> DEFINE P(c) == call[c].closure = "live" /\ call[c].awaits = n
<1>1. /\ Runs /\ UNCHANGED <<there, fault>> /\ seen' = (seen \ {b}) \cup {n}
      /\ call' = [c \in Calls |-> [call[c] EXCEPT !.missed = @ \/ P(c)]]
  BY DEF storage_block_update_lv
<1>2. ASSUME NEW c \in Calls
      PROVE  /\ SameButHistory(call[c], call'[c])
             /\ call'[c].stale = call[c].stale
             /\ call[c].missed => call'[c].missed
             /\ P(c) => call'[c].missed
  <2>1. PICK r : r = call[c] OBVIOUS
  <2>2. HasFields(r) /\ CallFields(r) BY <2>1 DEF IndInv
  <2>3. PICK m \in BOOLEAN : m <=> r.missed \/ P(c) OBVIOUS
  <2>4. (r.missed \/ P(c)) = m BY <2>2, <2>3 DEF CallFields
  <2>5. call'[c] = [r EXCEPT !.missed = m] BY <1>1, <2>1, <2>4
  <2>6. QED BY <2>1, <2>2, <2>3, <2>5, MissedHistory
<1>3. call' = [c \in Calls |-> call'[c]] BY <1>1
<1>4. QED BY <1>1, <1>2, <1>3

\* A block without a path is published: some are answered, others miss it.
LEMMA RemovedSteps ==
  ASSUME IndInv, NEW n \in BlockThings, storage_block_update_lv_removed(n)
  PROVE  /\ Runs /\ UNCHANGED <<there, fault>> /\ seen' = seen \cup {n}
         /\ call' = [c \in Calls |-> call'[c]]
         /\ \A c \in Calls :
              /\ CallInv(call'[c])
              /\ \/ /\ SameButHistory(call[c], call'[c])
                    /\ call'[c].stale = call[c].stale
                    /\ call[c].missed => call'[c].missed
                    /\ call[c].closure = "live" /\ call[c].awaits = n =>
                         call'[c].missed
                 \/ /\ call'[c].closure = "freed" /\ call'[c].replies = 1
                    /\ call'[c].answer = "success"
                    /\ call'[c].method = call[c].method
                    /\ call[c].method # "none" /\ call[c].replies = 0
<1> DEFINE P(c) == call[c].closure = "live" /\ call[c].awaits = n
<1>1. /\ Runs /\ UNCHANGED <<there, fault>> /\ seen' = seen \cup {n}
      /\ call' = [c \in Calls |-> published_without_path(call[c], n)]
  BY DEF storage_block_update_lv_removed
<1>2. call' = [c \in Calls |-> call'[c]] BY <1>1
<1>3. ASSUME NEW c \in Calls
      PROVE  /\ CallInv(call'[c])
             /\ \/ /\ SameButHistory(call[c], call'[c])
                   /\ call'[c].stale = call[c].stale
                   /\ call[c].missed => call'[c].missed
                   /\ P(c) => call'[c].missed
                \/ /\ call'[c].closure = "freed" /\ call'[c].replies = 1
                   /\ call'[c].answer = "success"
                   /\ call'[c].method = call[c].method
                   /\ call[c].method # "none" /\ call[c].replies = 0
  <2>1. PICK r : r = call[c] OBVIOUS
  <2>2. PICK s : s = call'[c] OBVIOUS
  <2>3. CallInv(r) BY <1>1, <2>1, RunningCallInv
  <2>4. s = published_without_path(r, n) BY <1>1, <2>1, <2>2
  <2>5. CASE r.method = "activate" /\ r.closure = "live" /\ r.stale
    <3>1. s = RepliedAndFreed(r, "success")
      BY <2>4, <2>5 DEF published_without_path
    <3>2. /\ CallInv(s)
          /\ s.closure = "freed" /\ s.replies = 1 /\ s.answer = "success"
          /\ s.method = r.method /\ r.method # "none" /\ r.replies = 0
      BY <2>3, <2>5, <3>1, AnnouncedInv
    <3>3. QED BY <2>1, <2>2, <3>2
  <2>6. CASE ~(r.method = "activate" /\ r.closure = "live" /\ r.stale)
    <3>1. HasFields(r) /\ CallFields(r) BY <2>3 DEF CallInv
    <3>2. PICK m \in BOOLEAN : m <=> r.missed \/ P(c) OBVIOUS
    <3>3. (r.missed \/ P(c)) = m BY <3>1, <3>2 DEF CallFields
    <3>4. s = [r EXCEPT !.missed = m]
      BY <2>1, <2>4, <2>6, <3>3 DEF published_without_path
    <3>5. SameButHistory(r, s) /\ s.missed = m /\ s.stale = r.stale
      BY <3>1, <3>4, MissedHistory
    <3>6. CallInv(s) BY <2>3, <3>5, HistoryInv
    <3>7. QED BY <2>1, <2>2, <3>2, <3>5, <3>6
  <2>7. QED BY <2>5, <2>6
<1>4. QED BY <1>1, <1>2, <1>3

\* A step is one of these.
LEMMA NextSteps ==
  ASSUME [Next]_vars
  PROVE  \/ \E c \in Calls : \/ Handles(c) \/ CommandWorks(c)
                             \/ GoesOnAlone(c) \/ Completes(c)
         \/ \E t \in Things : \/ SomebodysCommand(t) \/ storage_daemon_publish(t)
                              \/ storage_daemon_unpublish(t)
         \/ \E b, n \in BlockThings : storage_block_update_lv(b, n)
         \/ \E n \in BlockThings : storage_block_update_lv_removed(n)
         \/ UNCHANGED vars
BY DEF Next, JobStep, GoesOnAlone, Completes

\* Every step keeps the invariant.
LEMMA NextIndInv == IndInv /\ [Next]_vars => IndInv'
<1> SUFFICES ASSUME IndInv, [Next]_vars PROVE IndInv'
  OBVIOUS
<1>1. ASSUME NEW c \in Calls, Handles(c) PROVE IndInv'
  <2>1. Runs /\ UNCHANGED <<there, seen, fault>> /\ Steps(c) BY <1>1, HandlerSteps
  <2>2. PICK s : call' = [call EXCEPT ![c] = s] /\ CallInv(s) BY <2>1, StepsInv
  <2>3. fault' = "none" /\ there' \subseteq Things BY <2>1 DEF Runs, IndInv
  <2>4. QED BY <2>1, <2>2, <2>3, CallKeepsIndInv
<1>2. ASSUME NEW t \in Things, SomebodysCommand(t) PROVE IndInv'
  <2>1. seen' \subseteq Things BY <1>2, SomebodySteps DEF IndInv
  <2>2. QED BY <1>2, <2>1, SomebodySteps, HistoryKeepsIndInv
<1>3. ASSUME NEW t \in Things, storage_daemon_unpublish(t) PROVE IndInv'
  <2>1. there' \subseteq Things /\ seen' \subseteq Things
    BY <1>3, UnpublishSteps DEF IndInv
  <2>2. QED BY <1>3, <2>1, UnpublishSteps, HistoryKeepsIndInv
<1>4. ASSUME NEW b \in BlockThings, NEW n \in BlockThings,
             storage_block_update_lv(b, n)
      PROVE  IndInv'
  <2>1. there' \subseteq Things /\ seen' \subseteq Things
    BY <1>4, BlockSteps, KindsOfThings DEF IndInv
  <2>2. QED BY <1>4, <2>1, BlockSteps, HistoryKeepsIndInv
<1>5. CASE UNCHANGED vars
  BY <1>5 DEF vars, IndInv, OnlyEarlyOrCancelledFault, AnsweredTwiceOnlyInDeath, Runs
<1>6. ASSUME NEW n \in BlockThings, storage_block_update_lv_removed(n)
      PROVE  IndInv'
  <2>1. there' \subseteq Things /\ seen' \subseteq Things /\ fault' = "none"
    BY <1>6, RemovedSteps, KindsOfThings DEF IndInv, Runs
  <2>2. QED BY <1>6, <2>1, RemovedSteps, KeepsIndInv
<1>7. QED
  BY <1>1, <1>2, <1>3, <1>4, <1>5, <1>6, NextSteps, CommandKeepsIndInv,
     GoesOnKeepsIndInv, CompletionKeepsIndInv, PublishKeepsIndInv

\* The invariant of every call holds in every state, for any number of calls.
THEOREM IndInvHolds == Spec => []IndInv
BY InitIndInv, NextIndInv, PTL DEF Spec

\* The variables have their types.
THEOREM TypeCorrect == Spec => []TypeOK
<1>1. IndInv => TypeOK
  <2> SUFFICES ASSUME IndInv PROVE TypeOK
    OBVIOUS
  <2>1. \A c \in Calls : call[c] \in CallRecord BY FieldsMakeRecord DEF IndInv
  <2>2. call \in [Calls -> CallRecord] BY <2>1 DEF IndInv
  <2>3. QED BY <2>2 DEF IndInv, TypeOK, Faults
<1>2. QED BY <1>1, IndInvHolds, PTL

\* A freed closure is used only by a job that fails, or a thread that goes on,
\* after the announcement has answered its call, or by the second failure of a
\* cancelled command; and only a cancelled command finds its job without
\* buffers or object.
THEOREM FaultsAreEarlyOrCancelled == Spec => []OnlyEarlyOrCancelledFault
<1>1. IndInv => OnlyEarlyOrCancelledFault BY DEF IndInv
<1>2. QED BY <1>1, IndInvHolds, PTL

\* Only the second completion of a cancelled command answers a call twice, only
\* where nothing is waited for, and the daemon is dead then.
THEOREM SecondAnswersAreTheLast == Spec => []AnsweredTwiceOnlyInDeath
<1>1. IndInv => AnsweredTwiceOnlyInDeath BY DEF IndInv
<1>2. QED BY <1>1, IndInvHolds, PTL

-----------------------------------------------------------------------------
\* What a call is to its caller, as a function of its record.
RequestOf(r) == IF r.method = "none" THEN "none"
                ELSE IF r.replies = 0 THEN "accepted"
                ELSE IF r.answer = "success" THEN "success" ELSE "failure"

\* The mapping reads one record per call.
LEMMA RequestIsOfRecord ==
  /\ call_request = [c \in Calls |-> RequestOf(call[c])]
  /\ call_request' = [c \in Calls |-> RequestOf(call'[c])]
BY DEF call_request, RequestOf

\* A step after which every caller has been told what it was told before,
\* and the daemon runs on or has gone, is a stutter or Leave.
LEMMA SilentStep ==
  ASSUME Runs, \A c \in Calls : RequestOf(call'[c]) = RequestOf(call[c])
  PROVE  [CallService!Next]_(CallService!vars)
<1>1. UNCHANGED call_request BY RequestIsOfRecord
<1>2. CASE fault' = "none"
  BY <1>1, <1>2 DEF Runs, CallService!vars
<1>3. CASE fault' # "none"
  BY <1>1, <1>3 DEF Runs, CallService!Next, CallService!Leave
<1>4. QED BY <1>2, <1>3

\* A step that answers the calls of S, which wait for an answer.
LEMMA AnswerStep ==
  ASSUME Runs, Runs', NEW S \in SUBSET Calls,
         \A c \in S : /\ RequestOf(call[c]) = "accepted"
                      /\ RequestOf(call'[c]) \in {"success", "failure"},
         \A c \in Calls \ S : RequestOf(call'[c]) = RequestOf(call[c])
  PROVE  CallService!Next
<1> DEFINE a == [c \in S |-> RequestOf(call'[c])]
<1>1. a \in [S -> CallService!Answers] BY DEF CallService!Answers
<1>2. call_request' = [c \in Calls |-> IF c \in S THEN a[c] ELSE call_request[c]]
  BY RequestIsOfRecord
<1>3. \A c \in S : call_request[c] = "accepted" BY RequestIsOfRecord
<1>4. CallService!MayFinish BY DEF Runs, CallService!MayFinish
<1> HIDE DEF a
<1>5. CallService!Answer(S)
  BY <1>1, <1>2, <1>3, <1>4 DEF Runs, CallService!Answer
<1>6. QED BY <1>5 DEF CallService!Next

\* A step that answers a call that has failed before, and ends the daemon.
LEMMA AnswerAgainStep ==
  ASSUME Runs, ~Runs', NEW c \in Calls, RequestOf(call[c]) = "failure",
         RequestOf(call'[c]) \in {"success", "failure"},
         \A d \in Calls \ {c} : RequestOf(call'[d]) = RequestOf(call[d])
  PROVE  CallService!Next
<1>1. call_request[c] = "failure" BY RequestIsOfRecord
<1>2. call_request' = [call_request EXCEPT ![c] = RequestOf(call'[c])]
  BY RequestIsOfRecord
<1>3. CallService!AnswerAgain(c)
  BY <1>1, <1>2 DEF Runs, CallService!AnswerAgain, CallService!Answers
<1>4. QED BY <1>3 DEF CallService!Next

\* Histories, and how far the job is, are nothing to the caller.
LEMMA SilentRecords ==
  ASSUME NEW r, NEW s, SameButHistory(r, s) \/ JobHasGoneOn(r, s)
  PROVE  RequestOf(s) = RequestOf(r)
BY DEF SameButHistory, JobHasGoneOn, RequestOf

\* A handler refuses its call, which is Refuse, or launches a job: Accept.
LEMMA HandlesRefines ==
  ASSUME IndInv, NEW c \in Calls, Handles(c)
  PROVE  CallService!Next
<1>1. /\ Runs /\ UNCHANGED fault /\ call[c].method = "none" /\ Steps(c)
  BY HandlerSteps
<1>2. call_request[c] = "none" BY <1>1, RequestIsOfRecord DEF RequestOf
<1>3. PICK s : /\ call' = [call EXCEPT ![c] = s] /\ s.method # "none"
               /\ \/ s.replies = 1 /\ s.answer = "error"
                  \/ s.replies = 0
  BY <1>1, StepsInv
<1>4. call'[c] = s /\ \A d \in Calls \ {c} : call'[d] = call[d]
  BY <1>3, OneCallChanges
<1>5. call_request' = [call_request EXCEPT ![c] = RequestOf(s)]
  BY <1>4, RequestIsOfRecord
<1>6. RequestOf(s) \in {"failure", "accepted"} BY <1>3 DEF RequestOf
<1>7. CallService!Refuse(c) \/ CallService!Accept(c)
  BY <1>1, <1>2, <1>5, <1>6 DEF CallService!Refuse, CallService!Accept, Runs
<1>8. QED BY <1>7 DEF CallService!Next

\* A job that goes on tells nobody.
LEMMA JobGoesOnRefines ==
  ASSUME IndInv, NEW c \in Calls, CommandWorks(c) \/ GoesOnAlone(c)
  PROVE  [CallService!Next]_(CallService!vars)
<1>1. Runs
  BY DEF CommandWorks, GoesOnAlone, TriggersUdev, on_cancelled,
         child_watch_from_release_cb
<1>2. CASE UNCHANGED call BY <1>1, <1>2, SilentStep
<1>3. CASE CommandWorks(c) /\ call' # call
  <2>1. ~ThreadFault(call[c]) BY <1>3 DEF CommandWorks
  <2>2. JobHasGoneOn(call[c], call'[c])
        /\ \A d \in Calls \ {c} : SameButHistory(call[d], call'[d])
    BY <1>3, <2>1, CommandSteps
  <2>3. \A d \in Calls : RequestOf(call'[d]) = RequestOf(call[d])
    BY <2>2, SilentRecords
  <2>4. QED BY <1>1, <2>3, SilentStep
<1>4. CASE GoesOnAlone(c) /\ call' # call
  <2>1. fault' = fault BY <1>4, GoesOnFault
  <2>2. PICK s : call' = [call EXCEPT ![c] = s] /\ JobHasGoneOn(call[c], s)
    BY <1>4, <2>1, GoesOnSteps
  <2>3. call'[c] = s /\ \A d \in Calls \ {c} : call'[d] = call[d]
    BY <2>2, OneCallChanges
  <2>4. \A d \in Calls : RequestOf(call'[d]) = RequestOf(call[d])
    BY <2>2, <2>3, SilentRecords
  <2>5. QED BY <1>1, <2>4, SilentStep
<1>5. QED BY <1>2, <1>3, <1>4

\* The completion of a job answers its call, or finds it answered, or leaves
\* the answer to "published"; a freed closure is the end of the daemon, and so
\* is a second completion, which may answer again what failed.
LEMMA CompletionRefines ==
  ASSUME IndInv, NEW c \in Calls, Completes(c)
  PROVE  [CallService!Next]_(CallService!vars)
<1>1. Runs BY CompletesSteps
<1>2. PICK o : o = call[c] OBVIOUS
<1>3. /\ CallInv(o) /\ CallFields(o) /\ ClosureInv(o) /\ AnswerInv(o) /\ JobInv(o)
  BY <1>1, <1>2, RunningCallInv DEF CallInv, LiveInv
<1>4. CASE UNCHANGED call BY <1>1, <1>4, SilentStep
<1>5. ASSUME NEW r, NEW result, IsCompleting(o, r, result),
             call' = [call EXCEPT ![c] = AfterCompletion(r, result)],
             fault' = CompletionFault(r, result)
      PROVE  [CallService!Next]_(CallService!vars)
  <2>1. PICK s : s = AfterCompletion(r, result) OBVIOUS
  <2>2. call'[c] = s /\ \A d \in Calls \ {c} : call'[d] = call[d]
    BY <1>5, <2>1, OneCallChanges
  <2>3. /\ s.method = o.method
        /\ \/ /\ ~Waits(o) /\ s.replies = o.replies + 1
              /\ s.answer = IF result = "success" THEN "success" ELSE "error"
           \/ /\ Waits(o) /\ s.replies = o.replies /\ s.answer = o.answer
           \/ /\ Waits(o) /\ result = "failure" /\ o.closure # "freed"
              /\ s.replies = o.replies + 1 /\ s.answer = "error"
    BY <1>3, <1>5, <2>1, CompletionFields
  <2>4. /\ r.method = o.method /\ r.closure = o.closure /\ r.result = o.result
        /\ result \in {"success", "failure"}
        /\ o.command \in {"runs", "worked", "nudged"} \/ o.cancel = "asked"
    BY <1>5 DEF IsCompleting
  <2>5. o.command # "none" /\ o.method # "none"
    BY <1>3, <2>4 DEF JobInv, AnswerInv
  <2>6. Waits(r) <=> Waits(o) BY <2>4 DEF Waits
  <2>7. CASE s.replies = o.replies /\ s.answer = o.answer
    <3>1. RequestOf(s) = RequestOf(o) BY <2>3, <2>7 DEF RequestOf
    <3>2. \A d \in Calls : RequestOf(call'[d]) = RequestOf(call[d])
      BY <1>2, <2>2, <3>1
    <3>3. QED BY <1>1, <3>2, SilentStep
  <2>8. CASE ~Waits(o) /\ s.replies = o.replies + 1
    <3>1. fault' = IF o.result # "none" THEN "object" ELSE "none"
      BY <1>5, <2>4, <2>6, <2>8 DEF CompletionFault, ClosureIsGone
    <3>2. s.answer \in {"success", "error"} BY <2>3, <2>4, <2>8
    <3>3. s.replies # 0 BY <1>3, <2>8 DEF CallFields
    <3>4. RequestOf(call'[c]) \in {"success", "failure"}
      BY <2>2, <2>3, <2>5, <3>2, <3>3 DEF RequestOf
    <3>5. \A d \in Calls \ {c} : RequestOf(call'[d]) = RequestOf(call[d])
      BY <2>2
    <3>6. CASE o.result = "none"
      <4>1. o.replies = 0 BY <1>3, <2>5, <2>8, <3>6 DEF AnswerInv
      <4>2. RequestOf(call[c]) = "accepted" BY <1>2, <2>5, <4>1 DEF RequestOf
      <4>3. Runs' BY <3>1, <3>6 DEF Runs
      <4>4. QED BY <1>1, <3>4, <3>5, <4>2, <4>3, AnswerStep
    <3>7. CASE o.result # "none"
      <4>1. o.result = "failure"
        BY <1>3, <1>5, <3>7 DEF JobInv, IsCompleting
      <4>2. o.answer = "error" /\ o.replies # 0
        BY <1>3, <2>5, <2>8, <4>1 DEF AnswerInv
      <4>3. RequestOf(call[c]) = "failure" BY <1>2, <2>5, <4>2 DEF RequestOf
      <4>4. ~Runs' BY <3>1, <3>7 DEF Runs
      <4>5. QED BY <1>1, <3>4, <3>5, <4>3, <4>4, AnswerAgainStep
    <3>8. QED BY <3>6, <3>7
  <2>9. CASE /\ Waits(o) /\ result = "failure" /\ o.closure # "freed"
             /\ s.replies = o.replies + 1 /\ s.answer = "error"
    <3>1. o.closure = "live" /\ o.replies = 0
      BY <1>3, <2>5, <2>9 DEF ClosureInv, CallFields
    <3>2. o.result = "none"
      <4>1. o.result # "failure" BY <1>3, <2>9 DEF ClosureInv
      <4>2. QED BY <1>3, <1>5, <4>1 DEF JobInv, IsCompleting
    <3>3. fault' = "none"
      BY <1>5, <2>4, <3>1, <3>2 DEF CompletionFault, ClosureIsGone
    <3>4. RequestOf(call[c]) = "accepted" BY <1>2, <2>5, <3>1 DEF RequestOf
    <3>5. RequestOf(call'[c]) \in {"success", "failure"}
      BY <2>2, <2>3, <2>5, <2>9, <3>1 DEF RequestOf
    <3>6. \A d \in Calls \ {c} : RequestOf(call'[d]) = RequestOf(call[d])
      BY <2>2
    <3>7. QED BY <1>1, <3>3, <3>4, <3>5, <3>6, AnswerStep DEF Runs
  <2>10. QED BY <2>3, <2>7, <2>8, <2>9
<1>6. QED BY <1>2, <1>4, <1>5, CompletesSteps

\* "published" answers every call that waits for this thing, at once.
LEMMA PublishRefines ==
  ASSUME IndInv, NEW t \in Things, storage_daemon_publish(t)
  PROVE  CallService!Next
<1> DEFINE S == {c \in Calls : call'[c] # call[c]}
<1>1. Runs /\ Runs' BY DEF storage_daemon_publish, Runs
<1>2. \A c \in Calls : call'[c] = published(call[c], t)
  BY DEF storage_daemon_publish
<1>3. ASSUME NEW c \in S
      PROVE  /\ RequestOf(call[c]) = "accepted"
             /\ RequestOf(call'[c]) \in {"success", "failure"}
  <2>1. /\ call'[c].replies = 1 /\ call'[c].answer = "success"
        /\ call'[c].method = call[c].method /\ call[c].method # "none"
        /\ call[c].replies = 0
    BY <1>1, <1>2, RunningCallInv, PublishedInv
  <2>2. QED BY <2>1 DEF RequestOf
<1>4. \A c \in Calls \ S : RequestOf(call'[c]) = RequestOf(call[c]) OBVIOUS
<1>5. S \in SUBSET Calls OBVIOUS
<1> HIDE DEF S
<1>6. QED BY <1>1, <1>3, <1>4, <1>5, AnswerStep

\* So does the block without a path, for calls whose volume has none.
LEMMA RemovedRefines ==
  ASSUME IndInv, NEW n \in BlockThings, storage_block_update_lv_removed(n)
  PROVE  CallService!Next
<1> DEFINE S == {c \in Calls : ~SameButHistory(call[c], call'[c])}
<1>1. Runs /\ Runs' BY RemovedSteps DEF Runs
<1>2. ASSUME NEW c \in S
      PROVE  /\ RequestOf(call[c]) = "accepted"
             /\ RequestOf(call'[c]) \in {"success", "failure"}
  <2>1. /\ call'[c].replies = 1 /\ call'[c].answer = "success"
        /\ call'[c].method = call[c].method /\ call[c].method # "none"
        /\ call[c].replies = 0
    BY RemovedSteps
  <2>2. QED BY <2>1 DEF RequestOf
<1>3. \A c \in Calls \ S : RequestOf(call'[c]) = RequestOf(call[c])
  BY SilentRecords
<1>4. S \in SUBSET Calls OBVIOUS
<1> HIDE DEF S
<1>5. QED BY <1>1, <1>2, <1>3, <1>4, AnswerStep

\* Every step is a step of Service or a stutter.
LEMMA NextRefines ==
  IndInv /\ [Next]_vars => [CallService!Next]_(CallService!vars)
<1> SUFFICES ASSUME IndInv, [Next]_vars
             PROVE  [CallService!Next]_(CallService!vars)
  OBVIOUS
<1>1. ASSUME Runs, \A d \in Calls : SameButHistory(call[d], call'[d])
      PROVE  [CallService!Next]_(CallService!vars)
  BY <1>1, SilentRecords, SilentStep
<1>2. ASSUME NEW t \in Things, SomebodysCommand(t)
      PROVE  [CallService!Next]_(CallService!vars)
  BY <1>1, <1>2, SomebodySteps
<1>3. ASSUME NEW t \in Things, storage_daemon_unpublish(t)
      PROVE  [CallService!Next]_(CallService!vars)
  BY <1>1, <1>3, UnpublishSteps
<1>4. ASSUME NEW b \in BlockThings, NEW n \in BlockThings,
             storage_block_update_lv(b, n)
      PROVE  [CallService!Next]_(CallService!vars)
  BY <1>1, <1>4, BlockSteps
<1>5. CASE UNCHANGED vars
  BY <1>5 DEF vars, CallService!vars, call_request, Runs
<1>6. QED
  BY <1>2, <1>3, <1>4, <1>5, NextSteps, HandlesRefines, JobGoesOnRefines,
     CompletionRefines, PublishRefines, RemovedRefines

\* The methods implement Service, for any number of calls and things: a call
\* gets one answer, from its job's "completed" or the daemon's "published",
\* and the later of the two never changes it; only the failure of a cancelled
\* command may be followed by another answer, and the daemon dies of it.
THEOREM CallsImplementService == Spec => CallsAreAService
<1>1. Init => CallService!Init
  <2> SUFFICES ASSUME Init PROVE CallService!Init
    OBVIOUS
  <2>1. \A c \in Calls : call[c].method = "none" BY DEF Init, NoCall
  <2>2. call_request = [c \in Calls |-> "none"] BY <2>1 DEF call_request
  <2>3. QED BY <2>2 DEF Init, Runs, CallService!Init
<1>2. QED
  BY <1>1, IndInvHolds, NextRefines, PTL
     DEF Spec, CallsAreAService, CallService!Spec

-----------------------------------------------------------------------------
\* A call that was not answered has a job that will complete, or waits for a
\* thing that LVM has and that is still to be published, unless it missed it or
\* the object it compares with has gone.
NoCallIsForgotten ==
  \A c \in Calls :
    call[c].method # "none" /\ call[c].replies = 0 /\ fault = "none" =>
      \/ call[c].command \in {"runs", "worked", "nudged"}
      \/ call[c].closure = "live" /\ call[c].awaits \in there \ seen
      \/ call[c].missed
      \/ call[c].stale

\* What the invariant says of one call, where LVM has th and sn is published:
\* the announcement is still to come from the moment the command has worked.
Remembered(r, th, sn) ==
  r.closure = "live" /\ r.command \notin {"none", "runs"} =>
    r.awaits \in th \ sn \/ r.missed \/ r.stale

RememberInv == Runs => \A c \in Calls : Remembered(call[c], there, seen)

\* A call stays remembered while the thing it awaits is still to be announced.
LEMMA KeepsRemembered ==
  ASSUME NEW r, NEW s, NEW th, NEW sn, NEW th2, NEW sn2, Remembered(r, th, sn),
         s.awaits = r.awaits, s.closure = r.closure,
         s.command \notin {"none", "runs"} /\ r.closure = "live" =>
           r.command \notin {"none", "runs"},
         r.missed => s.missed, r.stale => s.stale,
         r.closure = "live" /\ r.command \notin {"none", "runs"}
           /\ r.awaits \in th \ sn => r.awaits \in th2 \ sn2 \/ s.missed
  PROVE  Remembered(s, th2, sn2)
BY DEF Remembered

\* A step of one call that LVM and the daemon do not see.
LEMMA OneCallRemembered ==
  ASSUME IndInv, RememberInv, Runs, UNCHANGED <<there, seen>>, NEW c \in Calls,
         NEW s, call' = [call EXCEPT ![c] = s], Remembered(s, there, seen)
  PROVE  RememberInv'
<1>1. call'[c] = s /\ \A d \in Calls \ {c} : call'[d] = call[d]
  BY OneCallChanges
<1>2. QED BY <1>1 DEF RememberInv

\* The command of a call that waits makes what the call waits for.
LEMMA CommandMakesAwaited ==
  ASSUME NEW r, CallInv(r), Waits(r), r.command # "none", CommandApplies(r)
  PROVE  r.awaits \in AfterCommand(r)
<1>1. r.on \in Things /\ ShapeInv(r) BY DEF CallInv, CallFields
<1>2. CASE r.method \in {"vg_create", "lv_create", "activate"}
  BY <1>2 DEF AfterCommand
<1>3. CASE r.method \in {"vg_rename", "lv_rename"}
  <2>1. r.on \in there BY <1>3 DEF CommandApplies
  <2>2. r.on \in Within(r.on)
    <3>1. CASE r.on \in GroupThings BY <1>1, <3>1 DEF Within, GroupThings, Group
    <3>2. CASE r.on \in VolumeThings BY <1>1, <3>2 DEF Within, VolumeThings, Volume
    <3>3. QED BY <1>1, <1>3, <3>1, <3>2 DEF ShapeInv, CallInv
  <2>3. Renamed(r.on, r.on, r.awaits) = r.awaits
    BY <1>1, <1>3, <2>2, RenamedType DEF ShapeInv
  <2>4. AfterCommand(r) = (there \ Within(r.on)) \cup
          {Renamed(u, r.on, r.awaits) : u \in there \cap Within(r.on)}
    BY <1>3 DEF AfterCommand
  <2>5. QED BY <2>1, <2>2, <2>3, <2>4
<1>4. QED BY <1>2, <1>3 DEF Waits

\* The command of c has its effect, on c and on the others.
LEMMA CommandRemembers ==
  ASSUME IndInv, RememberInv, NEW c \in Calls, CommandWorks(c)
  PROVE  RememberInv'
<1>1. CASE ThreadFault(call[c])
  BY <1>1 DEF CommandWorks, RememberInv, Runs
<1>2. CASE ~ThreadFault(call[c])
  <2>1. Runs /\ there' = AfterCommand(call[c]) /\ UNCHANGED seen
        /\ call[c].command = "runs"
    BY <1>2, CommandSteps
  <2>2. ASSUME NEW d \in Calls \ {c} PROVE Remembered(call'[d], there', seen')
    <3>1. /\ SameButHistory(call[d], call'[d])
          /\ call'[d].stale = call[d].stale
          /\ call[d].missed \/ Loses(call[d], there') => call'[d].missed
      BY <1>2, CommandSteps
    <3>2. Remembered(call[d], there, seen) BY <2>1 DEF RememberInv
    <3>3. call[d].closure = "live" /\ call[d].command \notin {"none", "runs"}
            /\ call[d].awaits \in there \ seen =>
            call[d].awaits \in there' \ seen' \/ call'[d].missed
      BY <2>1, <3>1 DEF Loses
    <3>4. QED BY <3>1, <3>2, <3>3, KeepsRemembered DEF SameButHistory
  <2>3. Remembered(call'[c], there', seen')
    <3>1. PICK r : r = call[c] OBVIOUS
    <3>2. PICK s : s = call'[c] OBVIOUS
    <3>3. JobHasGoneOn(r, s) /\ (r.awaits \in seen => s.missed)
      BY <1>2, <3>1, <3>2, CommandSteps
    <3>4. CallInv(r) BY <2>1, <3>1, RunningCallInv
    <3>5. CommandApplies(r) BY <1>2, <3>1 DEF CommandWorks
    <3>6. r.closure = "live" => Waits(r) BY <3>4 DEF CallInv, LiveInv, ClosureInv
    <3>7. r.closure = "live" => r.awaits \in there'
      BY <2>1, <3>1, <3>4, <3>5, <3>6, CommandMakesAwaited
    <3>8. s.closure = r.closure /\ s.awaits = r.awaits BY <3>3 DEF JobHasGoneOn
    <3>9. Remembered(s, there', seen')
      BY <2>1, <3>3, <3>7, <3>8 DEF Remembered
    <3>10. QED BY <3>2, <3>9
  <2>4. QED BY <2>2, <2>3 DEF RememberInv
<1>3. QED BY <1>1, <1>2

\* The job of c goes on.
LEMMA GoesOnRemembers ==
  ASSUME IndInv, RememberInv, NEW c \in Calls, GoesOnAlone(c)
  PROVE  RememberInv'
<1>1. CASE fault' # fault BY <1>1, GoesOnFault DEF RememberInv, Runs
<1>2. CASE fault' = fault
  <2>1. Runs /\ UNCHANGED <<there, seen>> BY <1>2, GoesOnSteps
  <2>2. PICK s : /\ call' = [call EXCEPT ![c] = s] /\ JobHasGoneOn(call[c], s)
                 /\ s.stale = call[c].stale /\ s.missed = call[c].missed
                 /\ call[c].command = "runs" =>
                      s.command = "runs" \/ call[c].result = "failure"
    BY <1>2, GoesOnSteps
  <2>3. PICK r : r = call[c] OBVIOUS
  <2>4. CallInv(r) /\ Remembered(r, there, seen)
    BY <2>1, <2>3, RunningCallInv DEF RememberInv
  <2>5. r.closure = "live" => r.result # "failure"
    BY <2>4 DEF CallInv, LiveInv, ClosureInv
  <2>6. r.command = "none" => s.command = "none"
    BY <2>2, <2>3 DEF JobHasGoneOn
  <2>7. s.awaits = r.awaits /\ s.closure = r.closure
    BY <2>2, <2>3 DEF JobHasGoneOn
  <2>8. r.closure = "live" /\ s.command \notin {"none", "runs"} =>
          r.command \notin {"none", "runs"}
    BY <2>2, <2>3, <2>5, <2>6
  <2>9. (r.missed => s.missed) /\ (r.stale => s.stale) BY <2>2, <2>3
  <2>10. Remembered(s, there, seen)
    BY <2>4, <2>7, <2>8, <2>9, KeepsRemembered
  <2>11. QED BY <2>1, <2>2, <2>10, OneCallRemembered
<1>3. QED BY <1>1, <1>2

\* The job of c completes: the call is answered, or it waits for what its
\* command has made.
LEMMA CompletionRemembers ==
  ASSUME IndInv, RememberInv, NEW c \in Calls, Completes(c)
  PROVE  RememberInv'
<1>1. Runs /\ UNCHANGED <<there, seen>> BY CompletesSteps
<1>2. PICK o : o = call[c] OBVIOUS
<1>3. CallInv(o) /\ Remembered(o, there, seen)
  BY <1>1, <1>2, RunningCallInv DEF RememberInv
<1>4. CASE fault' = "output" BY <1>4 DEF RememberInv, Runs
<1>5. ASSUME NEW r, NEW result, IsCompleting(o, r, result),
             call' = [call EXCEPT ![c] = AfterCompletion(r, result)]
      PROVE  RememberInv'
  <2>1. PICK s : s = AfterCompletion(r, result) OBVIOUS
  <2>2. /\ s.awaits = o.awaits /\ s.missed = o.missed /\ s.stale = o.stale
        /\ \/ ~Waits(o) /\ s.closure = o.closure
           \/ Waits(o) /\ result = "success" /\ s.closure = o.closure
           \/ s.closure = "freed"
    BY <1>3, <1>5, <2>1, CompletionFields
  <2>3. ~Waits(o) => o.closure = "none" BY <1>3 DEF CallInv, LiveInv, ClosureInv
  <2>4. result = "success" => o.command \notin {"none", "runs"}
    BY <1>5 DEF IsCompleting
  <2>5. Remembered(s, there, seen)
    BY <1>3, <2>2, <2>3, <2>4 DEF Remembered
  <2>6. call' = [call EXCEPT ![c] = s] BY <1>5, <2>1
  <2>7. QED BY <1>1, <2>5, <2>6, OneCallRemembered
<1>6. QED BY <1>2, <1>4, <1>5, CompletesSteps

\* Something is published: who waited for it is answered.
LEMMA PublishRemembers ==
  ASSUME IndInv, RememberInv, NEW t \in Things, storage_daemon_publish(t)
  PROVE  RememberInv'
<1>1. /\ Runs /\ there' = there /\ seen' = seen \cup {t}
      /\ \A c \in Calls : call'[c] = published(call[c], t)
  BY DEF storage_daemon_publish
<1>2. ASSUME NEW c \in Calls PROVE Remembered(call'[c], there', seen')
  <2>1. PICK r : r = call[c] OBVIOUS
  <2>2. PICK s : s = call'[c] OBVIOUS
  <2>3. CallInv(r) /\ Remembered(r, there, seen)
    BY <1>1, <2>1, RunningCallInv DEF RememberInv
  <2>4. \/ s = r /\ ~(r.closure = "live" /\ r.awaits = t /\ ~r.stale)
        \/ s.closure = "freed"
    BY <1>1, <2>1, <2>2, <2>3, PublishedInv
  <2>5. Remembered(s, there', seen') BY <1>1, <2>3, <2>4 DEF Remembered
  <2>6. QED BY <2>2, <2>5
<1>3. QED BY <1>2 DEF RememberInv

\* Every step remembers the calls.
LEMMA NextRememberInv == IndInv /\ RememberInv /\ [Next]_vars => RememberInv'
<1> SUFFICES ASSUME IndInv, RememberInv, [Next]_vars PROVE RememberInv'
  OBVIOUS
<1>1. ASSUME NEW c \in Calls, Handles(c) PROVE RememberInv'
  <2>1. Runs /\ UNCHANGED <<there, seen>> /\ Steps(c) BY <1>1, HandlerSteps
  <2>2. PICK s : /\ call' = [call EXCEPT ![c] = s]
                 /\ s.closure = "none" \/ s.command = "runs"
    BY <2>1, StepsInv
  <2>3. Remembered(s, there, seen) BY <2>2 DEF Remembered
  <2>4. QED BY <2>1, <2>2, <2>3, OneCallRemembered
<1>2. ASSUME Runs, NEW d \in Calls, SameButHistory(call[d], call'[d]),
             call[d].missed => call'[d].missed, call[d].stale => call'[d].stale,
             call[d].closure = "live" /\ call[d].command \notin {"none", "runs"}
               /\ call[d].awaits \in there \ seen =>
               call[d].awaits \in there' \ seen' \/ call'[d].missed
      PROVE  Remembered(call'[d], there', seen')
  <2>1. Remembered(call[d], there, seen) BY <1>2 DEF RememberInv
  <2>2. QED BY <1>2, <2>1, KeepsRemembered DEF SameButHistory
<1>3. ASSUME NEW t \in Things, SomebodysCommand(t) PROVE RememberInv'
  <2>1. ASSUME NEW d \in Calls PROVE Remembered(call'[d], there', seen')
    BY <1>2, <1>3, SomebodySteps DEF Loses
  <2>2. QED BY <2>1 DEF RememberInv
<1>4. ASSUME NEW t \in Things, storage_daemon_unpublish(t) PROVE RememberInv'
  <2>1. ASSUME NEW d \in Calls PROVE Remembered(call'[d], there', seen')
    BY <1>2, <1>4, UnpublishSteps
  <2>2. QED BY <2>1 DEF RememberInv
<1>5. ASSUME NEW b \in BlockThings, NEW n \in BlockThings,
             storage_block_update_lv(b, n)
      PROVE  RememberInv'
  <2>1. ASSUME NEW d \in Calls PROVE Remembered(call'[d], there', seen')
    BY <1>2, <1>5, BlockSteps
  <2>2. QED BY <2>1 DEF RememberInv
<1>6. CASE UNCHANGED vars BY <1>6 DEF vars, RememberInv, Runs
<1>7. ASSUME NEW n \in BlockThings, storage_block_update_lv_removed(n)
      PROVE  RememberInv'
  <2>1. /\ Runs /\ there' = there /\ seen' = seen \cup {n} BY <1>7, RemovedSteps
  <2>2. ASSUME NEW d \in Calls PROVE Remembered(call'[d], there', seen')
    <3>1. CASE call'[d].closure = "freed" BY <3>1 DEF Remembered
    <3>2. CASE call'[d].closure # "freed"
      <4>1. /\ SameButHistory(call[d], call'[d])
            /\ call'[d].stale = call[d].stale
            /\ call[d].missed => call'[d].missed
            /\ call[d].closure = "live" /\ call[d].awaits = n => call'[d].missed
        BY <1>7, <3>2, RemovedSteps
      <4>2. QED BY <1>2, <2>1, <4>1
    <3>3. QED BY <3>1, <3>2
  <2>3. QED BY <2>2 DEF RememberInv
<1>8. QED
  BY <1>1, <1>3, <1>4, <1>5, <1>6, <1>7, NextSteps, CommandRemembers,
     GoesOnRemembers, CompletionRemembers, PublishRemembers

\* The safety half of AnsweredUnlessMissed: while the daemon runs, a caller that
\* waits has a job under way, or what it waits for exists and is still to be
\* published, unless it missed it or its object has gone.
THEOREM CallsAreNotForgotten == Spec => []NoCallIsForgotten
<1>1. Init => RememberInv
  <2> SUFFICES ASSUME Init, NEW c \in Calls PROVE Remembered(call[c], there, seen)
    BY DEF RememberInv
  <2>1. call[c] = NoCall BY DEF Init
  <2>2. QED BY <2>1 DEF Remembered, NoCall
<1>2. ASSUME IndInv, RememberInv PROVE NoCallIsForgotten
  <2> SUFFICES ASSUME NEW c \in Calls, call[c].method # "none",
                      call[c].replies = 0, fault = "none",
                      call[c].command \notin {"runs", "worked", "nudged"}
               PROVE  \/ call[c].closure = "live" /\ call[c].awaits \in there \ seen
                      \/ call[c].missed
                      \/ call[c].stale
    BY DEF NoCallIsForgotten
  <2>1. PICK r : r = call[c] OBVIOUS
  <2>2. /\ CallFields(r) /\ ClosureInv(r) /\ AnswerInv(r) /\ JobInv(r)
        /\ Remembered(r, there, seen)
    BY <1>2, <2>1, RunningCallInv DEF CallInv, LiveInv, RememberInv, Runs
  <2>3. r.command # "none" BY <2>1, <2>2 DEF AnswerInv
  <2>4. r.command = "over" BY <2>1, <2>2, <2>3 DEF CallFields
  <2>5. Waits(r) BY <2>1, <2>2, <2>4 DEF AnswerInv, JobInv
  <2>6. r.closure = "live"
    BY <2>1, <2>2, <2>3, <2>5 DEF CallFields, ClosureInv
  <2>7. QED BY <2>1, <2>2, <2>4, <2>6 DEF Remembered
<1>3. IndInv /\ RememberInv => NoCallIsForgotten BY <1>2
<1>4. QED BY <1>1, <1>3, NextRememberInv, IndInvHolds, PTL DEF Spec
=============================================================================
