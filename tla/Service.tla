------------------------------ MODULE Service ------------------------------
(***************************************************************************)
(* What the daemon promises to whoever asks it for something: a request    *)
(* that it accepts is answered once and keeps its answer, and the daemon   *)
(* decides by itself to stop only when nobody is waiting for an answer.    *)
(* The one exception is a request that was cancelled, and so answered with *)
(* a failure: it may be answered again, as the last thing the daemon does. *)
(* A signal or a fault may end it at any moment, and after that nothing is *)
(* accepted or answered.                                                   *)
(*                                                                         *)
(* Jobs implements this with its jobs as the requests (daemon.c,           *)
(* spawnedjob.c, threadedjob.c), MethodReply with the method calls         *)
(* (manager.c, volumegroup.c, logicalvolume.c).                            *)
(***************************************************************************)

CONSTANT Requests

VARIABLES
  request,   \* request[i]: "none", "accepted", "success" or "failure"
  phase      \* "serving", "finished" (stops by itself), "told" (to stop)
             \* or "gone"

vars == <<request, phase>>

Answers == {"success", "failure"}

TypeOK ==
  /\ request \in [Requests -> {"none", "accepted"} \cup Answers]
  /\ phase \in {"serving", "finished", "told", "gone"}

Init ==
  /\ request = [i \in Requests |-> "none"]
  /\ phase = "serving"

NobodyWaits(req) == \A i \in Requests : req[i] # "accepted"

\* Whatever ends a reason to stay may also be the moment to stop.
MayFinish ==
  \/ phase' = phase
  \/ phase = "serving" /\ NobodyWaits(request') /\ phase' = "finished"

\* A main loop that was told to quit still dispatches what is ready.
Accept(i) ==
  /\ phase # "gone"
  /\ request[i] = "none"
  /\ request' = [request EXCEPT ![i] = "accepted"]
  /\ UNCHANGED phase

Refuse(i) ==
  /\ phase # "gone"
  /\ request[i] = "none"
  /\ request' = [request EXCEPT ![i] = "failure"]
  /\ UNCHANGED phase

\* One event may be the answer to several requests.
Answer(S) ==
  /\ phase # "gone"
  /\ \A i \in S : request[i] = "accepted"
  /\ \E a \in [S -> Answers] :
       request' = [i \in Requests |-> IF i \in S THEN a[i] ELSE request[i]]
  /\ MayFinish

\* A failure may be followed by another answer when the daemon dies of it; a
\* success is final.
AnswerAgain(i) ==
  /\ phase # "gone"
  /\ request[i] = "failure"
  /\ \E a \in Answers : request' = [request EXCEPT ![i] = a]
  /\ phase' = "gone"

Finish ==
  /\ MayFinish
  /\ UNCHANGED request

Told ==
  /\ phase = "serving"
  /\ phase' = "told"
  /\ UNCHANGED request

Leave ==
  /\ phase' = "gone"
  /\ UNCHANGED request

Next ==
  \/ \E i \in Requests : Accept(i) \/ Refuse(i) \/ AnswerAgain(i)
  \/ \E S \in SUBSET Requests : Answer(S)
  \/ Finish
  \/ Told
  \/ Leave

Spec == Init /\ [][Next]_vars
=============================================================================
