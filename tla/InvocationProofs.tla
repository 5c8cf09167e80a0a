-------------------------- MODULE InvocationProofs --------------------------
(***************************************************************************)
(* Proofs about Invocation, for any clients and calls.                     *)
(*                                                                         *)
(* The inductive invariant looks at the two kinds of queues through the    *)
(* set of their elements, which occur once each, and the order of a few:   *)
(*   - OrderInv: "vanished" is the last that the bus says of a client, but *)
(*     for a failed answer, and a client is counted in before it is counted*)
(*     out;                                                                *)
(*   - ClientInv: a client is created once, is in the table until its      *)
(*     "vanished" is read, and has no call and no good answer on the bus   *)
(*     after that;                                                         *)
(*   - LinkInv and GoodCall: where a call is queued agrees with how far it *)
(*     got, and its answers and permissions with that;                     *)
(*   - CountInv and JobsInv: the counters of the daemon;                   *)
(*   - FaultInv: what the process may die of.                              *)
(* KeptInv, at the end, is the converse of LinkInv: a call is in the       *)
(* queue that its record names.                                            *)
(***************************************************************************)
EXTENDS Invocation, SequenceTheorems, FiniteSetTheorems, TLAPS

-----------------------------------------------------------------------------
\* Queues.
Elems(q) == {q[i] : i \in 1..Len(q)}
Once(q) == \A i, j \in 1..Len(q) : q[i] = q[j] => i = j
Before(q, x, y) == \A i, j \in 1..Len(q) : q[i] = x /\ q[j] = y => i < j

Messages == Calls \cup {"uid_ok", "uid_err", "vanished"}

\* The record of a call by its fields.
IsCall(r) ==
  /\ DOMAIN r = {"at", "failed", "granted", "ran", "replies"}
  /\ r = [f \in DOMAIN r |-> r[f]]
  /\ r.at \in {"none", "bus", "dispatch", "auth", "waiting", "polkit",
               "handler", "job", "done"}
  /\ r.failed \in BOOLEAN
  /\ r.granted \in BOOLEAN
  /\ r.ran \in BOOLEAN
  /\ r.replies \in 0..2

\* What the record of a call says at each place.
GoodCall(r) ==
  /\ IsCall(r)
  /\ r.at \in {"none", "bus", "dispatch", "auth", "waiting", "polkit"} =>
       r.replies = 0 /\ ~r.failed /\ ~r.granted /\ ~r.ran
  /\ r.at \in {"handler", "job"} =>
       /\ r.granted \/ r.failed
       /\ r.replies = IF r.failed THEN 1 ELSE 0
  /\ r.ran => r.granted \/ r.failed
  /\ r.replies = 2 => r.failed

Typed ==
  /\ DaemonTypeOK
  /\ connected \in [Clients -> BOOLEAN]
  /\ bus \in [Clients -> Seq(Messages)]
  /\ asked \in [Clients -> BOOLEAN]
  /\ in_table \in [Clients -> BOOLEAN]
  /\ uid_state \in [Clients -> {"none", "LOADING", "VALID", "FAILED"}]
  /\ call = [k \in Calls |-> call[k]]
  /\ \A k \in Calls : GoodCall(call[k])
  /\ mainq \in Seq(Tasks)

MainOrder(q) ==
  /\ Once(q)
  /\ \A c \in Clients : Before(q, <<"appeared", c>>, <<"disappeared", c>>)

BusOrder(q) ==
  /\ Once(q)
  /\ \A x \in Calls \cup {"uid_ok"} : Before(q, x, "vanished")

OrderInv ==
  /\ MainOrder(mainq)
  /\ \A c \in Clients : BusOrder(bus[c])

\* The client is to be counted in, or out.
Appearing(c)    == <<"appeared", c>> \in Elems(mainq)
Disappearing(c) == <<"disappeared", c>> \in Elems(mainq)

ClientInv(c) ==
  /\ uid_state[c] = "none" =>
       /\ ~in_table[c] /\ ~asked[c]
       /\ Elems(bus[c]) \subseteq Calls
       /\ ~Appearing(c) /\ ~Disappearing(c)
  /\ uid_state[c] # "none" /\ connected[c] => in_table[c]
  /\ uid_state[c] # "none" /\ ~in_table[c] => Elems(bus[c]) \subseteq {"uid_err"}
  /\ "vanished" \in Elems(bus[c]) => ~connected[c] /\ in_table[c]
  /\ asked[c] => "uid_ok" \notin Elems(bus[c]) /\ "uid_err" \notin Elems(bus[c])
  /\ Appearing(c) => in_table[c] \/ Disappearing(c)
  /\ Disappearing(c) => ~in_table[c]

LinkInv(k) ==
  /\ \A c \in Clients : k \in Elems(bus[c]) => call[k].at = "bus" /\ c = Caller[k]
  /\ <<"dispatch", k>> \in Elems(mainq) => call[k].at = "dispatch"
  /\ <<"handler", k>> \in Elems(mainq) => call[k].at = "handler" /\ ~call[k].ran
  /\ call[k].at \notin {"none", "bus"} => uid_state[Caller[k]] # "none"

\* The clients that the daemon has counted.
Counted == {c \in Clients : (in_table[c] \/ Disappearing(c)) /\ ~Appearing(c)}

CountInv == num_clients = Cardinality(Counted)

JobCalls == {k \in Calls : call[k].at = "job"}

JobsInv == IsFiniteSet(JobCalls) /\ num_jobs = Cardinality(JobCalls)

FaultInv ==
  /\ fault \in {"none", "unknown_caller"}
  /\ fault = "unknown_caller" =>
       /\ loop = "aborted"
       /\ \E k \in Calls : /\ call[k].ran /\ call[k].at = "handler"
                           /\ ~connected[Caller[k]]

IndInv ==
  /\ Typed
  /\ OrderInv
  /\ \A c \in Clients : ClientInv(c)
  /\ \A k \in Calls : LinkInv(k)
  /\ CountInv
  /\ JobsInv
  /\ FaultInv

-----------------------------------------------------------------------------
\* Appending to a queue.
LEMMA AppendFacts ==
  ASSUME NEW S, NEW q \in Seq(S), NEW e \in S
  PROVE  /\ Append(q, e) \in Seq(S)
         /\ Elems(Append(q, e)) = Elems(q) \cup {e}
         /\ Once(q) /\ e \notin Elems(q) => Once(Append(q, e))
<1> DEFINE a == Append(q, e)
<1>1. /\ a \in Seq(S)
      /\ Len(a) = Len(q) + 1
      /\ \A i \in 1..Len(q) : a[i] = q[i]
      /\ a[Len(q) + 1] = e
      /\ Len(q) \in Nat
  BY AppendProperties, LenProperties
<1> HIDE DEF a
<1>2. 1..Len(a) = 1..Len(q) \cup {Len(q) + 1} BY <1>1
<1>3. Elems(a) = Elems(q) \cup {e} BY <1>1, <1>2 DEF Elems
<1>4. ASSUME Once(q), e \notin Elems(q) PROVE Once(a)
  <2>1. SUFFICES ASSUME NEW i \in 1..Len(a), NEW j \in 1..Len(a), a[i] = a[j]
                 PROVE  i = j
    BY DEF Once
  <2>2. \A m \in 1..Len(q) : a[m] # e BY <1>1, <1>4 DEF Elems
  <2>3. QED BY <1>1, <1>2, <1>4, <2>1, <2>2 DEF Once
<1>5. QED BY <1>1, <1>3, <1>4 DEF a

\* Appending keeps x before y, unless x is appended after y.
LEMMA AppendBefore ==
  ASSUME NEW S, NEW q \in Seq(S), NEW e \in S, NEW x, NEW y, x # y,
         Before(q, x, y), e = x => y \notin Elems(q)
  PROVE  Before(Append(q, e), x, y)
<1> DEFINE a == Append(q, e)
<1>1. /\ Len(a) = Len(q) + 1
      /\ \A i \in 1..Len(q) : a[i] = q[i]
      /\ a[Len(q) + 1] = e
      /\ Len(q) \in Nat
  BY AppendProperties, LenProperties
<1> HIDE DEF a
<1>2. SUFFICES ASSUME NEW i \in 1..Len(a), NEW j \in 1..Len(a), a[i] = x, a[j] = y
               PROVE  i < j
  BY DEF Before, a
<1>3. CASE i \in 1..Len(q) /\ j \in 1..Len(q) BY <1>1, <1>2, <1>3 DEF Before
<1>4. CASE i \in 1..Len(q) /\ j = Len(q) + 1 BY <1>1, <1>4
<1>5. CASE i = Len(q) + 1 /\ j \in 1..Len(q) BY <1>1, <1>2, <1>5 DEF Elems
<1>6. CASE i = Len(q) + 1 /\ j = Len(q) + 1 BY <1>1, <1>2, <1>6
<1>7. QED BY <1>1, <1>3, <1>4, <1>5, <1>6

\* Taking the head of a queue.
LEMMA TailFacts ==
  ASSUME NEW S, NEW q \in Seq(S), q # <<>>
  PROVE  /\ Tail(q) \in Seq(S)
         /\ Head(q) \in Elems(q)
         /\ Elems(q) \subseteq S
         /\ Once(q) => Once(Tail(q)) /\ Elems(Tail(q)) = Elems(q) \ {Head(q)}
         /\ \A x, y : Before(q, x, y) => /\ Before(Tail(q), x, y)
                                         /\ Head(q) = y => x \notin Elems(q)
<1> DEFINE t == Tail(q)
<1>1. /\ t \in Seq(S)
      /\ Len(t) = Len(q) - 1
      /\ \A i \in 1..Len(t) : t[i] = q[i + 1]
      /\ Head(q) = q[1]
      /\ Len(q) \in Nat \ {0}
      /\ \A i \in 1..Len(q) : q[i] \in S
  BY HeadTailProperties, LenProperties, ElementOfSeq, EmptySeq
<1> HIDE DEF t
<1>2. Head(q) \in Elems(q) /\ Elems(q) \subseteq S BY <1>1 DEF Elems
<1>3. ASSUME Once(q) PROVE Once(t) /\ Elems(t) = Elems(q) \ {Head(q)}
  <2>1. Once(t) BY <1>1, <1>3 DEF Once
  <2>2. \A x \in Elems(t) : x \in Elems(q) \ {Head(q)}
    BY <1>1, <1>3 DEF Elems, Once
  <2>3. ASSUME NEW x \in Elems(q) \ {Head(q)} PROVE x \in Elems(t)
    <3>1. PICK i \in 1..Len(q) : x = q[i] BY DEF Elems
    <3>2. i # 1 BY <1>1, <2>3, <3>1
    <3>3. i - 1 \in 1..Len(t) /\ t[i - 1] = q[i] BY <1>1, <3>1, <3>2
    <3>4. QED BY <3>1, <3>3 DEF Elems
  <2>4. QED BY <2>1, <2>2, <2>3
<1>4. ASSUME NEW x, NEW y, Before(q, x, y)
      PROVE  Before(t, x, y) /\ (Head(q) = y => x \notin Elems(q))
  BY <1>1, <1>4 DEF Before, Elems
<1>5. QED BY <1>1, <1>2, <1>3, <1>4 DEF t

\* The bus sends one more message about a client...
LEMMA BusAppend ==
  ASSUME NEW q \in Seq(Messages), BusOrder(q), NEW m \in Messages \ Elems(q),
         m \in Calls \cup {"uid_ok"} => "vanished" \notin Elems(q)
  PROVE  /\ Append(q, m) \in Seq(Messages)
         /\ Elems(Append(q, m)) = Elems(q) \cup {m}
         /\ BusOrder(Append(q, m))
<1>1. /\ Append(q, m) \in Seq(Messages)
      /\ Elems(Append(q, m)) = Elems(q) \cup {m}
      /\ Once(Append(q, m))
  BY AppendFacts DEF BusOrder
<1>2. ASSUME NEW x \in Calls \cup {"uid_ok"}
      PROVE  Before(Append(q, m), x, "vanished")
  <2>1. x # "vanished" BY MessagesAssumption
  <2>2. Before(q, x, "vanished") BY DEF BusOrder
  <2>3. m = x => "vanished" \notin Elems(q) OBVIOUS
  <2>4. QED BY <2>1, <2>2, <2>3, AppendBefore
<1>3. QED BY <1>1, <1>2 DEF BusOrder

\* ... and the worker thread reads one.
LEMMA BusTail ==
  ASSUME NEW q \in Seq(Messages), BusOrder(q), q # <<>>
  PROVE  /\ Tail(q) \in Seq(Messages)
         /\ Head(q) \in Elems(q)
         /\ Elems(Tail(q)) = Elems(q) \ {Head(q)}
         /\ BusOrder(Tail(q))
         /\ Head(q) = "vanished" => Elems(q) \subseteq {"vanished", "uid_err"}
<1>1. /\ Tail(q) \in Seq(Messages) /\ Head(q) \in Elems(q)
      /\ Elems(q) \subseteq Messages
      /\ Once(Tail(q)) /\ Elems(Tail(q)) = Elems(q) \ {Head(q)}
  BY TailFacts DEF BusOrder
<1>2. \A x \in Calls \cup {"uid_ok"} :
        /\ Before(Tail(q), x, "vanished")
        /\ Head(q) = "vanished" => x \notin Elems(q)
  BY TailFacts DEF BusOrder
<1>3. QED BY <1>1, <1>2 DEF BusOrder, Messages

\* A source is attached to the main loop...
LEMMA MainAppend ==
  ASSUME NEW q \in Seq(Tasks), MainOrder(q), NEW e \in Tasks \ Elems(q),
         \A c \in Clients : e = <<"appeared", c>> =>
                              <<"disappeared", c>> \notin Elems(q)
  PROVE  /\ Append(q, e) \in Seq(Tasks)
         /\ Elems(Append(q, e)) = Elems(q) \cup {e}
         /\ MainOrder(Append(q, e))
<1>1. /\ Append(q, e) \in Seq(Tasks)
      /\ Elems(Append(q, e)) = Elems(q) \cup {e}
      /\ Once(Append(q, e))
  BY AppendFacts DEF MainOrder
<1>2. ASSUME NEW c \in Clients
      PROVE  Before(Append(q, e), <<"appeared", c>>, <<"disappeared", c>>)
  <2>1. Before(q, <<"appeared", c>>, <<"disappeared", c>>) BY DEF MainOrder
  <2>2. <<"appeared", c>> # <<"disappeared", c>> OBVIOUS
  <2>3. e = <<"appeared", c>> => <<"disappeared", c>> \notin Elems(q) OBVIOUS
  <2>4. QED BY <2>1, <2>2, <2>3, AppendBefore
<1>3. QED BY <1>1, <1>2 DEF MainOrder

\* ... and dispatched.
LEMMA MainTakes ==
  ASSUME IndInv, NEW task, Dispatches(task)
  PROVE  /\ MainLoopRuns
         /\ mainq' \in Seq(Tasks)
         /\ task \in Elems(mainq)
         /\ Elems(mainq') = Elems(mainq) \ {task}
         /\ MainOrder(mainq')
         /\ \A c \in Clients : task = <<"disappeared", c>> => ~Appearing(c)
<1>1. /\ MainLoopRuns /\ mainq # <<>> /\ Head(mainq) = task /\ mainq' = Tail(mainq)
      /\ mainq \in Seq(Tasks) /\ MainOrder(mainq)
  BY DEF Dispatches, IndInv, Typed, OrderInv
<1>2. /\ Tail(mainq) \in Seq(Tasks) /\ task \in Elems(mainq)
      /\ Once(Tail(mainq)) /\ Elems(Tail(mainq)) = Elems(mainq) \ {task}
  BY <1>1, TailFacts DEF MainOrder
<1>3. ASSUME NEW c \in Clients
      PROVE  /\ Before(Tail(mainq), <<"appeared", c>>, <<"disappeared", c>>)
             /\ task = <<"disappeared", c>> => <<"appeared", c>> \notin Elems(mainq)
  BY <1>1, TailFacts DEF MainOrder
<1>4. QED BY <1>1, <1>2, <1>3 DEF MainOrder, Appearing

-----------------------------------------------------------------------------
\* What a step does not touch stays as it is.

\* A client.
LEMMA ClientFrame ==
  ASSUME NEW c \in Clients, ClientInv(c),
         uid_state'[c] = uid_state[c], in_table'[c] = in_table[c],
         asked'[c] = asked[c], connected'[c] = connected[c], bus'[c] = bus[c],
         Appearing(c)' <=> Appearing(c), Disappearing(c)' <=> Disappearing(c)
  PROVE  ClientInv(c)'
BY DEF ClientInv

\* A call.
LEMMA LinkFrame ==
  ASSUME NEW k \in Calls, LinkInv(k), call'[k] = call[k],
         \A c \in Clients : k \in Elems(bus'[c]) => k \in Elems(bus[c]),
         <<"dispatch", k>> \in Elems(mainq') => <<"dispatch", k>> \in Elems(mainq),
         <<"handler", k>> \in Elems(mainq') => <<"handler", k>> \in Elems(mainq),
         uid_state[Caller[k]] # "none" => uid_state'[Caller[k]] # "none"
  PROVE  LinkInv(k)'
BY DEF LinkInv

\* The clients that are counted.
LEMMA CountFrame ==
  ASSUME CountInv, num_clients' = num_clients,
         \A c \in Clients : /\ in_table'[c] \/ Disappearing(c)'
                                 <=> in_table[c] \/ Disappearing(c)
                            /\ Appearing(c)' <=> Appearing(c)
  PROVE  CountInv'
<1>1. Counted' = Counted BY DEF Counted
<1>2. QED BY <1>1 DEF CountInv

\* While the main loop runs there was no fault.
LEMMA NoFaultYet ==
  ASSUME IndInv, MainLoopRuns
  PROVE  fault = "none"
BY DEF IndInv, FaultInv, MainLoopRuns

\* A step of the daemon that leaves the clients and the calls alone.
LEMMA DaemonKeepsIndInv ==
  ASSUME IndInv, DaemonNext, UNCHANGED <<clientVars, call, mainq, fault>>
  PROVE  IndInv'
<1> USE DEF clientVars
<1>1. num_clients' = num_clients /\ num_jobs' = num_jobs
  BY DEF DaemonNext, on_manager_ready, on_name_acquired, on_name_lost, on_sigint,
         MainLoopReturns
<1>2. DaemonTypeOK'
  BY DEF IndInv, Typed, DaemonTypeOK, DaemonNext, on_manager_ready,
         on_name_acquired, on_name_lost, maybe_finished, on_sigint,
         MainLoopReturns
<1>3. Typed' BY <1>2 DEF IndInv, Typed
<1>4. OrderInv' BY DEF IndInv, OrderInv
<1>5. \A c \in Clients : ClientInv(c)'
  BY DEF IndInv, ClientInv, Appearing, Disappearing
<1>6. \A k \in Calls : LinkInv(k)' BY DEF IndInv, LinkInv
<1>7. CountInv' BY <1>1 DEF IndInv, CountInv, Counted, Appearing, Disappearing
<1>8. JobsInv' BY <1>1 DEF IndInv, JobsInv, JobCalls
<1>9. FaultInv'
  <2>1. MainLoopRuns
    BY DEF DaemonNext, on_manager_ready, on_name_acquired, on_name_lost, on_sigint,
           MainLoopReturns, MainLoopRuns
  <2>2. QED BY <2>1, NoFaultYet DEF FaultInv
<1>10. QED BY <1>3, <1>4, <1>5, <1>6, <1>7, <1>8, <1>9 DEF IndInv

-----------------------------------------------------------------------------
\* Steps of a call.  The client table stays as it is.
Goes(r, place) == [r EXCEPT !.at = place]
Failing(r)     == [r EXCEPT !.at = "handler", !.failed = TRUE, !.replies = @ + 1]
Granting(r)    == [r EXCEPT !.at = "handler", !.granted = TRUE]
Answering(r)   == [r EXCEPT !.at = "done", !.replies = @ + 1]
Handling(r)    == [r EXCEPT !.at = "done", !.ran = TRUE, !.replies = @ + 1]
Launching(r)   == [r EXCEPT !.at = "job", !.ran = TRUE]
Running(r)     == [r EXCEPT !.ran = TRUE]

\* A call that moves on before it is authorized.
LEMMA GoesIsGood ==
  ASSUME NEW r, GoodCall(r),
         r.at \in {"none", "bus", "dispatch", "auth", "waiting", "polkit"},
         NEW place \in {"bus", "dispatch", "auth", "waiting", "polkit"}
  PROVE  GoodCall(Goes(r, place)) /\ Goes(r, place).at = place
<1> DEFINE q == Goes(r, place)
<1>1. /\ DOMAIN q = {"at", "failed", "granted", "ran", "replies"}
      /\ q = [f \in DOMAIN q |-> q[f]]
      /\ q.at = place
  BY DEF GoodCall, IsCall, Goes
<1>2. q.failed = r.failed /\ q.granted = r.granted /\ q.ran = r.ran /\ q.replies = r.replies
  BY DEF GoodCall, IsCall, Goes
<1> HIDE DEF q
<1>3. GoodCall(q) BY <1>1, <1>2 DEF GoodCall, IsCall
<1>4. QED BY <1>1, <1>3 DEF q

\* A call that is answered with the error of its lookup.
LEMMA FailingIsGood ==
  ASSUME NEW r, GoodCall(r), r.at \in {"auth", "waiting"}
  PROVE  GoodCall(Failing(r)) /\ Failing(r).at = "handler" /\ ~Failing(r).ran
<1> DEFINE q == Failing(r)
<1>1. /\ DOMAIN q = {"at", "failed", "granted", "ran", "replies"}
      /\ q = [f \in DOMAIN q |-> q[f]]
      /\ q.at = "handler"
  BY DEF GoodCall, IsCall, Failing
<1>2. q.failed /\ q.granted = r.granted /\ q.ran = r.ran /\ q.replies = r.replies + 1
  BY DEF GoodCall, IsCall, Failing
<1> HIDE DEF q
<1>3. r.replies = 0 /\ ~r.ran BY DEF GoodCall
<1>4. GoodCall(q) BY <1>1, <1>2, <1>3 DEF GoodCall, IsCall
<1>5. QED BY <1>1, <1>2, <1>3, <1>4 DEF q

\* A call that polkit grants.
LEMMA GrantingIsGood ==
  ASSUME NEW r, GoodCall(r), r.at = "polkit"
  PROVE  GoodCall(Granting(r)) /\ Granting(r).at = "handler" /\ ~Granting(r).ran
<1> DEFINE q == Granting(r)
<1>1. /\ DOMAIN q = {"at", "failed", "granted", "ran", "replies"}
      /\ q = [f \in DOMAIN q |-> q[f]]
      /\ q.at = "handler"
  BY DEF GoodCall, IsCall, Granting
<1>2. q.failed = r.failed /\ q.granted /\ q.ran = r.ran /\ q.replies = r.replies
  BY DEF GoodCall, IsCall, Granting
<1> HIDE DEF q
<1>3. r.replies = 0 /\ ~r.ran /\ ~r.failed BY DEF GoodCall
<1>4. GoodCall(q) BY <1>1, <1>2, <1>3 DEF GoodCall, IsCall
<1>5. QED BY <1>1, <1>2, <1>3, <1>4 DEF q

\* A call that is refused, or whose job completes.
LEMMA AnsweringIsGood ==
  ASSUME NEW r, GoodCall(r), r.at \in {"polkit", "job"}
  PROVE  GoodCall(Answering(r)) /\ Answering(r).at = "done"
<1> DEFINE q == Answering(r)
<1>1. /\ DOMAIN q = {"at", "failed", "granted", "ran", "replies"}
      /\ q = [f \in DOMAIN q |-> q[f]]
      /\ q.at = "done"
  BY DEF GoodCall, IsCall, Answering
<1>2. q.failed = r.failed /\ q.granted = r.granted /\ q.ran = r.ran /\ q.replies = r.replies + 1
  BY DEF GoodCall, IsCall, Answering
<1> HIDE DEF q
<1>3. r.replies = 0 \/ (r.replies = 1 /\ r.failed) BY DEF GoodCall
<1>4. GoodCall(q) BY <1>1, <1>2, <1>3 DEF GoodCall, IsCall
<1>5. QED BY <1>1, <1>4 DEF q

\* A call whose handler answers it...
LEMMA HandlingIsGood ==
  ASSUME NEW r, GoodCall(r), r.at = "handler"
  PROVE  GoodCall(Handling(r)) /\ Handling(r).at = "done"
<1> DEFINE q == Handling(r)
<1>1. /\ DOMAIN q = {"at", "failed", "granted", "ran", "replies"}
      /\ q = [f \in DOMAIN q |-> q[f]]
      /\ q.at = "done"
  BY DEF GoodCall, IsCall, Handling
<1>2. q.failed = r.failed /\ q.granted = r.granted /\ q.ran /\ q.replies = r.replies + 1
  BY DEF GoodCall, IsCall, Handling
<1> HIDE DEF q
<1>3. r.replies = 0 \/ (r.replies = 1 /\ r.failed) BY DEF GoodCall
<1>4. r.granted \/ r.failed BY DEF GoodCall
<1>5. GoodCall(q) BY <1>1, <1>2, <1>3, <1>4 DEF GoodCall, IsCall
<1>6. QED BY <1>1, <1>5 DEF q

\* ... or launches a job...
LEMMA LaunchingIsGood ==
  ASSUME NEW r, GoodCall(r), r.at = "handler"
  PROVE  GoodCall(Launching(r)) /\ Launching(r).at = "job"
<1> DEFINE q == Launching(r)
<1>1. /\ DOMAIN q = {"at", "failed", "granted", "ran", "replies"}
      /\ q = [f \in DOMAIN q |-> q[f]]
      /\ q.at = "job"
  BY DEF GoodCall, IsCall, Launching
<1>2. q.failed = r.failed /\ q.granted = r.granted /\ q.ran /\ q.replies = r.replies
  BY DEF GoodCall, IsCall, Launching
<1> HIDE DEF q
<1>3. GoodCall(q) BY <1>1, <1>2 DEF GoodCall, IsCall
<1>4. QED BY <1>1, <1>3 DEF q

\* ... or brings the process down.
LEMMA RunningIsGood ==
  ASSUME NEW r, GoodCall(r), r.at = "handler"
  PROVE  GoodCall(Running(r)) /\ Running(r).at = "handler" /\ Running(r).ran
<1> DEFINE q == Running(r)
<1>1. /\ DOMAIN q = {"at", "failed", "granted", "ran", "replies"}
      /\ q = [f \in DOMAIN q |-> q[f]]
      /\ q.at = "handler"
  BY DEF GoodCall, IsCall, Running
<1>2. q.failed = r.failed /\ q.granted = r.granted /\ q.ran /\ q.replies = r.replies
  BY DEF GoodCall, IsCall, Running
<1> HIDE DEF q
<1>3. GoodCall(q) BY <1>1, <1>2 DEF GoodCall, IsCall
<1>4. QED BY <1>1, <1>2, <1>3 DEF q

\* A step of one call, which leaves the sources of clients and of other calls.
LEMMA CallStep ==
  ASSUME IndInv, UNCHANGED clientVars, NEW k \in Calls,
         call' = [call EXCEPT ![k] = call'[k]], GoodCall(call'[k]),
         call[k].at \notin {"none", "bus"},
         DaemonTypeOK', num_clients' = num_clients, JobsInv', FaultInv',
         mainq' \in Seq(Tasks), MainOrder(mainq'),
         \A e : e # <<"dispatch", k>> /\ e # <<"handler", k>> =>
                  (e \in Elems(mainq') <=> e \in Elems(mainq)),
         <<"dispatch", k>> \notin Elems(mainq'),
         <<"handler", k>> \in Elems(mainq') => call'[k].at = "handler" /\ ~call'[k].ran
  PROVE  IndInv'
<1> USE DEF clientVars
<1>1. Typed'
  <2>1. call = [j \in Calls |-> call[j]] /\ \A j \in Calls : GoodCall(call[j])
    BY DEF IndInv, Typed
  <2>2. PICK r : r = call'[k] OBVIOUS
  <2>3. call' = [call EXCEPT ![k] = r] /\ GoodCall(r) BY <2>2
  <2>4. call' = [j \in Calls |-> call'[j]] /\ \A j \in Calls : GoodCall(call'[j])
    BY <2>1, <2>3
  <2>5. QED BY <2>4 DEF IndInv, Typed
<1>2. OrderInv' BY DEF IndInv, OrderInv
<1>3. ASSUME NEW c \in Clients
      PROVE  /\ Appearing(c)' <=> Appearing(c)
             /\ Disappearing(c)' <=> Disappearing(c)
  BY DEF Appearing, Disappearing
<1>4. ASSUME NEW c \in Clients PROVE ClientInv(c)'
  BY <1>3, ClientFrame DEF IndInv
<1>5. ASSUME NEW j \in Calls PROVE LinkInv(j)'
  <2>1. LinkInv(j) BY DEF IndInv
  <2>2. CASE j = k
    <3>1. \A c \in Clients : k \notin Elems(bus'[c]) BY <2>1, <2>2 DEF LinkInv
    <3>2. uid_state'[Caller[k]] # "none" BY <2>1, <2>2 DEF LinkInv
    <3>3. QED BY <2>2, <3>1, <3>2 DEF LinkInv
  <2>3. CASE j # k
    <3>1. call'[j] = call[j]
      <4>1. PICK r : r = call'[k] OBVIOUS
      <4>2. call' = [call EXCEPT ![k] = r] BY <4>1
      <4>3. call = [i \in Calls |-> call[i]] BY DEF IndInv, Typed
      <4>4. QED BY <2>3, <4>2, <4>3
    <3>2. /\ <<"dispatch", j>> \in Elems(mainq') => <<"dispatch", j>> \in Elems(mainq)
          /\ <<"handler", j>> \in Elems(mainq') => <<"handler", j>> \in Elems(mainq)
      BY <2>3
    <3>3. QED BY <2>1, <3>1, <3>2, LinkFrame
  <2>4. QED BY <2>2, <2>3
<1>6. CountInv' BY <1>3, CountFrame DEF IndInv
<1>7. QED BY <1>1, <1>2, <1>4, <1>5, <1>6 DEF IndInv

\* A call that neither launches nor ends a job, in a daemon that goes on.
LEMMA SameJobs ==
  ASSUME IndInv, MainLoopRuns, UNCHANGED <<daemonVars, fault>>, NEW k \in Calls,
         NEW r, call' = [call EXCEPT ![k] = r], call[k].at # "job", r.at # "job"
  PROVE  DaemonTypeOK' /\ num_clients' = num_clients /\ JobsInv' /\ FaultInv'
<1>1. call = [j \in Calls |-> call[j]] BY DEF IndInv, Typed
<1>2. JobCalls' = JobCalls BY <1>1 DEF JobCalls
<1>3. JobsInv' BY <1>2 DEF IndInv, JobsInv, daemonVars
<1>4. FaultInv' BY NoFaultYet DEF FaultInv
<1>5. QED BY <1>3, <1>4 DEF IndInv, Typed, DaemonTypeOK, daemonVars

\* The source of a handler is attached.
LEMMA HandlerAttached ==
  ASSUME IndInv, NEW k \in Calls, call[k].at \in {"auth", "waiting", "polkit"},
         mainq' = Append(mainq, <<"handler", k>>)
  PROVE  /\ mainq' \in Seq(Tasks)
         /\ MainOrder(mainq')
         /\ \A e : e # <<"dispatch", k>> /\ e # <<"handler", k>> =>
                     (e \in Elems(mainq') <=> e \in Elems(mainq))
         /\ <<"dispatch", k>> \notin Elems(mainq')
<1>1. <<"dispatch", k>> \notin Elems(mainq) /\ <<"handler", k>> \notin Elems(mainq)
  BY DEF IndInv, LinkInv
<1>2. PICK e \in Tasks : e = <<"handler", k>> BY DEF Tasks
<1>3. \A c \in Clients : e # <<"appeared", c>> BY <1>2
<1>4. mainq \in Seq(Tasks) /\ MainOrder(mainq) BY DEF IndInv, Typed, OrderInv
<1>5. /\ Append(mainq, e) \in Seq(Tasks) /\ MainOrder(Append(mainq, e))
      /\ Elems(Append(mainq, e)) = Elems(mainq) \cup {e}
  BY <1>1, <1>2, <1>3, <1>4, MainAppend
<1>6. mainq' = Append(mainq, e) BY <1>2
<1>7. Elems(mainq') = Elems(mainq) \cup {e} BY <1>5, <1>6
<1>8. \A x : x # <<"dispatch", k>> /\ x # <<"handler", k>> =>
               (x \in Elems(mainq') <=> x \in Elems(mainq))
  BY <1>2, <1>7
<1>9. <<"dispatch", k>> \notin Elems(mainq') BY <1>1, <1>2, <1>7
<1>10. QED BY <1>5, <1>6, <1>8, <1>9

\* The lookup of a caller fails.
LEMMA LookupFails ==
  ASSUME IndInv, MainLoopRuns, NEW k \in Calls, call[k].at \in {"auth", "waiting"},
         LookupFailed(k), UNCHANGED <<daemonVars, clientVars, fault>>
  PROVE  IndInv'
<1>1. PICK r : r = Failing(call[k]) OBVIOUS
<1>2. GoodCall(r) /\ r.at = "handler" /\ ~r.ran
  BY <1>1, FailingIsGood DEF IndInv, Typed
<1>3. call = [j \in Calls |-> call[j]] BY DEF IndInv, Typed
<1>4. call' = [call EXCEPT ![k] = r] BY <1>1 DEF LookupFailed, Failing
<1>5. call'[k] = r BY <1>3, <1>4
<1>6. mainq' = Append(mainq, <<"handler", k>>) BY DEF LookupFailed
<1>7. DaemonTypeOK' /\ num_clients' = num_clients /\ JobsInv' /\ FaultInv'
  BY <1>2, <1>4, SameJobs
<1>8. QED BY <1>2, <1>4, <1>5, <1>6, <1>7, HandlerAttached, CallStep

\* A call that moves on before it is authorized.
LEMMA CallGoes ==
  ASSUME IndInv, MainLoopRuns, NEW k \in Calls,
         call[k].at \in {"auth", "waiting"}, NEW place \in {"waiting", "polkit"},
         call' = [call EXCEPT ![k].at = place],
         UNCHANGED <<daemonVars, clientVars, mainq, fault>>
  PROVE  IndInv'
<1>1. PICK r : r = Goes(call[k], place) OBVIOUS
<1>2. GoodCall(r) /\ r.at = place BY <1>1, GoesIsGood DEF IndInv, Typed
<1>3. call = [j \in Calls |-> call[j]] BY DEF IndInv, Typed
<1>4. call' = [call EXCEPT ![k] = r] BY <1>1 DEF Goes
<1>5. call'[k] = r BY <1>3, <1>4
<1>6. DaemonTypeOK' /\ num_clients' = num_clients /\ JobsInv' /\ FaultInv'
  BY <1>2, <1>4, SameJobs
<1>7. <<"dispatch", k>> \notin Elems(mainq) /\ <<"handler", k>> \notin Elems(mainq)
  BY DEF IndInv, LinkInv
<1>8. mainq' \in Seq(Tasks) /\ MainOrder(mainq') /\ mainq' = mainq
  BY DEF IndInv, Typed, OrderInv
<1>9. QED BY <1>2, <1>4, <1>5, <1>6, <1>7, <1>8, CallStep

\* The thread of a call.
LEMMA AuthKeepsIndInv ==
  ASSUME IndInv, NEW k \in Calls, AuthStep(k)
  PROVE  IndInv'
<1>1. CASE lookup_starts(k)
  BY <1>1, CallGoes, LookupFails DEF lookup_starts
<1>2. CASE lookup_returns(k)
  BY <1>2, CallGoes, LookupFails DEF lookup_returns
<1>3. CASE check_authorization(k)
  <2>1. /\ MainLoopRuns /\ call[k].at = "polkit"
        /\ UNCHANGED <<daemonVars, clientVars, fault>>
    BY <1>3 DEF check_authorization
  <2>2. call = [j \in Calls |-> call[j]] /\ GoodCall(call[k]) BY DEF IndInv, Typed
  <2>3. CASE /\ call' = [call EXCEPT ![k].at = "handler", ![k].granted = TRUE]
             /\ mainq' = Append(mainq, <<"handler", k>>)
    <3>1. PICK r : r = Granting(call[k]) OBVIOUS
    <3>2. GoodCall(r) /\ r.at = "handler" /\ ~r.ran BY <2>1, <2>2, <3>1, GrantingIsGood
    <3>3. call' = [call EXCEPT ![k] = r] BY <2>2, <2>3, <3>1 DEF Granting
    <3>4. call'[k] = r BY <2>2, <3>3
    <3>5. DaemonTypeOK' /\ num_clients' = num_clients /\ JobsInv' /\ FaultInv'
      BY <2>1, <3>2, <3>3, SameJobs
    <3>6. QED BY <2>1, <2>3, <3>2, <3>3, <3>4, <3>5, HandlerAttached, CallStep
  <2>4. CASE /\ call' = [call EXCEPT ![k].at = "done", ![k].replies = @ + 1]
             /\ UNCHANGED mainq
    <3>1. PICK r : r = Answering(call[k]) OBVIOUS
    <3>2. GoodCall(r) /\ r.at = "done" BY <2>1, <2>2, <3>1, AnsweringIsGood
    <3>3. call' = [call EXCEPT ![k] = r] BY <2>2, <2>4, <3>1 DEF Answering
    <3>4. call'[k] = r BY <2>2, <3>3
    <3>5. DaemonTypeOK' /\ num_clients' = num_clients /\ JobsInv' /\ FaultInv'
      BY <2>1, <3>2, <3>3, SameJobs
    <3>6. <<"dispatch", k>> \notin Elems(mainq) /\ <<"handler", k>> \notin Elems(mainq)
      BY <2>1 DEF IndInv, LinkInv
    <3>7. mainq' \in Seq(Tasks) /\ MainOrder(mainq') /\ mainq' = mainq
      BY <2>4 DEF IndInv, Typed, OrderInv
    <3>8. QED BY <2>1, <3>2, <3>3, <3>4, <3>5, <3>6, <3>7, CallStep
  <2>5. QED BY <1>3, <2>3, <2>4 DEF check_authorization
<1>4. QED BY <1>1, <1>2, <1>3 DEF AuthStep

\* The source of a call is dispatched.
LEMMA CallTaken ==
  ASSUME IndInv, NEW k \in Calls, NEW step \in {"dispatch", "handler"},
         Dispatches(<<step, k>>)
  PROVE  /\ MainLoopRuns
         /\ call[k].at = step
         /\ mainq' \in Seq(Tasks)
         /\ MainOrder(mainq')
         /\ \A e : e # <<"dispatch", k>> /\ e # <<"handler", k>> =>
                     (e \in Elems(mainq') <=> e \in Elems(mainq))
         /\ <<"dispatch", k>> \notin Elems(mainq')
         /\ <<"handler", k>> \notin Elems(mainq')
<1>1. PICK task : task = <<step, k>> OBVIOUS
<1>2. /\ MainLoopRuns /\ mainq' \in Seq(Tasks) /\ MainOrder(mainq')
      /\ task \in Elems(mainq)
      /\ Elems(mainq') = Elems(mainq) \ {task}
  BY <1>1, MainTakes
<1>3. LinkInv(k) BY DEF IndInv
<1>4. call[k].at = step BY <1>1, <1>2, <1>3 DEF LinkInv
<1>5. \A e : e # <<"dispatch", k>> /\ e # <<"handler", k>> =>
               (e \in Elems(mainq') <=> e \in Elems(mainq))
  BY <1>1, <1>2
<1>6. <<"dispatch", k>> \notin Elems(mainq') /\ <<"handler", k>> \notin Elems(mainq')
  BY <1>1, <1>2, <1>3, <1>4 DEF LinkInv
<1>7. QED BY <1>2, <1>4, <1>5, <1>6

\* A call is handed to its thread.
LEMMA DispatchKeepsIndInv ==
  ASSUME IndInv, NEW k \in Calls, method_dispatched(k)
  PROVE  IndInv'
<1>1. /\ call' = [call EXCEPT ![k].at = "auth"]
      /\ UNCHANGED <<daemonVars, clientVars, fault>>
      /\ Dispatches(<<"dispatch", k>>)
  BY DEF method_dispatched
<1>2. PICK step \in {"dispatch", "handler"} : step = "dispatch" OBVIOUS
<1>3. Dispatches(<<step, k>>) BY <1>1, <1>2
<1>4. PICK place \in {"bus", "dispatch", "auth", "waiting", "polkit"} : place = "auth"
  OBVIOUS
<1>5. call = [j \in Calls |-> call[j]] /\ GoodCall(call[k]) BY DEF IndInv, Typed
<1>6. PICK r : r = Goes(call[k], place) OBVIOUS
<1>7. MainLoopRuns /\ call[k].at = "dispatch" BY <1>2, <1>3, CallTaken
<1>8. GoodCall(r) /\ r.at = "auth" BY <1>4, <1>5, <1>6, <1>7, GoesIsGood
<1>9. call' = [call EXCEPT ![k] = r] BY <1>1, <1>4, <1>5, <1>6 DEF Goes
<1>10. call'[k] = r BY <1>5, <1>9
<1>11. DaemonTypeOK' /\ num_clients' = num_clients /\ JobsInv' /\ FaultInv'
  BY <1>1, <1>7, <1>8, <1>9, SameJobs
<1>12. QED BY <1>1, <1>3, <1>7, <1>8, <1>9, <1>10, <1>11, CallTaken, CallStep

\* The handler of a method runs.
LEMMA HandleKeepsIndInv ==
  ASSUME IndInv, NEW k \in Calls, handle_method(k)
  PROVE  IndInv'
<1>1. UNCHANGED clientVars /\ Dispatches(<<"handler", k>>) BY DEF handle_method
<1>2. PICK step \in {"dispatch", "handler"} : step = "handler" OBVIOUS
<1>3. Dispatches(<<step, k>>) BY <1>1, <1>2
<1>4. MainLoopRuns /\ call[k].at = "handler" BY <1>2, <1>3, CallTaken
<1>5. call = [j \in Calls |-> call[j]] /\ GoodCall(call[k]) BY DEF IndInv, Typed
<1>6. CASE /\ call' = [call EXCEPT ![k].at = "done", ![k].ran = TRUE,
                                   ![k].replies = @ + 1]
           /\ UNCHANGED <<daemonVars, fault>>
  <2>1. PICK r : r = Handling(call[k]) OBVIOUS
  <2>2. GoodCall(r) /\ r.at = "done" BY <1>4, <1>5, <2>1, HandlingIsGood
  <2>3. call' = [call EXCEPT ![k] = r] BY <1>5, <1>6, <2>1 DEF Handling
  <2>4. call'[k] = r BY <1>5, <2>3
  <2>5. DaemonTypeOK' /\ num_clients' = num_clients /\ JobsInv' /\ FaultInv'
    BY <1>4, <1>6, <2>2, <2>3, SameJobs
  <2>6. QED BY <1>1, <1>3, <1>4, <2>2, <2>3, <2>4, <2>5, CallTaken, CallStep
<1>7. CASE /\ call' = [call EXCEPT ![k].at = "job", ![k].ran = TRUE]
           /\ job_launched
           /\ UNCHANGED fault
  <2>1. PICK r : r = Launching(call[k]) OBVIOUS
  <2>2. GoodCall(r) /\ r.at = "job" BY <1>4, <1>5, <2>1, LaunchingIsGood
  <2>3. call' = [call EXCEPT ![k] = r] BY <1>5, <1>7, <2>1 DEF Launching
  <2>4. call'[k] = r BY <1>5, <2>3
  <2>5. DaemonTypeOK' /\ num_clients' = num_clients
    BY <1>7 DEF job_launched, IndInv, Typed, DaemonTypeOK
  <2>6. JobsInv'
    <3>1. k \notin JobCalls BY <1>4 DEF JobCalls
    <3>2. JobCalls' = JobCalls \cup {k} BY <1>5, <2>2, <2>3, <2>4 DEF JobCalls
    <3>3. /\ IsFiniteSet(JobCalls \cup {k})
          /\ Cardinality(JobCalls \cup {k}) = Cardinality(JobCalls) + 1
      BY <3>1, FS_AddElement DEF IndInv, JobsInv
    <3>4. num_jobs' = num_jobs + 1 BY <1>7 DEF job_launched
    <3>5. QED BY <3>2, <3>3, <3>4 DEF IndInv, JobsInv
  <2>7. FaultInv' BY <1>4, <1>7, NoFaultYet DEF FaultInv
  <2>8. QED BY <1>1, <1>3, <1>4, <2>2, <2>3, <2>4, <2>5, <2>6, <2>7, CallTaken, CallStep
<1>8. CASE /\ ~in_table[Caller[k]]
           /\ call' = [call EXCEPT ![k].ran = TRUE]
           /\ fault' = "unknown_caller"
           /\ ProcessDies
  <2>1. PICK r : r = Running(call[k]) OBVIOUS
  <2>2. GoodCall(r) /\ r.at = "handler" /\ r.ran BY <1>4, <1>5, <2>1, RunningIsGood
  <2>3. call' = [call EXCEPT ![k] = r] BY <1>5, <1>8, <2>1 DEF Running
  <2>4. call'[k] = r BY <1>5, <2>3
  <2>5. DaemonTypeOK' /\ num_clients' = num_clients
    BY <1>8 DEF ProcessDies, IndInv, Typed, DaemonTypeOK
  <2>6. JobsInv'
    <3>1. JobCalls' = JobCalls BY <1>4, <1>5, <2>2, <2>3, <2>4 DEF JobCalls
    <3>2. QED BY <1>8, <3>1 DEF IndInv, JobsInv, ProcessDies
  <2>7. FaultInv'
    <3>1. Caller[k] \in Clients BY CallerAssumption
    <3>2. uid_state[Caller[k]] # "none" BY <1>4 DEF IndInv, LinkInv
    <3>3. ~connected[Caller[k]] BY <1>8, <3>1, <3>2 DEF IndInv, ClientInv
    <3>4. ~connected'[Caller[k]] BY <1>1, <3>3 DEF clientVars
    <3>5. call'[k].ran /\ call'[k].at = "handler" BY <2>2, <2>4
    <3>6. QED BY <1>8, <3>4, <3>5 DEF FaultInv, ProcessDies
  <2>8. QED BY <1>1, <1>3, <1>4, <2>2, <2>3, <2>4, <2>5, <2>6, <2>7, CallTaken, CallStep
<1>9. QED BY <1>6, <1>7, <1>8 DEF handle_method

\* A job completes.
LEMMA AnswerKeepsIndInv ==
  ASSUME IndInv, NEW k \in Calls, job_answers(k)
  PROVE  IndInv'
<1>1. /\ MainLoopRuns /\ call[k].at = "job" /\ job_counted_out
      /\ call' = [call EXCEPT ![k].at = "done", ![k].replies = @ + 1]
      /\ UNCHANGED <<clientVars, mainq, fault>>
  BY DEF job_answers
<1>2. call = [j \in Calls |-> call[j]] /\ GoodCall(call[k]) BY DEF IndInv, Typed
<1>3. PICK r : r = Answering(call[k]) OBVIOUS
<1>4. GoodCall(r) /\ r.at = "done" BY <1>1, <1>2, <1>3, AnsweringIsGood
<1>5. call' = [call EXCEPT ![k] = r] BY <1>1, <1>2, <1>3 DEF Answering
<1>6. call'[k] = r BY <1>2, <1>5
<1>7. k \in JobCalls BY <1>1 DEF JobCalls
<1>8. JobCalls' = JobCalls \ {k} BY <1>2, <1>4, <1>5, <1>6 DEF JobCalls
<1>9. /\ IsFiniteSet(JobCalls \ {k})
      /\ Cardinality(JobCalls \ {k}) = Cardinality(JobCalls) - 1
  BY <1>7, FS_RemoveElement DEF IndInv, JobsInv
<1>10. JobsInv' BY <1>1, <1>8, <1>9 DEF IndInv, JobsInv, job_counted_out
<1>11. DaemonTypeOK' /\ num_clients' = num_clients
  <2>1. num_jobs' \in Nat BY <1>8, <1>9, <1>10, FS_CardinalityType DEF JobsInv
  <2>2. loop' \in {"running", "quitting", "exited", "aborted"}
    BY <1>1 DEF job_counted_out, maybe_finished, IndInv, Typed, DaemonTypeOK
  <2>3. QED BY <1>1, <2>1, <2>2 DEF job_counted_out, IndInv, Typed, DaemonTypeOK
<1>12. FaultInv' BY <1>1, NoFaultYet DEF FaultInv
<1>13. <<"dispatch", k>> \notin Elems(mainq) /\ <<"handler", k>> \notin Elems(mainq)
  BY <1>1 DEF IndInv, LinkInv
<1>14. mainq' \in Seq(Tasks) /\ MainOrder(mainq') /\ mainq' = mainq
  BY <1>1 DEF IndInv, Typed, OrderInv
<1>15. QED BY <1>1, <1>4, <1>5, <1>6, <1>10, <1>11, <1>12, <1>13, <1>14, CallStep

-----------------------------------------------------------------------------
\* Steps of a client and of the bus.

\* A step of one client: the invariant is to be shown of that client.
LEMMA ClientStep ==
  ASSUME IndInv, NEW c \in Clients, Typed',
         \A d \in Clients \ {c} :
           /\ uid_state'[d] = uid_state[d] /\ in_table'[d] = in_table[d]
           /\ asked'[d] = asked[d] /\ connected'[d] = connected[d]
           /\ bus'[d] = bus[d]
           /\ <<"appeared", d>> \in Elems(mainq') <=> <<"appeared", d>> \in Elems(mainq)
           /\ <<"disappeared", d>> \in Elems(mainq')
                <=> <<"disappeared", d>> \in Elems(mainq),
         MainOrder(mainq'), BusOrder(bus'[c]), ClientInv(c)',
         \A k \in Calls : LinkInv(k)', CountInv', JobsInv', FaultInv'
  PROVE  IndInv'
<1>1. OrderInv' BY DEF IndInv, OrderInv
<1>2. ASSUME NEW d \in Clients PROVE ClientInv(d)'
  <2>1. CASE d = c BY <2>1
  <2>2. CASE d # c
    <3>1. Appearing(d)' <=> Appearing(d) BY <2>2 DEF Appearing
    <3>2. Disappearing(d)' <=> Disappearing(d) BY <2>2 DEF Disappearing
    <3>3. ClientInv(d) BY DEF IndInv
    <3>4. QED BY <2>2, <3>1, <3>2, <3>3, ClientFrame
  <2>3. QED BY <2>1, <2>2
<1>3. QED BY <1>1, <1>2 DEF IndInv

\* A step that changes what the bus says of a client and what is known of it.
LEMMA BusStep ==
  ASSUME IndInv, NEW c \in Clients, NEW q \in Seq(Messages), BusOrder(q),
         bus' = [bus EXCEPT ![c] = q], Elems(q) \cap Calls \subseteq Elems(bus[c]),
         UNCHANGED <<daemonVars, in_table, call, mainq, fault>>,
         connected' \in [Clients -> BOOLEAN], asked' \in [Clients -> BOOLEAN],
         uid_state' \in [Clients -> {"none", "LOADING", "VALID", "FAILED"}],
         \A d \in Clients \ {c} : /\ uid_state'[d] = uid_state[d]
                                  /\ asked'[d] = asked[d]
                                  /\ connected'[d] = connected[d],
         connected'[c] => connected[c],
         uid_state[c] # "none" => uid_state'[c] # "none",
         ClientInv(c)'
  PROVE  IndInv'
<1>1. bus \in [Clients -> Seq(Messages)] BY DEF IndInv, Typed
<1>2. bus'[c] = q /\ \A d \in Clients \ {c} : bus'[d] = bus[d] BY <1>1
<1>3. Typed'
  <2>1. bus' \in [Clients -> Seq(Messages)] BY <1>1
  <2>2. DaemonTypeOK' BY DEF IndInv, Typed, DaemonTypeOK, daemonVars
  <2>3. QED BY <2>1, <2>2 DEF IndInv, Typed
<1>4. ASSUME NEW k \in Calls PROVE LinkInv(k)'
  <2>1. \A d \in Clients : k \in Elems(bus'[d]) => k \in Elems(bus[d]) BY <1>2
  <2>2. uid_state[Caller[k]] # "none" => uid_state'[Caller[k]] # "none"
    BY CallerAssumption
  <2>3. LinkInv(k) BY DEF IndInv
  <2>4. QED BY <2>1, <2>2, <2>3, LinkFrame
<1>5. CountInv'
  BY CountFrame DEF IndInv, daemonVars, Appearing, Disappearing
<1>6. JobsInv' BY DEF IndInv, JobsInv, JobCalls, daemonVars
<1>7. FaultInv'
  <2>1. \A k \in Calls : ~connected[Caller[k]] => ~connected'[Caller[k]]
    BY CallerAssumption
  <2>2. QED BY <2>1 DEF IndInv, FaultInv, daemonVars
<1>8. MainOrder(mainq') /\ BusOrder(bus'[c]) BY <1>2 DEF IndInv, OrderInv
<1>9. QED BY <1>2, <1>3, <1>4, <1>5, <1>6, <1>7, <1>8, ClientStep

\* A client leaves the bus.
LEMMA DisconnectKeepsIndInv ==
  ASSUME IndInv, NEW c \in Clients, ClientDisconnects(c)
  PROVE  IndInv'
<1>1. /\ connected[c] /\ connected' = [connected EXCEPT ![c] = FALSE]
      /\ UNCHANGED <<daemonVars, asked, in_table, uid_state, call, mainq, fault>>
  BY DEF ClientDisconnects
<1>2. /\ bus[c] \in Seq(Messages) /\ BusOrder(bus[c]) /\ ClientInv(c)
      /\ bus \in [Clients -> Seq(Messages)]
  BY DEF IndInv, Typed, OrderInv
<1>3. /\ connected' \in [Clients -> BOOLEAN] /\ asked' \in [Clients -> BOOLEAN]
      /\ uid_state' \in [Clients -> {"none", "LOADING", "VALID", "FAILED"}]
      /\ \A d \in Clients \ {c} : connected'[d] = connected[d]
      /\ ~connected'[c]
  BY <1>1 DEF IndInv, Typed
<1>4. (Appearing(c)' <=> Appearing(c)) /\ (Disappearing(c)' <=> Disappearing(c))
  BY <1>1 DEF Appearing, Disappearing
<1>5. CASE uid_state[c] = "none"
  <2>1. PICK q \in Seq(Messages) : q = bus[c] BY <1>2
  <2>2. BusOrder(q) /\ bus' = [bus EXCEPT ![c] = q] /\ bus'[c] = q
    BY <1>2, <1>5, <2>1 DEF ClientDisconnects
  <2>3. Elems(q) \subseteq Calls BY <1>2, <1>5, <2>1 DEF ClientInv
  <2>4. "vanished" \notin Elems(q) BY <2>3, MessagesAssumption
  <2>5. ClientInv(c)'
    BY <1>1, <1>2, <1>3, <1>4, <1>5, <2>1, <2>2, <2>4 DEF ClientInv
  <2>6. QED BY <1>1, <1>3, <2>1, <2>2, <2>5, BusStep
<1>6. CASE uid_state[c] # "none"
  <2>1. in_table[c] /\ "vanished" \notin Elems(bus[c]) BY <1>1, <1>2, <1>6 DEF ClientInv
  <2>2. PICK m \in Messages : m = "vanished" BY DEF Messages
  <2>3. m \notin Calls \cup {"uid_ok"} BY <2>2, MessagesAssumption
  <2>4. PICK q : q = Append(bus[c], m) OBVIOUS
  <2>5. q \in Seq(Messages) /\ Elems(q) = Elems(bus[c]) \cup {m} /\ BusOrder(q)
    BY <1>2, <2>1, <2>2, <2>3, <2>4, BusAppend
  <2>6. bus' = [bus EXCEPT ![c] = q] /\ bus'[c] = q
    BY <1>2, <1>6, <2>2, <2>4 DEF ClientDisconnects
  <2>7. ClientInv(c)'
    BY <1>1, <1>2, <1>3, <1>4, <1>6, <2>1, <2>2, <2>5, <2>6 DEF ClientInv
  <2>8. Elems(q) \cap Calls \subseteq Elems(bus[c]) BY <2>3, <2>5
  <2>9. QED BY <1>1, <1>3, <2>5, <2>6, <2>7, <2>8, BusStep
<1>7. QED BY <1>5, <1>6

\* The bus answers the question for the user of a client.
LEMMA UidKeepsIndInv ==
  ASSUME IndInv, NEW c \in Clients, BusAnswersUid(c)
  PROVE  IndInv'
<1>1. /\ asked[c] /\ asked' = [asked EXCEPT ![c] = FALSE]
      /\ UNCHANGED <<daemonVars, connected, in_table, uid_state, call, mainq, fault>>
  BY DEF BusAnswersUid
<1>2. PICK answer \in {"uid_ok", "uid_err"} :
        /\ answer = "uid_ok" => connected[c]
        /\ bus' = [bus EXCEPT ![c] = Append(@, answer)]
  BY DEF BusAnswersUid
<1>3. /\ bus[c] \in Seq(Messages) /\ BusOrder(bus[c]) /\ ClientInv(c)
      /\ bus \in [Clients -> Seq(Messages)]
  BY DEF IndInv, Typed, OrderInv
<1>4. uid_state[c] # "none" /\ answer \notin Elems(bus[c])
  BY <1>1, <1>2, <1>3 DEF ClientInv
<1>5. answer \in Messages /\ answer \notin Calls
  BY <1>2, MessagesAssumption DEF Messages
<1>6. answer \in Calls \cup {"uid_ok"} => "vanished" \notin Elems(bus[c])
  BY <1>2, <1>3, <1>5 DEF ClientInv
<1>7. PICK q : q = Append(bus[c], answer) OBVIOUS
<1>8. q \in Seq(Messages) /\ Elems(q) = Elems(bus[c]) \cup {answer} /\ BusOrder(q)
  BY <1>3, <1>4, <1>5, <1>6, <1>7, BusAppend
<1>9. bus' = [bus EXCEPT ![c] = q] /\ bus'[c] = q BY <1>2, <1>3, <1>7
<1>10. /\ connected' \in [Clients -> BOOLEAN] /\ asked' \in [Clients -> BOOLEAN]
       /\ uid_state' \in [Clients -> {"none", "LOADING", "VALID", "FAILED"}]
       /\ \A d \in Clients \ {c} : asked'[d] = asked[d]
       /\ ~asked'[c]
  BY <1>1 DEF IndInv, Typed
<1>11. (Appearing(c)' <=> Appearing(c)) /\ (Disappearing(c)' <=> Disappearing(c))
  BY <1>1 DEF Appearing, Disappearing
<1>12. answer = "uid_ok" => in_table[c] BY <1>2, <1>3, <1>4 DEF ClientInv
<1>13. ClientInv(c)'
  <2>1. ~in_table[c] => Elems(q) \subseteq {"uid_err"}
    BY <1>2, <1>3, <1>4, <1>8, <1>12 DEF ClientInv
  <2>2. "vanished" \in Elems(q) => "vanished" \in Elems(bus[c]) BY <1>2, <1>8
  <2>3. QED BY <1>1, <1>3, <1>4, <1>9, <1>10, <1>11, <2>1, <2>2 DEF ClientInv
<1>14. Elems(q) \cap Calls \subseteq Elems(bus[c]) BY <1>5, <1>8
<1>15. QED BY <1>1, <1>8, <1>9, <1>10, <1>13, <1>14, BusStep

\* The worker thread reads the answer.
LEMMA UserKeepsIndInv ==
  ASSUME IndInv, NEW c \in Clients, NEW answer \in {"uid_ok", "uid_err"},
         on_get_connection_unix_user(c, answer)
  PROVE  IndInv'
<1>1. /\ MainLoopRuns /\ bus[c] # <<>> /\ Head(bus[c]) = answer
      /\ bus' = [bus EXCEPT ![c] = Tail(@)]
      /\ UNCHANGED <<connected, asked, in_table, call, mainq>>
  BY DEF on_get_connection_unix_user, Reads
<1>2. /\ bus[c] \in Seq(Messages) /\ BusOrder(bus[c]) /\ ClientInv(c)
      /\ bus \in [Clients -> Seq(Messages)]
  BY DEF IndInv, Typed, OrderInv
<1>3. PICK q : q = Tail(bus[c]) OBVIOUS
<1>4. /\ q \in Seq(Messages) /\ BusOrder(q) /\ answer \in Elems(bus[c])
      /\ Elems(q) = Elems(bus[c]) \ {answer}
  BY <1>1, <1>2, <1>3, BusTail
<1>5. bus' = [bus EXCEPT ![c] = q] /\ bus'[c] = q BY <1>1, <1>2, <1>3
<1>6. uid_state[c] # "none" BY <1>2, <1>4, MessagesAssumption DEF ClientInv
<1>7. answer = "uid_ok" => in_table[c] BY <1>2, <1>4, <1>6 DEF ClientInv
<1>8. UNCHANGED <<daemonVars, fault>> BY <1>7 DEF on_get_connection_unix_user
<1>9. /\ connected' \in [Clients -> BOOLEAN] /\ asked' \in [Clients -> BOOLEAN]
      /\ uid_state' \in [Clients -> {"none", "LOADING", "VALID", "FAILED"}]
      /\ \A d \in Clients \ {c} : uid_state'[d] = uid_state[d]
      /\ uid_state'[c] # "none"
  BY <1>1, <1>6 DEF on_get_connection_unix_user, IndInv, Typed
<1>10. (Appearing(c)' <=> Appearing(c)) /\ (Disappearing(c)' <=> Disappearing(c))
  BY <1>1 DEF Appearing, Disappearing
<1>11. ClientInv(c)'
  BY <1>1, <1>2, <1>4, <1>5, <1>6, <1>9, <1>10 DEF ClientInv
<1>12. Elems(q) \cap Calls \subseteq Elems(bus[c]) BY <1>4
<1>13. QED BY <1>1, <1>4, <1>5, <1>8, <1>9, <1>11, <1>12, BusStep

\* A client makes a call.
LEMMA CallKeepsIndInv ==
  ASSUME IndInv, NEW k \in Calls, ClientCalls(k)
  PROVE  IndInv'
<1>1. PICK c \in Clients : c = Caller[k] BY CallerAssumption
<1>2. /\ MainLoopRuns /\ connected[c] /\ call[k].at = "none"
      /\ call' = [call EXCEPT ![k].at = "bus"]
      /\ bus' = [bus EXCEPT ![c] = Append(@, k)]
      /\ UNCHANGED <<daemonVars, connected, asked, in_table, uid_state, mainq, fault>>
  BY <1>1 DEF ClientCalls
<1>3. /\ bus[c] \in Seq(Messages) /\ BusOrder(bus[c]) /\ ClientInv(c)
      /\ bus \in [Clients -> Seq(Messages)]
      /\ call = [j \in Calls |-> call[j]] /\ \A j \in Calls : GoodCall(call[j])
  BY DEF IndInv, Typed, OrderInv
<1>4. PICK place \in {"bus", "dispatch", "auth", "waiting", "polkit"} : place = "bus"
  OBVIOUS
<1>5. PICK r : r = Goes(call[k], place) OBVIOUS
<1>6. GoodCall(r) /\ r.at = "bus" BY <1>2, <1>3, <1>4, <1>5, GoesIsGood
<1>7. call' = [call EXCEPT ![k] = r] BY <1>2, <1>3, <1>4, <1>5 DEF Goes
<1>8. /\ call'[k] = r /\ call' = [j \in Calls |-> call'[j]]
      /\ \A j \in Calls \ {k} : call'[j] = call[j]
  BY <1>3, <1>7
<1>9. k \in Messages /\ k \notin Elems(bus[c]) /\ "vanished" \notin Elems(bus[c])
  BY <1>2, <1>3 DEF Messages, IndInv, LinkInv, ClientInv
<1>10. PICK q : q = Append(bus[c], k) OBVIOUS
<1>11. q \in Seq(Messages) /\ Elems(q) = Elems(bus[c]) \cup {k} /\ BusOrder(q)
  BY <1>3, <1>9, <1>10, BusAppend
<1>12. bus'[c] = q /\ \A d \in Clients \ {c} : bus'[d] = bus[d] BY <1>2, <1>3, <1>10
<1>13. DaemonTypeOK' /\ num_clients' = num_clients /\ JobsInv' /\ FaultInv'
  BY <1>2, <1>6, <1>7, SameJobs
<1>14. Typed'
  <2>1. bus' \in [Clients -> Seq(Messages)] BY <1>2, <1>3, <1>10, <1>11
  <2>2. \A j \in Calls : GoodCall(call'[j]) BY <1>3, <1>6, <1>8
  <2>3. QED BY <1>2, <1>8, <1>13, <2>1, <2>2 DEF IndInv, Typed
<1>15. ClientInv(c)'
  <2>1. (Appearing(c)' <=> Appearing(c)) /\ (Disappearing(c)' <=> Disappearing(c))
    BY <1>2 DEF Appearing, Disappearing
  <2>2. k \notin {"uid_ok", "uid_err", "vanished"} BY MessagesAssumption
  <2>3. uid_state[c] = "none" => Elems(q) \subseteq Calls
    BY <1>3, <1>11 DEF ClientInv
  <2>4. \A m \in {"uid_ok", "uid_err", "vanished"} :
          m \in Elems(q) => m \in Elems(bus[c])
    BY <1>11, <2>2
  <2>5. QED BY <1>2, <1>3, <1>12, <2>1, <2>3, <2>4 DEF ClientInv
<1>16. ASSUME NEW j \in Calls PROVE LinkInv(j)'
  <2>1. LinkInv(j) BY DEF IndInv
  <2>2. CASE j = k
    <3>1. \A d \in Clients : k \in Elems(bus'[d]) => d = c
      BY <1>2, <1>12, <2>1, <2>2 DEF LinkInv
    <3>2. <<"dispatch", k>> \notin Elems(mainq') /\ <<"handler", k>> \notin Elems(mainq')
      BY <1>2, <2>1, <2>2 DEF LinkInv
    <3>3. QED BY <1>1, <1>6, <1>8, <2>2, <3>1, <3>2 DEF LinkInv
  <2>3. CASE j # k
    <3>1. \A d \in Clients : j \in Elems(bus'[d]) => j \in Elems(bus[d])
      BY <1>11, <1>12, <2>3
    <3>2. call'[j] = call[j] BY <1>8, <2>3
    <3>3. QED BY <1>2, <2>1, <3>1, <3>2, LinkFrame
  <2>4. QED BY <2>2, <2>3
<1>17. CountInv' BY <1>2, CountFrame DEF IndInv, daemonVars, Appearing, Disappearing
<1>18. MainOrder(mainq') /\ BusOrder(bus'[c])
  BY <1>2, <1>11, <1>12 DEF IndInv, OrderInv
<1>19. QED BY <1>2, <1>12, <1>13, <1>14, <1>15, <1>16, <1>17, <1>18, ClientStep

\* The worker thread reads that a client has left.
LEMMA VanishedKeepsIndInv ==
  ASSUME IndInv, NEW c \in Clients, on_client_vanished(c)
  PROVE  IndInv'
<1>1. /\ MainLoopRuns /\ bus[c] # <<>> /\ Head(bus[c]) = "vanished"
      /\ bus' = [bus EXCEPT ![c] = Tail(@)]
      /\ in_table' = [in_table EXCEPT ![c] = FALSE]
      /\ UNCHANGED <<daemonVars, connected, asked, uid_state, call, fault>>
  BY DEF on_client_vanished, Reads
<1>2. /\ bus[c] \in Seq(Messages) /\ BusOrder(bus[c]) /\ ClientInv(c)
      /\ bus \in [Clients -> Seq(Messages)] /\ in_table \in [Clients -> BOOLEAN]
      /\ mainq \in Seq(Tasks) /\ MainOrder(mainq)
  BY DEF IndInv, Typed, OrderInv
<1>3. PICK q : q = Tail(bus[c]) OBVIOUS
<1>4. /\ q \in Seq(Messages) /\ BusOrder(q) /\ "vanished" \in Elems(bus[c])
      /\ Elems(q) = Elems(bus[c]) \ {"vanished"}
      /\ Elems(bus[c]) \subseteq {"vanished", "uid_err"}
  BY <1>1, <1>2, <1>3, BusTail
<1>5. bus'[c] = q /\ \A d \in Clients \ {c} : bus'[d] = bus[d] BY <1>1, <1>2, <1>3
<1>6. ~in_table'[c] /\ \A d \in Clients \ {c} : in_table'[d] = in_table[d]
  BY <1>1, <1>2
<1>7. ~connected[c] /\ in_table[c] /\ ~Disappearing(c) /\ uid_state[c] # "none"
  BY <1>2, <1>4 DEF ClientInv
<1>8. PICK e \in Tasks : e = <<"disappeared", c>> BY DEF Tasks
<1>9. mainq' = Append(mainq, e) BY <1>7, <1>8 DEF on_client_vanished
<1>10. e \notin Elems(mainq) BY <1>7, <1>8 DEF Disappearing
<1>11. \A d \in Clients : e # <<"appeared", d>> BY <1>8
<1>12. mainq' \in Seq(Tasks) /\ MainOrder(mainq') /\ Elems(mainq') = Elems(mainq) \cup {e}
  BY <1>2, <1>9, <1>10, <1>11, MainAppend
<1>13. ASSUME NEW d \in Clients
       PROVE  /\ <<"appeared", d>> \in Elems(mainq') <=> <<"appeared", d>> \in Elems(mainq)
              /\ <<"disappeared", d>> \in Elems(mainq')
                   <=> <<"disappeared", d>> \in Elems(mainq) \/ d = c
  BY <1>8, <1>12
<1>14. Typed'
  <2>1. bus' \in [Clients -> Seq(Messages)] BY <1>1, <1>2, <1>3, <1>4
  <2>2. in_table' \in [Clients -> BOOLEAN] BY <1>1, <1>2
  <2>3. QED BY <1>1, <1>12, <2>1, <2>2 DEF IndInv, Typed, DaemonTypeOK, daemonVars
<1>15. ClientInv(c)'
  <2>1. (Appearing(c)' <=> Appearing(c)) /\ Disappearing(c)'
    BY <1>13 DEF Appearing, Disappearing
  <2>2. uid_state'[c] # "none" /\ ~connected'[c] /\ asked'[c] = asked[c]
    BY <1>1, <1>7
  <2>3. Elems(bus'[c]) \subseteq {"uid_err"} BY <1>4, <1>5
  <2>4. asked[c] => "uid_err" \notin Elems(bus'[c]) BY <1>2, <1>4, <1>5 DEF ClientInv
  <2>5. "uid_ok" \notin Elems(bus'[c]) /\ "vanished" \notin Elems(bus'[c]) BY <2>3
  <2>6. QED BY <1>6, <2>1, <2>2, <2>3, <2>4, <2>5 DEF ClientInv
<1>16. ASSUME NEW k \in Calls PROVE LinkInv(k)'
  <2>1. \A d \in Clients : k \in Elems(bus'[d]) => k \in Elems(bus[d]) BY <1>4, <1>5
  <2>2. /\ <<"dispatch", k>> \in Elems(mainq') => <<"dispatch", k>> \in Elems(mainq)
        /\ <<"handler", k>> \in Elems(mainq') => <<"handler", k>> \in Elems(mainq)
    BY <1>8, <1>12
  <2>3. LinkInv(k) BY DEF IndInv
  <2>4. QED BY <1>1, <2>1, <2>2, <2>3, LinkFrame
<1>17. CountInv'
  <2>1. ASSUME NEW d \in Clients
        PROVE  /\ in_table'[d] \/ Disappearing(d)' <=> in_table[d] \/ Disappearing(d)
               /\ Appearing(d)' <=> Appearing(d)
    BY <1>6, <1>7, <1>13 DEF Appearing, Disappearing
  <2>2. num_clients' = num_clients BY <1>1 DEF daemonVars
  <2>3. QED BY <2>1, <2>2, CountFrame DEF IndInv
<1>18. JobsInv' BY <1>1 DEF IndInv, JobsInv, JobCalls, daemonVars
<1>19. FaultInv' BY <1>1, NoFaultYet DEF FaultInv
<1>20. BusOrder(bus'[c]) BY <1>4, <1>5
<1>21. QED BY <1>1, <1>5, <1>6, <1>12, <1>13, <1>14, <1>15, <1>16, <1>17, <1>18, <1>19,
              <1>20, ClientStep

\* The main loop counts a client in...
LEMMA AppearedKeepsIndInv ==
  ASSUME IndInv, NEW c \in Clients, on_invoke_client_appeared(c)
  PROVE  IndInv'
<1>1. /\ Dispatches(<<"appeared", c>>) /\ on_client_appeared
      /\ UNCHANGED <<clientVars, call, fault>>
  BY DEF on_invoke_client_appeared
<1>2. PICK task : task = <<"appeared", c>> OBVIOUS
<1>3. /\ MainLoopRuns /\ mainq' \in Seq(Tasks) /\ task \in Elems(mainq)
      /\ Elems(mainq') = Elems(mainq) \ {task} /\ MainOrder(mainq')
  BY <1>1, <1>2, MainTakes
<1>4. ASSUME NEW d \in Clients
      PROVE  /\ <<"appeared", d>> \in Elems(mainq')
                  <=> <<"appeared", d>> \in Elems(mainq) /\ d # c
             /\ <<"disappeared", d>> \in Elems(mainq')
                  <=> <<"disappeared", d>> \in Elems(mainq)
  BY <1>2, <1>3
<1>5. DaemonTypeOK' BY <1>1 DEF on_client_appeared, IndInv, Typed, DaemonTypeOK
<1>6. Typed' BY <1>1, <1>3, <1>5 DEF IndInv, Typed, clientVars
<1>7. ClientInv(c) /\ Appearing(c) BY <1>2, <1>3 DEF IndInv, Appearing
<1>8. ~Appearing(c)' /\ (Disappearing(c)' <=> Disappearing(c))
  BY <1>4 DEF Appearing, Disappearing
<1>9. ClientInv(c)' BY <1>1, <1>7, <1>8 DEF ClientInv, clientVars
<1>10. ASSUME NEW k \in Calls PROVE LinkInv(k)'
  <2>1. LinkInv(k) BY DEF IndInv
  <2>2. QED BY <1>1, <1>3, <2>1, LinkFrame DEF clientVars
<1>11. CountInv'
  <2>1. \A d \in Clients \ {c} : /\ Appearing(d)' <=> Appearing(d)
                                 /\ Disappearing(d)' <=> Disappearing(d)
    BY <1>4 DEF Appearing, Disappearing
  <2>2. c \notin Counted /\ (in_table[c] \/ Disappearing(c))
    BY <1>7 DEF Counted, ClientInv
  <2>3. Counted' = Counted \cup {c}
    BY <1>1, <1>8, <2>1, <2>2 DEF Counted, clientVars
  <2>4. IsFiniteSet(Counted) BY ClientsFinite, FS_Subset DEF Counted
  <2>5. Cardinality(Counted \cup {c}) = Cardinality(Counted) + 1
    BY <2>2, <2>4, FS_AddElement
  <2>6. QED BY <1>1, <2>3, <2>5 DEF IndInv, CountInv, on_client_appeared
<1>12. JobsInv' BY <1>1 DEF IndInv, JobsInv, JobCalls, on_client_appeared
<1>13. FaultInv' BY <1>1, <1>3, NoFaultYet DEF FaultInv
<1>14. BusOrder(bus'[c]) BY <1>1 DEF IndInv, OrderInv, clientVars
<1>15. QED BY <1>1, <1>3, <1>4, <1>6, <1>9, <1>10, <1>11, <1>12, <1>13, <1>14,
              ClientStep DEF clientVars

\* ... and out, which finds it counted.
LEMMA DisappearedKeepsIndInv ==
  ASSUME IndInv, NEW c \in Clients, on_invoke_client_disappeared(c)
  PROVE  IndInv' /\ on_client_disappeared
<1>1. /\ Dispatches(<<"disappeared", c>>) /\ UNCHANGED <<clientVars, call>>
  BY DEF on_invoke_client_disappeared
<1>2. PICK task : task = <<"disappeared", c>> OBVIOUS
<1>3. /\ MainLoopRuns /\ mainq' \in Seq(Tasks) /\ task \in Elems(mainq)
      /\ Elems(mainq') = Elems(mainq) \ {task} /\ MainOrder(mainq')
      /\ ~Appearing(c)
  BY <1>1, <1>2, MainTakes
<1>4. ASSUME NEW d \in Clients
      PROVE  /\ <<"appeared", d>> \in Elems(mainq')
                  <=> <<"appeared", d>> \in Elems(mainq)
             /\ <<"disappeared", d>> \in Elems(mainq')
                  <=> <<"disappeared", d>> \in Elems(mainq) /\ d # c
  BY <1>2, <1>3
<1>5. ClientInv(c) /\ Disappearing(c) BY <1>2, <1>3 DEF IndInv, Disappearing
<1>6. ~Disappearing(c)' /\ (Appearing(c)' <=> Appearing(c))
  BY <1>4 DEF Appearing, Disappearing
<1>7. c \in Counted BY <1>3, <1>5 DEF Counted
<1>8. /\ IsFiniteSet(Counted) /\ IsFiniteSet(Counted \ {c})
      /\ Cardinality(Counted \ {c}) = Cardinality(Counted) - 1
  BY <1>7, ClientsFinite, FS_Subset, FS_RemoveElement DEF Counted
<1>9. Cardinality(Counted) \in Nat /\ Cardinality(Counted \ {c}) \in Nat
  BY <1>8, FS_CardinalityType
<1>10. num_clients > 0 BY <1>8, <1>9 DEF IndInv, CountInv
<1>11. on_client_disappeared /\ UNCHANGED fault
  BY <1>10 DEF on_invoke_client_disappeared
<1>12. DaemonTypeOK'
  <2>1. num_clients \in Nat /\ num_clients' = num_clients - 1
    BY <1>11 DEF on_client_disappeared, IndInv, Typed, DaemonTypeOK
  <2>2. num_clients' \in Nat BY <1>10, <2>1
  <2>3. loop' \in {"running", "quitting", "exited", "aborted"}
    BY <1>11 DEF on_client_disappeared, maybe_finished, IndInv, Typed, DaemonTypeOK
  <2>4. name_owner_id' \in BOOLEAN /\ name_owned' \in BOOLEAN
    BY <1>11 DEF on_client_disappeared
  <2>5. QED
    BY <1>11, <2>2, <2>3, <2>4 DEF on_client_disappeared, IndInv, Typed, DaemonTypeOK
<1>13. Typed' BY <1>1, <1>3, <1>12 DEF IndInv, Typed, clientVars
<1>14. ClientInv(c)' BY <1>1, <1>3, <1>5, <1>6 DEF ClientInv, clientVars
<1>15. ASSUME NEW k \in Calls PROVE LinkInv(k)'
  <2>1. LinkInv(k) BY DEF IndInv
  <2>2. QED BY <1>1, <1>3, <2>1, LinkFrame DEF clientVars
<1>16. CountInv'
  <2>1. \A d \in Clients \ {c} : /\ Appearing(d)' <=> Appearing(d)
                                 /\ Disappearing(d)' <=> Disappearing(d)
    BY <1>4 DEF Appearing, Disappearing
  <2>2. Counted' = Counted \ {c}
    BY <1>1, <1>5, <1>6, <2>1 DEF Counted, ClientInv, clientVars
  <2>3. QED BY <1>8, <1>11, <2>2 DEF IndInv, CountInv, on_client_disappeared
<1>17. JobsInv' BY <1>1, <1>11 DEF IndInv, JobsInv, JobCalls, on_client_disappeared
<1>18. FaultInv' BY <1>3, <1>11, NoFaultYet DEF FaultInv
<1>19. BusOrder(bus'[c]) BY <1>1 DEF IndInv, OrderInv, clientVars
<1>20. QED BY <1>1, <1>3, <1>4, <1>11, <1>13, <1>14, <1>15, <1>16, <1>17, <1>18, <1>19,
              ClientStep DEF clientVars

\* One source is attached, or two.
LEMMA Attached ==
  ASSUME NEW q \in Seq(Tasks), NEW a \in Tasks, NEW b \in Tasks
  PROVE  /\ q \o <<>> \o <<b>> = Append(q, b)
         /\ q \o <<a>> \o <<b>> = Append(Append(q, a), b)
<1>1. q \o <<>> = q BY ConcatEmptySeq
<1>2. q \o <<a>> = Append(q, a) /\ Append(q, a) \in Seq(Tasks)
  BY AppendIsConcat, AppendProperties
<1>3. q \o <<b>> = Append(q, b) BY AppendIsConcat
<1>4. PICK p \in Seq(Tasks) : p = Append(q, a) BY <1>2
<1>5. p \o <<b>> = Append(p, b) BY AppendIsConcat
<1>6. QED BY <1>1, <1>2, <1>3, <1>4, <1>5

\* What the main loop gets from the filter: the call, after its caller if that
\* is a new client.
LEMMA FilterAttaches ==
  ASSUME IndInv, NEW k \in Calls, NEW c \in Clients, call[k].at = "bus",
         ~in_table[c] => ~Appearing(c) /\ ~Disappearing(c),
         mainq' = mainq \o (IF ~in_table[c] THEN << <<"appeared", c>> >> ELSE <<>>)
                        \o << <<"dispatch", k>> >>
  PROVE  /\ mainq' \in Seq(Tasks)
         /\ MainOrder(mainq')
         /\ Elems(mainq') = Elems(mainq) \cup {<<"dispatch", k>>}
                              \cup (IF in_table[c] THEN {} ELSE {<<"appeared", c>>})
<1>1. mainq \in Seq(Tasks) /\ MainOrder(mainq) /\ LinkInv(k)
  BY DEF IndInv, Typed, OrderInv
<1>2. PICK a \in Tasks : a = <<"appeared", c>> BY DEF Tasks
<1>3. PICK b \in Tasks : b = <<"dispatch", k>> BY DEF Tasks
<1>4. b \notin Elems(mainq) BY <1>1, <1>3 DEF LinkInv
<1>5. a # b /\ \A d \in Clients : b # <<"appeared", d>> BY <1>2, <1>3
<1>6. CASE in_table[c]
  <2>1. mainq' = mainq \o <<>> \o <<b>> BY <1>3, <1>6
  <2>2. mainq' = Append(mainq, b) BY <1>1, <2>1, Attached
  <2>3. /\ mainq' \in Seq(Tasks) /\ MainOrder(mainq')
        /\ Elems(mainq') = Elems(mainq) \cup {b}
    BY <1>1, <1>4, <1>5, <2>2, MainAppend
  <2>4. QED BY <1>3, <1>6, <2>3
<1>7. CASE ~in_table[c]
  <2>1. mainq' = mainq \o <<a>> \o <<b>> BY <1>2, <1>3, <1>7
  <2>2. mainq' = Append(Append(mainq, a), b) BY <1>1, <2>1, Attached
  <2>3. a \notin Elems(mainq) BY <1>2, <1>7 DEF Appearing
  <2>4. \A d \in Clients : a = <<"appeared", d>> => <<"disappeared", d>> \notin Elems(mainq)
    BY <1>2, <1>7 DEF Disappearing
  <2>5. PICK p \in Seq(Tasks) :
          p = Append(mainq, a) /\ MainOrder(p) /\ Elems(p) = Elems(mainq) \cup {a}
    BY <1>1, <2>3, <2>4, MainAppend
  <2>6. b \in Tasks \ Elems(p) BY <1>4, <1>5, <2>5
  <2>7. \A d \in Clients : b = <<"appeared", d>> => <<"disappeared", d>> \notin Elems(p)
    BY <1>5
  <2>8. /\ Append(p, b) \in Seq(Tasks) /\ MainOrder(Append(p, b))
        /\ Elems(Append(p, b)) = Elems(p) \cup {b}
    BY <2>5, <2>6, <2>7, MainAppend
  <2>9. /\ mainq' \in Seq(Tasks) /\ MainOrder(mainq')
        /\ Elems(mainq') = Elems(p) \cup {b}
    BY <2>2, <2>5, <2>8
  <2>10. Elems(mainq') = Elems(mainq) \cup {b} \cup {a} BY <2>5, <2>9
  <2>11. QED BY <1>2, <1>3, <1>7, <2>9, <2>10
<1>8. QED BY <1>6, <1>7

\* The worker thread reads a call.
LEMMA FilterKeepsIndInv ==
  ASSUME IndInv, NEW k \in Calls, on_connection_filter(k)
  PROVE  IndInv'
<1>1. PICK c \in Clients : c = Caller[k] BY CallerAssumption
<1>2. /\ MainLoopRuns /\ bus[c] # <<>> /\ Head(bus[c]) = k
      /\ in_table' = [in_table EXCEPT ![c] = TRUE]
      /\ uid_state' = IF ~in_table[c] THEN [uid_state EXCEPT ![c] = "LOADING"]
                                      ELSE uid_state
      /\ asked' = [asked EXCEPT ![c] = @ \/ ~in_table[c]]
      /\ bus' = [bus EXCEPT ![c] = IF ~in_table[c] /\ ~connected[c]
                                   THEN Append(Tail(@), "vanished")
                                   ELSE Tail(@)]
      /\ mainq' = mainq \o (IF ~in_table[c] THEN << <<"appeared", c>> >> ELSE <<>>)
                        \o << <<"dispatch", k>> >>
      /\ call' = [call EXCEPT ![k].at = "dispatch"]
      /\ UNCHANGED <<daemonVars, connected, fault>>
  BY <1>1 DEF on_connection_filter, Reads
<1>3. /\ bus[c] \in Seq(Messages) /\ BusOrder(bus[c]) /\ ClientInv(c)
      /\ bus \in [Clients -> Seq(Messages)]
      /\ in_table \in [Clients -> BOOLEAN]
      /\ asked \in [Clients -> BOOLEAN]
      /\ uid_state \in [Clients -> {"none", "LOADING", "VALID", "FAILED"}]
      /\ call = [j \in Calls |-> call[j]] /\ \A j \in Calls : GoodCall(call[j])
  BY DEF IndInv, Typed, OrderInv
<1>4. k \notin {"uid_ok", "uid_err", "vanished"} BY MessagesAssumption
<1>5. PICK t : t = Tail(bus[c]) OBVIOUS
<1>6. /\ t \in Seq(Messages) /\ BusOrder(t) /\ k \in Elems(bus[c])
      /\ Elems(t) = Elems(bus[c]) \ {k}
  BY <1>2, <1>3, <1>5, BusTail
<1>7. call[k].at = "bus" BY <1>6 DEF IndInv, LinkInv
<1>8. ~in_table[c] => /\ uid_state[c] = "none" /\ Elems(bus[c]) \subseteq Calls
                      /\ ~asked[c] /\ ~Appearing(c) /\ ~Disappearing(c)
  <2>1. ~in_table[c] => uid_state[c] = "none" BY <1>3, <1>4, <1>6 DEF ClientInv
  <2>2. QED BY <1>3, <2>1 DEF ClientInv
<1>9. PICK q : q = bus'[c] OBVIOUS
<1>10. /\ bus' = [bus EXCEPT ![c] = q] /\ q \in Seq(Messages) /\ BusOrder(q)
       /\ Elems(q) = Elems(t) \cup (IF ~in_table[c] /\ ~connected[c]
                                    THEN {"vanished"} ELSE {})
  <2>1. CASE ~in_table[c] /\ ~connected[c]
    <3>1. PICK m \in Messages : m = "vanished" BY DEF Messages
    <3>2. q = Append(t, m) BY <1>2, <1>3, <1>5, <1>9, <2>1, <3>1
    <3>3. m \notin Calls \cup {"uid_ok"} BY <3>1, MessagesAssumption
    <3>4. m \notin Elems(t) BY <1>6, <1>8, <2>1, <3>3
    <3>5. q \in Seq(Messages) /\ BusOrder(q) /\ Elems(q) = Elems(t) \cup {m}
      BY <1>6, <3>2, <3>3, <3>4, BusAppend
    <3>6. QED BY <1>2, <1>3, <1>5, <2>1, <3>1, <3>2, <3>5
  <2>2. CASE ~(~in_table[c] /\ ~connected[c])
    <3>1. q = t BY <1>2, <1>3, <1>5, <1>9, <2>2
    <3>2. bus' = [bus EXCEPT ![c] = q] BY <1>2, <1>3, <1>5, <2>2, <3>1
    <3>3. QED BY <1>6, <2>2, <3>1, <3>2
  <2>3. QED BY <2>1, <2>2
<1>11. bus'[c] = q /\ \A d \in Clients \ {c} : bus'[d] = bus[d] BY <1>3, <1>9, <1>10
<1>12. /\ mainq' \in Seq(Tasks) /\ MainOrder(mainq')
       /\ Elems(mainq') = Elems(mainq) \cup {<<"dispatch", k>>}
                            \cup (IF in_table[c] THEN {} ELSE {<<"appeared", c>>})
  BY <1>2, <1>7, <1>8, FilterAttaches
<1>13. ASSUME NEW d \in Clients
       PROVE  /\ <<"appeared", d>> \in Elems(mainq') <=>
                   <<"appeared", d>> \in Elems(mainq) \/ (d = c /\ ~in_table[c])
              /\ <<"disappeared", d>> \in Elems(mainq')
                   <=> <<"disappeared", d>> \in Elems(mainq)
  BY <1>12
<1>14. PICK place \in {"bus", "dispatch", "auth", "waiting", "polkit"} : place = "dispatch"
  OBVIOUS
<1>15. PICK r : r = Goes(call[k], place) OBVIOUS
<1>16. GoodCall(r) /\ r.at = "dispatch" BY <1>3, <1>7, <1>14, <1>15, GoesIsGood
<1>17. call' = [call EXCEPT ![k] = r] BY <1>2, <1>3, <1>14, <1>15 DEF Goes
<1>18. /\ call'[k] = r /\ call' = [j \in Calls |-> call'[j]]
       /\ \A j \in Calls \ {k} : call'[j] = call[j]
  BY <1>3, <1>17
<1>19. DaemonTypeOK' /\ num_clients' = num_clients /\ JobsInv' /\ FaultInv'
  BY <1>2, <1>7, <1>16, <1>17, SameJobs
<1>20. /\ in_table' \in [Clients -> BOOLEAN] /\ in_table'[c]
       /\ \A d \in Clients \ {c} : in_table'[d] = in_table[d]
  BY <1>2, <1>3
<1>21. /\ asked' \in [Clients -> BOOLEAN]
       /\ \A d \in Clients \ {c} : asked'[d] = asked[d]
       /\ asked'[c] <=> asked[c] \/ ~in_table[c]
  BY <1>2, <1>3
<1>22. /\ uid_state' \in [Clients -> {"none", "LOADING", "VALID", "FAILED"}]
       /\ \A d \in Clients \ {c} : uid_state'[d] = uid_state[d]
       /\ uid_state'[c] # "none"
  BY <1>2, <1>3 DEF ClientInv
<1>23. Typed'
  <2>1. bus' \in [Clients -> Seq(Messages)] BY <1>3, <1>10
  <2>2. \A j \in Calls : GoodCall(call'[j]) BY <1>3, <1>16, <1>18
  <2>3. QED BY <1>2, <1>12, <1>18, <1>19, <1>20, <1>21, <1>22, <2>1, <2>2
            DEF IndInv, Typed
<1>24. ClientInv(c)'
  <2>1. /\ Appearing(c)' <=> Appearing(c) \/ ~in_table[c]
        /\ Disappearing(c)' <=> Disappearing(c)
    BY <1>13 DEF Appearing, Disappearing
  <2>2. connected'[c] = connected[c] BY <1>2
  <2>3. "vanished" \in Elems(q) => ~connected[c]
    BY <1>3, <1>6, <1>10 DEF ClientInv
  <2>4. asked'[c] => "uid_ok" \notin Elems(q) /\ "uid_err" \notin Elems(q)
    <3>1. CASE in_table[c] BY <1>3, <1>6, <1>10, <1>21, <3>1 DEF ClientInv
    <3>2. CASE ~in_table[c] BY <1>6, <1>8, <1>10, <3>2, MessagesAssumption
    <3>3. QED BY <3>1, <3>2
  <2>5. ~Disappearing(c) BY <1>3, <1>8 DEF ClientInv
  <2>6. QED BY <1>11, <1>20, <1>22, <2>1, <2>2, <2>3, <2>4, <2>5 DEF ClientInv
<1>25. ASSUME NEW j \in Calls PROVE LinkInv(j)'
  <2>1. LinkInv(j) BY DEF IndInv
  <2>2. j # "vanished" BY MessagesAssumption
  <2>3. \A d \in Clients : j \in Elems(bus'[d]) => j \in Elems(bus[d])
    BY <1>6, <1>10, <1>11, <2>2
  <2>4. CASE j = k
    <3>1. \A d \in Clients : k \notin Elems(bus'[d])
      <4>1. k \notin Elems(bus'[c]) BY <1>4, <1>6, <1>10, <1>11
      <4>2. \A d \in Clients \ {c} : k \notin Elems(bus'[d])
        BY <1>1, <1>11, <2>1, <2>4 DEF LinkInv
      <4>3. QED BY <4>1, <4>2
    <3>2. <<"handler", k>> \notin Elems(mainq') BY <1>7, <1>12, <2>1, <2>4 DEF LinkInv
    <3>3. QED BY <1>1, <1>16, <1>18, <1>22, <2>4, <3>1, <3>2 DEF LinkInv
  <2>5. CASE j # k
    <3>1. /\ <<"dispatch", j>> \in Elems(mainq') => <<"dispatch", j>> \in Elems(mainq)
          /\ <<"handler", j>> \in Elems(mainq') => <<"handler", j>> \in Elems(mainq)
      BY <1>12, <2>5
    <3>2. call'[j] = call[j] BY <1>18, <2>5
    <3>3. uid_state[Caller[j]] # "none" => uid_state'[Caller[j]] # "none"
      BY <1>22, CallerAssumption
    <3>4. QED BY <2>1, <2>3, <3>1, <3>2, <3>3, LinkFrame
  <2>6. QED BY <2>4, <2>5
<1>26. CountInv'
  <2>1. ASSUME NEW d \in Clients \ {c}
        PROVE  (Appearing(d)' <=> Appearing(d)) /\ (Disappearing(d)' <=> Disappearing(d))
    BY <1>13 DEF Appearing, Disappearing
  <2>2. /\ Appearing(c)' <=> Appearing(c) \/ ~in_table[c]
        /\ Disappearing(c)' <=> Disappearing(c)
    BY <1>13 DEF Appearing, Disappearing
  <2>3. c \in Counted' <=> c \in Counted BY <1>8, <1>20, <2>2 DEF Counted
  <2>4. Counted' = Counted BY <1>20, <2>1, <2>3 DEF Counted
  <2>5. QED BY <1>19, <2>4 DEF IndInv, CountInv
<1>27. BusOrder(bus'[c]) BY <1>10, <1>11
<1>28. QED BY <1>2, <1>11, <1>12, <1>13, <1>19, <1>20, <1>21, <1>22, <1>23, <1>24, <1>25,
              <1>26, <1>27, ClientStep

-----------------------------------------------------------------------------
\* The invariant holds at the start...
LEMMA InitIndInv == Init => IndInv
<1> SUFFICES ASSUME Init PROVE IndInv OBVIOUS
<1> USE DEF Init
<1>1. \A q : q = <<>> => Elems(q) = {} /\ Once(q) /\ \A x, y : Before(q, x, y)
  BY DEF Elems, Once, Before
<1>2. Elems(mainq) = {} /\ MainOrder(mainq) BY <1>1 DEF MainOrder
<1>3. \A c \in Clients : Elems(bus[c]) = {} /\ BusOrder(bus[c]) BY <1>1 DEF BusOrder
<1>4. \A k \in Calls : GoodCall(call[k]) /\ call[k].at = "none"
  <2> SUFFICES ASSUME NEW k \in Calls PROVE GoodCall(call[k]) /\ call[k].at = "none"
    OBVIOUS
  <2> DEFINE r == call[k]
  <2>1. r = [at |-> "none", failed |-> FALSE, granted |-> FALSE, ran |-> FALSE,
             replies |-> 0]
    OBVIOUS
  <2> HIDE DEF r
  <2>2. /\ DOMAIN r = {"at", "failed", "granted", "ran", "replies"}
        /\ r = [f \in DOMAIN r |-> r[f]]
    BY <2>1
  <2>3. r.at = "none" /\ ~r.failed /\ ~r.granted /\ ~r.ran /\ r.replies = 0 BY <2>1
  <2>4. r.failed \in BOOLEAN /\ r.granted \in BOOLEAN /\ r.ran \in BOOLEAN BY <2>1
  <2>5. GoodCall(r) BY <2>2, <2>3, <2>4 DEF GoodCall, IsCall
  <2>6. QED BY <2>3, <2>5 DEF r
<1>5. Typed
  <2>1. bus \in [Clients -> Seq(Messages)] /\ mainq \in Seq(Tasks) OBVIOUS
  <2>2. call = [k \in Calls |-> call[k]] OBVIOUS
  <2>3. DaemonTypeOK BY DEF DaemonInit, DaemonTypeOK
  <2>4. QED BY <1>4, <2>1, <2>2, <2>3 DEF Typed
<1>6. OrderInv BY <1>2, <1>3 DEF OrderInv
<1>7. \A c \in Clients : ~Appearing(c) /\ ~Disappearing(c) /\ ~in_table[c]
  BY <1>2 DEF Appearing, Disappearing
<1>8. \A c \in Clients : ClientInv(c) BY <1>3, <1>7 DEF ClientInv
<1>9. \A k \in Calls : LinkInv(k) BY <1>2, <1>3, <1>4 DEF LinkInv
<1>10. CountInv
  <2>1. Counted = {} BY <1>7 DEF Counted
  <2>2. QED BY <2>1, FS_EmptySet DEF CountInv, DaemonInit
<1>11. JobsInv
  <2>1. JobCalls = {} BY <1>4 DEF JobCalls
  <2>2. QED BY <2>1, FS_EmptySet DEF JobsInv, DaemonInit
<1>12. FaultInv BY DEF FaultInv
<1>13. QED BY <1>5, <1>6, <1>8, <1>9, <1>10, <1>11, <1>12 DEF IndInv

\* ... and every step keeps it.
LEMMA NextIndInv == IndInv /\ [Next]_vars => IndInv'
<1> SUFFICES ASSUME IndInv, [Next]_vars PROVE IndInv' OBVIOUS
<1>1. CASE DaemonNext /\ UNCHANGED <<clientVars, call, mainq, fault>>
  BY <1>1, DaemonKeepsIndInv
<1>2. ASSUME NEW k \in Calls, ClientCalls(k) \/ AuthStep(k) \/ job_answers(k)
      PROVE  IndInv'
  BY <1>2, CallKeepsIndInv, AuthKeepsIndInv, AnswerKeepsIndInv
<1>3. ASSUME NEW c \in Clients, ClientDisconnects(c) \/ BusAnswersUid(c)
      PROVE  IndInv'
  BY <1>3, DisconnectKeepsIndInv, UidKeepsIndInv
<1>4. ASSUME NEW c \in Clients, WorkerStep(c) PROVE IndInv'
  <2>1. ASSUME NEW k \in Calls, on_connection_filter(k) PROVE IndInv'
    BY <2>1, FilterKeepsIndInv
  <2>2. ASSUME NEW answer \in {"uid_ok", "uid_err"},
               on_get_connection_unix_user(c, answer)
        PROVE  IndInv'
    BY <2>2, UserKeepsIndInv
  <2>3. CASE on_client_vanished(c) BY <2>3, VanishedKeepsIndInv
  <2>4. QED BY <1>4, <2>1, <2>2, <2>3 DEF WorkerStep
<1>5. ASSUME NEW c \in Clients,
             on_invoke_client_appeared(c) \/ on_invoke_client_disappeared(c)
      PROVE  IndInv'
  BY <1>5, AppearedKeepsIndInv, DisappearedKeepsIndInv
<1>6. ASSUME NEW k \in Calls, method_dispatched(k) \/ handle_method(k)
      PROVE  IndInv'
  BY <1>6, DispatchKeepsIndInv, HandleKeepsIndInv
<1>7. CASE UNCHANGED vars
  <2> USE <1>7 DEF vars, daemonVars, clientVars
  <2>1. Typed' BY DEF IndInv, Typed, DaemonTypeOK
  <2>2. OrderInv' BY DEF IndInv, OrderInv
  <2>3. \A c \in Clients : ClientInv(c)'
    BY DEF IndInv, ClientInv, Appearing, Disappearing
  <2>4. \A k \in Calls : LinkInv(k)' BY DEF IndInv, LinkInv
  <2>5. CountInv' BY DEF IndInv, CountInv, Counted, Appearing, Disappearing
  <2>6. JobsInv' BY DEF IndInv, JobsInv, JobCalls
  <2>7. FaultInv' BY DEF IndInv, FaultInv
  <2>8. QED BY <2>1, <2>2, <2>3, <2>4, <2>5, <2>6, <2>7 DEF IndInv
<1>8. QED BY <1>1, <1>2, <1>3, <1>4, <1>5, <1>6, <1>7 DEF Next, MainStep

\* The inductive invariant holds in every state.
THEOREM IndInvHolds == Spec => []IndInv
BY InitIndInv, NextIndInv, PTL DEF Spec

-----------------------------------------------------------------------------
\* Every variable keeps its type; no call is answered more than twice.
THEOREM TypeCorrect == Spec => []TypeOK
<1>1. IndInv => TypeOK
  <2> SUFFICES ASSUME IndInv PROVE TypeOK OBVIOUS
  <2>1. ASSUME NEW r, IsCall(r) PROVE r \in CallRecord
    BY <2>1 DEF IsCall, CallRecord
  <2>2. call \in [Calls -> CallRecord] BY <2>1 DEF IndInv, Typed, GoodCall
  <2>3. QED BY <2>2 DEF IndInv, Typed, FaultInv, Messages, TypeOK
<1>2. QED BY <1>1, IndInvHolds, PTL

\* Only a call whose caller could not be looked up reaches its handler without
\* a permission, or is answered twice.
THEOREM HandlersNeedPermission == Spec => []OnlyFailedLookupsSlipThrough
<1>1. IndInv => OnlyFailedLookupsSlipThrough
  BY DEF IndInv, Typed, GoodCall, OnlyFailedLookupsSlipThrough
<1>2. QED BY <1>1, IndInvHolds, PTL

\* The client count is never lowered below zero, no answer of the bus finds the
\* client gone, and g_error is reached only for a caller that has left.
THEOREM FaultsNeedDepartedCallers == Spec => []OnlyDepartedCallersFault
<1>1. IndInv => OnlyDepartedCallersFault
  BY DEF IndInv, FaultInv, OnlyDepartedCallersFault
<1>2. QED BY <1>1, IndInvHolds, PTL

\* A client has one source of a kind at most: counting the sources counts the
\* clients.
LEMMA SourcesAreClients ==
  ASSUME IndInv, NEW kind
  PROVE  LET waiting == {c \in Clients : <<kind, c>> \in Elems(mainq)}
             sources == UNION {Queued(<<kind, c>>) : c \in Clients}
         IN  IsFiniteSet(waiting) /\ Cardinality(sources) = Cardinality(waiting)
<1> DEFINE waiting == {c \in Clients : <<kind, c>> \in Elems(mainq)}
           sources == UNION {Queued(<<kind, c>>) : c \in Clients}
           place == [c \in waiting |-> CHOOSE i \in 1..Len(mainq) : mainq[i] = <<kind, c>>]
<1>1. IsFiniteSet(waiting) BY ClientsFinite, FS_Subset
<1>2. DOMAIN mainq = 1..Len(mainq) /\ Once(mainq)
  BY LenProperties DEF IndInv, Typed, OrderInv, MainOrder
<1>3. ASSUME NEW c \in waiting
      PROVE  place[c] \in 1..Len(mainq) /\ mainq[place[c]] = <<kind, c>>
  <2>1. \E i \in 1..Len(mainq) : mainq[i] = <<kind, c>> BY DEF Elems
  <2>2. QED BY <2>1
<1>4. ASSUME NEW i \in sources
      PROVE  \E c \in waiting : i \in 1..Len(mainq) /\ mainq[i] = <<kind, c>>
  BY <1>2, <1>4 DEF Queued, Elems
<1>5. ASSUME NEW c \in waiting PROVE place[c] \in sources
  <2>1. place[c] \in Queued(<<kind, c>>) BY <1>2, <1>3 DEF Queued
  <2>2. QED BY <2>1
<1>6. place \in [waiting -> sources] BY <1>5
<1> HIDE DEF place
<1>7. ASSUME NEW c \in waiting, NEW d \in waiting, place[c] = place[d] PROVE c = d
  <2>1. <<kind, c>> = <<kind, d>> BY <1>3, <1>7
  <2>2. QED BY <2>1
<1>8. ASSUME NEW i \in sources PROVE \E c \in waiting : place[c] = i
  <2>1. PICK c \in waiting : i \in 1..Len(mainq) /\ mainq[i] = <<kind, c>> BY <1>4
  <2>2. place[c] \in 1..Len(mainq) /\ mainq[place[c]] = <<kind, c>> BY <1>3
  <2>3. QED BY <1>2, <2>1, <2>2 DEF Once
<1>9. ExistsBijection(waiting, sources)
  <2> HIDE DEF waiting, sources
  <2>1. place \in Bijection(waiting, sources)
    BY <1>6, <1>7, <1>8 DEF Bijection, Injection, IsInjective, Surjection
  <2>2. QED BY <2>1 DEF ExistsBijection
<1>10. Cardinality(sources) = Cardinality(waiting)
  <2> HIDE DEF waiting, sources
  <2>1. QED BY <1>1, <1>9, FS_Bijection
<1>11. QED BY <1>1, <1>10

\* The clients that are counted are those in the table, but for the changes
\* that are queued.
THEOREM CountsFollowTheTable == Spec => []ClientsAreCounted
<1>1. ASSUME IndInv PROVE ClientsAreCounted
  <2> DEFINE entering == {c \in Clients : <<"appeared", c>> \in Elems(mainq)}
             leaving  == {c \in Clients : <<"disappeared", c>> \in Elems(mainq)}
             table    == {c \in Clients : in_table[c]}
  <2>1. /\ IsFiniteSet(entering) /\ IsFiniteSet(leaving) /\ IsFiniteSet(table)
    BY ClientsFinite, FS_Subset
  <2>2. Cardinality(UNION {Queued(<<"appeared", c>>) : c \in Clients})
          = Cardinality(entering)
    <3>1. PICK kind : kind = "appeared" OBVIOUS
    <3>2. Cardinality(UNION {Queued(<<kind, c>>) : c \in Clients})
            = Cardinality({c \in Clients : <<kind, c>> \in Elems(mainq)})
      BY <1>1, SourcesAreClients
    <3>3. QED BY <3>1, <3>2
  <2>3. Cardinality(UNION {Queued(<<"disappeared", c>>) : c \in Clients})
          = Cardinality(leaving)
    <3>1. PICK kind : kind = "disappeared" OBVIOUS
    <3>2. Cardinality(UNION {Queued(<<kind, c>>) : c \in Clients})
            = Cardinality({c \in Clients : <<kind, c>> \in Elems(mainq)})
      BY <1>1, SourcesAreClients
    <3>3. QED BY <3>1, <3>2
  <2>4. table \cap leaving = {} BY <1>1 DEF IndInv, ClientInv, Disappearing
  <2>5. entering \subseteq table \cup leaving
    BY <1>1 DEF IndInv, ClientInv, Appearing, Disappearing
  <2>6. Counted = (table \cup leaving) \ entering
    BY DEF Counted, Appearing, Disappearing
  <2>7. num_clients = Cardinality(Counted) BY <1>1 DEF IndInv, CountInv
  <2> HIDE DEF entering, leaving, table
  <2>8. PICK known : known = table \cup leaving OBVIOUS
  <2>9. /\ IsFiniteSet(known)
        /\ Cardinality(known) = Cardinality(table) + Cardinality(leaving)
    <3>1. /\ IsFiniteSet(table \cup leaving)
          /\ Cardinality(table \cup leaving)
               = Cardinality(table) + Cardinality(leaving) - Cardinality(table \cap leaving)
      BY <2>1, FS_Union
    <3>2. Cardinality(table \cap leaving) = 0 BY <2>4, FS_EmptySet
    <3>3. Cardinality(table) \in Nat /\ Cardinality(leaving) \in Nat
      BY <2>1, FS_CardinalityType
    <3>4. QED BY <2>8, <3>1, <3>2, <3>3
  <2>10. Cardinality(Counted) = Cardinality(known) - Cardinality(entering)
    <3>1. known \cap entering = entering BY <2>5, <2>8
    <3>2. Cardinality(known \ entering)
            = Cardinality(known) - Cardinality(known \cap entering)
      BY <2>9, FS_Difference
    <3>3. QED BY <2>6, <2>8, <3>1, <3>2
  <2>11. Cardinality(known) \in Nat /\ Cardinality(entering) \in Nat
    BY <2>1, <2>9, FS_CardinalityType
  <2>12. num_clients + Cardinality(entering) = Cardinality(table) + Cardinality(leaving)
    BY <2>7, <2>9, <2>10, <2>11
  <2>13. QED BY <2>2, <2>3, <2>12 DEF ClientsAreCounted, table
<1>2. QED BY <1>1, IndInvHolds, PTL

\* The steps after which the daemon stops by itself find nobody to serve.
LEMMA StopFacts ==
  ASSUME IndInv, Next, loop = "running", loop' = "quitting", ~signalled'
  PROVE  /\ num_clients' = 0 /\ num_jobs' = 0
         /\ in_table' = in_table
         /\ Elems(mainq') \subseteq Elems(mainq)
<1>1. CASE DaemonNext /\ UNCHANGED <<clientVars, call, mainq, fault>>
  BY <1>1 DEF DaemonNext, on_manager_ready, on_name_acquired, on_name_lost,
              maybe_finished, Idle, on_sigint, MainLoopReturns, clientVars
<1>2. ASSUME NEW k \in Calls, ClientCalls(k) \/ AuthStep(k) PROVE FALSE
  BY <1>2 DEF ClientCalls, AuthStep, lookup_starts, lookup_returns,
              check_authorization, daemonVars
<1>3. ASSUME NEW k \in Calls, job_answers(k)
      PROVE  /\ num_clients' = 0 /\ num_jobs' = 0
             /\ in_table' = in_table /\ mainq' = mainq
  BY <1>3 DEF job_answers, job_counted_out, maybe_finished, Idle, clientVars
<1>4. ASSUME NEW c \in Clients,
             ClientDisconnects(c) \/ BusAnswersUid(c) \/ WorkerStep(c)
      PROVE  FALSE
  <2>1. CASE ClientDisconnects(c) \/ BusAnswersUid(c)
    BY <2>1 DEF ClientDisconnects, BusAnswersUid, daemonVars
  <2>2. CASE WorkerStep(c)
    BY <2>2 DEF WorkerStep, on_connection_filter, on_get_connection_unix_user,
                on_client_vanished, ProcessDies, daemonVars
  <2>3. QED BY <1>4, <2>1, <2>2
<1>5. ASSUME NEW c \in Clients, on_invoke_client_appeared(c) PROVE FALSE
  BY <1>5 DEF on_invoke_client_appeared, on_client_appeared
<1>6. ASSUME NEW c \in Clients, on_invoke_client_disappeared(c)
      PROVE  /\ num_clients' = 0 /\ num_jobs' = 0
             /\ in_table' = in_table
             /\ Elems(mainq') \subseteq Elems(mainq)
  <2>1. on_client_disappeared BY <1>6, DisappearedKeepsIndInv
  <2>2. num_clients' = 0 /\ num_jobs' = 0
    BY <2>1 DEF on_client_disappeared, maybe_finished, Idle
  <2>3. PICK task : Dispatches(task) BY <1>6 DEF on_invoke_client_disappeared
  <2>4. Elems(mainq') \subseteq Elems(mainq) BY <2>3, MainTakes
  <2>5. QED BY <1>6, <2>2, <2>4 DEF on_invoke_client_disappeared, clientVars
<1>7. ASSUME NEW k \in Calls, method_dispatched(k) \/ handle_method(k) PROVE FALSE
  BY <1>7 DEF method_dispatched, handle_method, job_launched, ProcessDies, daemonVars
<1>8. QED BY <1>1, <1>2, <1>3, <1>4, <1>5, <1>6, <1>7 DEF Next, MainStep

\* The daemon stops by itself only when the clients it knows of are counted out
\* or not yet counted in, and every job was answered.
THEOREM StopsWithoutClients == Spec => StopsOnlyWithoutClients
<1>1. ASSUME IndInv, IndInv', [Next]_vars
      PROVE  [loop = "running" /\ loop' = "quitting" /\ ~signalled' =>
                /\ \A c \in Clients : in_table[c] => Queued(<<"appeared", c>>) # {}
                /\ \A k \in Calls : call'[k].at # "job"]_vars
  <2> SUFFICES ASSUME Next, loop = "running", loop' = "quitting", ~signalled'
               PROVE  /\ \A c \in Clients : in_table[c] => Queued(<<"appeared", c>>) # {}
                      /\ \A k \in Calls : call'[k].at # "job"
    BY <1>1
  <2>1. /\ num_clients' = 0 /\ num_jobs' = 0 /\ in_table' = in_table
        /\ Elems(mainq') \subseteq Elems(mainq)
    BY <1>1, StopFacts
  <2>2. Counted' = {}
    <3>1. Cardinality(Counted') = 0 BY <1>1, <2>1 DEF IndInv, CountInv
    <3>2. IsFiniteSet(Counted') BY ClientsFinite, FS_Subset DEF Counted
    <3>3. QED BY <3>1, <3>2, FS_EmptySet
  <2>3. JobCalls' = {}
    BY <1>1, <2>1, FS_EmptySet DEF IndInv, JobsInv
  <2>4. ASSUME NEW c \in Clients, in_table[c] PROVE Queued(<<"appeared", c>>) # {}
    <3>1. Appearing(c)' BY <2>1, <2>2, <2>4 DEF Counted
    <3>2. <<"appeared", c>> \in Elems(mainq) BY <2>1, <3>1 DEF Appearing
    <3>3. DOMAIN mainq = 1..Len(mainq) BY <1>1, LenProperties DEF IndInv, Typed
    <3>4. QED BY <3>2, <3>3 DEF Elems, Queued
  <2>5. QED BY <2>3, <2>4 DEF JobCalls
<1>2. QED BY <1>1, IndInvHolds, PTL DEF Spec, StopsOnlyWithoutClients

-----------------------------------------------------------------------------
\* No call is forgotten.

\* A call that has no answer is on the bus or among the sources of the main
\* loop, runs in its thread or as a job, or waits in invocation_client_lookup
\* for an answer of the bus that came or is to come.  The wait of a caller that
\* has left the bus is the exception: its client is no longer in the table when
\* the answer is read, which wakes the thread but leaves uid_state UID_LOADING.
NoCallIsForgotten ==
  \A k \in Calls :
    LET c == Caller[k]
    IN  call[k].at # "none" /\ call[k].replies = 0 =>
          \/ k \in Elems(bus[c])
          \/ {<<"dispatch", k>>, <<"handler", k>>} \cap Elems(mainq) # {}
          \/ call[k].at \in {"auth", "polkit", "job"}
          \/ /\ call[k].at = "waiting"
             /\ \/ uid_state[c] \in {"VALID", "FAILED"}
                \/ asked[c]
                \/ {"uid_ok", "uid_err"} \cap Elems(bus[c]) # {}
                \/ ~connected[c]
          \/ fault # "none"

\* A call is in the queue that its record names, until the process dies, and
\* is done with only when it was answered.
PlaceInv(k) ==
  /\ call[k].at = "done" => call[k].replies > 0
  /\ call[k].at = "bus" => k \in Elems(bus[Caller[k]])
  /\ call[k].at = "dispatch" => <<"dispatch", k>> \in Elems(mainq)
  /\ call[k].at = "handler" /\ fault = "none" => <<"handler", k>> \in Elems(mainq)

\* The credentials of a client in the table are there, or on their way.
WakeInv(c) ==
  in_table[c] /\ uid_state[c] = "LOADING" =>
    asked[c] \/ "uid_ok" \in Elems(bus[c]) \/ "uid_err" \in Elems(bus[c])

KeptInv == (\A k \in Calls : PlaceInv(k)) /\ (\A c \in Clients : WakeInv(c))

\* A call that a step leaves alone.
LEMMA PlaceFrame ==
  ASSUME NEW k \in Calls, PlaceInv(k), call'[k] = call[k],
         fault' = "none" => fault = "none",
         k \in Elems(bus[Caller[k]]) => k \in Elems(bus'[Caller[k]]),
         <<"dispatch", k>> \in Elems(mainq) => <<"dispatch", k>> \in Elems(mainq'),
         <<"handler", k>> \in Elems(mainq) => <<"handler", k>> \in Elems(mainq')
  PROVE  PlaceInv(k)'
BY DEF PlaceInv

\* A step of one call beyond the dispatch, which leaves the sources of others.
LEMMA CallStepKept ==
  ASSUME IndInv, KeptInv, UNCHANGED clientVars, NEW k \in Calls, NEW r,
         call' = [call EXCEPT ![k] = r], fault' = "none" => fault = "none",
         \A e : e # <<"dispatch", k>> /\ e # <<"handler", k>> =>
                  (e \in Elems(mainq') <=> e \in Elems(mainq)),
         r.at \notin {"bus", "dispatch"}, r.at = "done" => r.replies > 0,
         r.at = "handler" /\ fault' = "none" => <<"handler", k>> \in Elems(mainq')
  PROVE  KeptInv'
<1>1. call = [j \in Calls |-> call[j]] BY DEF IndInv, Typed
<1>2. call'[k] = r /\ \A j \in Calls \ {k} : call'[j] = call[j] BY <1>1
<1>3. ASSUME NEW j \in Calls PROVE PlaceInv(j)'
  <2>1. CASE j = k BY <1>2, <2>1 DEF PlaceInv
  <2>2. CASE j # k
    <3>1. PlaceInv(j) BY DEF KeptInv
    <3>2. /\ <<"dispatch", j>> \in Elems(mainq) => <<"dispatch", j>> \in Elems(mainq')
          /\ <<"handler", j>> \in Elems(mainq) => <<"handler", j>> \in Elems(mainq')
      BY <2>2
    <3>3. QED BY <1>2, <2>2, <3>1, <3>2, PlaceFrame DEF clientVars
  <2>3. QED BY <2>1, <2>2
<1>4. \A c \in Clients : WakeInv(c)' BY DEF KeptInv, WakeInv, clientVars
<1>5. QED BY <1>3, <1>4 DEF KeptInv

\* The thread of a call, which hands it back to the main loop or goes on.
LEMMA AuthKept ==
  ASSUME IndInv, KeptInv, NEW k \in Calls, AuthStep(k)
  PROVE  KeptInv'
<1>1. /\ call[k].at \in {"auth", "waiting", "polkit"}
      /\ UNCHANGED <<daemonVars, clientVars, fault>>
  BY DEF AuthStep, lookup_starts, lookup_returns, check_authorization
<1>2. call = [j \in Calls |-> call[j]] /\ GoodCall(call[k]) BY DEF IndInv, Typed
<1>3. PICK r : r = call'[k] OBVIOUS
<1>4. call' = [call EXCEPT ![k] = r]
  BY <1>2, <1>3 DEF AuthStep, lookup_starts, lookup_returns, check_authorization,
                    LookupFailed
<1>5. \/ r.at \in {"waiting", "polkit", "done"} /\ mainq' = mainq
      \/ mainq' = Append(mainq, <<"handler", k>>) /\ r.at = "handler"
  BY <1>2, <1>3 DEF AuthStep, lookup_starts, lookup_returns, check_authorization,
                    LookupFailed, GoodCall, IsCall
<1>6. CASE r.at \in {"waiting", "polkit", "done"} /\ mainq' = mainq
  <2>1. CASE r.at # "done" BY <1>1, <1>4, <1>6, <2>1, CallStepKept
  <2>2. CASE r.at = "done"
    <3>1. call' = [call EXCEPT ![k].at = "done", ![k].replies = @ + 1]
      BY <1>2, <1>3, <2>2 DEF AuthStep, lookup_starts, lookup_returns,
                              check_authorization, LookupFailed, GoodCall, IsCall
    <3>2. r = Answering(call[k]) BY <1>2, <1>3, <3>1 DEF Answering
    <3>3. r.replies > 0 BY <1>2, <3>2 DEF Answering, GoodCall, IsCall
    <3>4. QED BY <1>1, <1>4, <1>6, <3>3, CallStepKept
  <2>3. QED BY <2>1, <2>2
<1>7. CASE mainq' = Append(mainq, <<"handler", k>>) /\ r.at = "handler"
  <2>1. PICK e \in Tasks : e = <<"handler", k>> BY DEF Tasks
  <2>2. mainq \in Seq(Tasks) /\ mainq' = Append(mainq, e)
    BY <1>7, <2>1 DEF IndInv, Typed
  <2>3. Elems(mainq') = Elems(mainq) \cup {e} BY <2>2, AppendFacts
  <2>4. <<"handler", k>> \in Elems(mainq') BY <2>1, <2>3
  <2>5. \A x : x # <<"dispatch", k>> /\ x # <<"handler", k>> =>
                 (x \in Elems(mainq') <=> x \in Elems(mainq))
    BY <1>1, <1>7, HandlerAttached
  <2>6. QED BY <1>1, <1>4, <1>7, <2>4, <2>5, CallStepKept
<1>8. QED BY <1>5, <1>6, <1>7

\* The main loop takes the source of a call.
LEMMA TakenKept ==
  ASSUME IndInv, KeptInv, NEW k \in Calls, method_dispatched(k) \/ handle_method(k)
  PROVE  KeptInv'
<1>1. PICK step \in {"dispatch", "handler"} : Dispatches(<<step, k>>)
  BY DEF method_dispatched, handle_method
<1>2. UNCHANGED clientVars BY DEF method_dispatched, handle_method
<1>3. MainLoopRuns /\ call[k].at = step BY <1>1, CallTaken
<1>4. \A e : e # <<"dispatch", k>> /\ e # <<"handler", k>> =>
               (e \in Elems(mainq') <=> e \in Elems(mainq))
  BY <1>1, CallTaken
<1>5. fault = "none" BY <1>3, NoFaultYet
<1>6. call = [j \in Calls |-> call[j]] /\ GoodCall(call[k]) BY DEF IndInv, Typed
<1>7. PICK r : r = call'[k] OBVIOUS
<1>8. call' = [call EXCEPT ![k] = r]
  BY <1>6, <1>7 DEF method_dispatched, handle_method
<1>9. r.at \in {"auth", "done", "job"} \/ fault' = "unknown_caller"
  BY <1>6, <1>7 DEF method_dispatched, handle_method, GoodCall, IsCall
<1>10. r.at \notin {"bus", "dispatch"}
  <2>1. CASE method_dispatched(k)
    BY <1>6, <1>7, <2>1 DEF method_dispatched, GoodCall, IsCall
  <2>2. CASE handle_method(k)
    <3>1. PICK s \in {"dispatch", "handler"} : s = "handler" OBVIOUS
    <3>2. Dispatches(<<s, k>>) BY <2>2, <3>1 DEF handle_method
    <3>3. call[k].at = "handler" BY <3>1, <3>2, CallTaken
    <3>4. QED BY <1>6, <1>7, <2>2, <3>3 DEF handle_method, GoodCall, IsCall
  <2>3. QED BY <2>1, <2>2
<1>11. r.at = "handler" => fault' # "none" BY <1>9
<1>12. r.at = "done" => r.replies > 0
  <2> SUFFICES ASSUME r.at = "done" PROVE r.replies > 0 OBVIOUS
  <2>1. call[k].at # "done" BY <1>3
  <2>2. call' = [call EXCEPT ![k].at = "done", ![k].ran = TRUE, ![k].replies = @ + 1]
    BY <1>6, <1>7, <2>1 DEF method_dispatched, handle_method, GoodCall, IsCall
  <2>3. r = Handling(call[k]) BY <1>6, <1>7, <2>2 DEF Handling
  <2>4. QED BY <1>6, <2>3 DEF Handling, GoodCall, IsCall
<1>13. QED BY <1>2, <1>4, <1>5, <1>8, <1>10, <1>11, <1>12, CallStepKept

\* A job completes.
LEMMA AnswerKept ==
  ASSUME IndInv, KeptInv, NEW k \in Calls, job_answers(k)
  PROVE  KeptInv'
<1>1. /\ call' = [call EXCEPT ![k].at = "done", ![k].replies = @ + 1]
      /\ UNCHANGED <<clientVars, mainq, fault>>
  BY DEF job_answers
<1>2. call = [j \in Calls |-> call[j]] /\ GoodCall(call[k]) BY DEF IndInv, Typed
<1>3. PICK r : r = Answering(call[k]) OBVIOUS
<1>4. r.at = "done" /\ r.replies > 0 BY <1>2, <1>3 DEF Answering, GoodCall, IsCall
<1>5. call' = [call EXCEPT ![k] = r] BY <1>1, <1>2, <1>3 DEF Answering
<1>6. QED BY <1>1, <1>4, <1>5, CallStepKept

\* A step that leaves the calls alone and takes none of them out of a queue.
LEMMA OthersKept ==
  ASSUME KeptInv, call' = call, fault' = "none" => fault = "none",
         \A k \in Calls :
           /\ \A c \in Clients : k \in Elems(bus[c]) => k \in Elems(bus'[c])
           /\ <<"dispatch", k>> \in Elems(mainq) => <<"dispatch", k>> \in Elems(mainq')
           /\ <<"handler", k>> \in Elems(mainq) => <<"handler", k>> \in Elems(mainq'),
         \A c \in Clients : WakeInv(c)'
  PROVE  KeptInv'
<1>1. ASSUME NEW k \in Calls PROVE PlaceInv(k)'
  <2>1. Caller[k] \in Clients BY CallerAssumption
  <2>2. PlaceInv(k) BY DEF KeptInv
  <2>3. QED BY <2>1, <2>2, PlaceFrame
<1>2. QED BY <1>1 DEF KeptInv

\* A client leaves, or the bus answers for its user: one message more.
LEMMA MessageKept ==
  ASSUME IndInv, KeptInv, NEW c \in Clients, ClientDisconnects(c) \/ BusAnswersUid(c)
  PROVE  KeptInv'
<1>1. /\ UNCHANGED <<in_table, uid_state, call, mainq, fault>>
      /\ \A d \in Clients \ {c} : asked'[d] = asked[d]
  BY DEF ClientDisconnects, BusAnswersUid, IndInv, Typed
<1>2. bus \in [Clients -> Seq(Messages)] BY DEF IndInv, Typed
<1>3. PICK m \in Messages :
        /\ \/ bus' = bus /\ ClientDisconnects(c)
           \/ bus' = [bus EXCEPT ![c] = Append(bus[c], m)]
        /\ BusAnswersUid(c) => /\ m \in {"uid_ok", "uid_err"}
                               /\ bus' = [bus EXCEPT ![c] = Append(bus[c], m)]
        /\ ~BusAnswersUid(c) => asked' = asked
  <2>1. CASE BusAnswersUid(c)
    BY <2>1 DEF BusAnswersUid, Messages
  <2>2. CASE ~BusAnswersUid(c)
    <3>1. ClientDisconnects(c) BY <2>2
    <3>2. "vanished" \in Messages BY DEF Messages
    <3>3. QED BY <2>2, <3>1, <3>2 DEF ClientDisconnects
  <2>3. QED BY <2>1, <2>2
<1>4. Elems(Append(bus[c], m)) = Elems(bus[c]) \cup {m} BY <1>2, AppendFacts
<1>5. \A d \in Clients : Elems(bus[d]) \subseteq Elems(bus'[d])
  BY <1>2, <1>3, <1>4
<1>6. ASSUME NEW d \in Clients PROVE WakeInv(d)'
  <2>1. WakeInv(d) BY DEF KeptInv
  <2>2. Elems(bus[d]) \subseteq Elems(bus'[d]) BY <1>5
  <2>3. CASE d = c /\ BusAnswersUid(c)
    <3>1. m \in Elems(bus'[c]) BY <1>2, <1>3, <1>4, <2>3
    <3>2. m \in {"uid_ok", "uid_err"} BY <1>3, <2>3
    <3>3. QED BY <2>3, <3>1, <3>2 DEF WakeInv
  <2>4. CASE ~(d = c /\ BusAnswersUid(c))
    <3>1. asked'[d] = asked[d] BY <1>1, <1>3, <2>4
    <3>2. QED BY <1>1, <2>1, <2>2, <3>1 DEF WakeInv
  <2>5. QED BY <2>3, <2>4
<1>7. QED BY <1>1, <1>5, <1>6, OthersKept

\* A client makes a call.
LEMMA CallKept ==
  ASSUME IndInv, KeptInv, NEW k \in Calls, ClientCalls(k)
  PROVE  KeptInv'
<1>1. PICK c \in Clients : c = Caller[k] BY CallerAssumption
<1>2. /\ call' = [call EXCEPT ![k].at = "bus"]
      /\ bus' = [bus EXCEPT ![c] = Append(bus[c], k)]
      /\ UNCHANGED <<asked, in_table, uid_state, mainq, fault>>
  BY <1>1 DEF ClientCalls
<1>3. /\ bus \in [Clients -> Seq(Messages)] /\ k \in Messages
      /\ call = [j \in Calls |-> call[j]] /\ GoodCall(call[k])
  BY DEF IndInv, Typed, Messages
<1>4. Elems(Append(bus[c], k)) = Elems(bus[c]) \cup {k} BY <1>3, AppendFacts
<1>5. k \in Elems(bus'[c]) /\ \A d \in Clients : Elems(bus[d]) \subseteq Elems(bus'[d])
  BY <1>2, <1>3, <1>4
<1>6. call'[k].at = "bus" /\ \A j \in Calls \ {k} : call'[j] = call[j]
  BY <1>2, <1>3 DEF GoodCall, IsCall
<1>7. ASSUME NEW j \in Calls PROVE PlaceInv(j)'
  <2>1. CASE j = k BY <1>1, <1>5, <1>6, <2>1 DEF PlaceInv
  <2>2. CASE j # k
    <3>1. PlaceInv(j) /\ Caller[j] \in Clients BY CallerAssumption DEF KeptInv
    <3>2. QED BY <1>2, <1>5, <1>6, <2>2, <3>1, PlaceFrame
  <2>3. QED BY <2>1, <2>2
<1>8. ASSUME NEW d \in Clients PROVE WakeInv(d)'
  <2>1. WakeInv(d) BY DEF KeptInv
  <2>2. QED BY <1>2, <1>5, <2>1 DEF WakeInv
<1>9. QED BY <1>7, <1>8 DEF KeptInv

\* The worker thread reads the answer of the bus: whoever waits is woken.
LEMMA UserKept ==
  ASSUME IndInv, KeptInv, NEW c \in Clients, NEW answer \in {"uid_ok", "uid_err"},
         on_get_connection_unix_user(c, answer)
  PROVE  KeptInv'
<1>1. /\ bus[c] # <<>> /\ Head(bus[c]) = answer
      /\ bus' = [bus EXCEPT ![c] = Tail(bus[c])]
      /\ uid_state' = IF in_table[c]
                      THEN [uid_state EXCEPT ![c] = IF answer = "uid_ok" THEN "VALID"
                                                                         ELSE "FAILED"]
                      ELSE uid_state
      /\ UNCHANGED <<asked, in_table, call, mainq>>
      /\ fault' = "none" => fault = "none"
  BY DEF on_get_connection_unix_user, Reads
<1>2. /\ bus \in [Clients -> Seq(Messages)] /\ BusOrder(bus[c])
      /\ uid_state \in [Clients -> {"none", "LOADING", "VALID", "FAILED"}]
  BY DEF IndInv, Typed, OrderInv
<1>3. Elems(Tail(bus[c])) = Elems(bus[c]) \ {answer} BY <1>1, <1>2, BusTail
<1>4. /\ Elems(bus'[c]) = Elems(bus[c]) \ {answer}
      /\ \A d \in Clients \ {c} : bus'[d] = bus[d]
  BY <1>1, <1>2, <1>3
<1>5. \A k \in Calls, d \in Clients : k \in Elems(bus[d]) => k \in Elems(bus'[d])
  BY <1>4, MessagesAssumption
<1>6. ASSUME NEW d \in Clients PROVE WakeInv(d)'
  <2>1. WakeInv(d) BY DEF KeptInv
  <2>2. CASE d = c
    <3>1. in_table[c] => uid_state'[c] \in {"VALID", "FAILED"} BY <1>1, <1>2
    <3>2. QED BY <1>1, <2>2, <3>1 DEF WakeInv
  <2>3. CASE d # c
    <3>1. uid_state'[d] = uid_state[d] BY <1>1, <1>2, <2>3
    <3>2. QED BY <1>1, <1>4, <2>1, <2>3, <3>1 DEF WakeInv
  <2>4. QED BY <2>2, <2>3
<1>7. QED BY <1>1, <1>5, <1>6, OthersKept

\* The worker thread reads that a client has left: no call of it is on the bus.
LEMMA VanishedKept ==
  ASSUME IndInv, KeptInv, NEW c \in Clients, on_client_vanished(c)
  PROVE  KeptInv'
<1>1. /\ bus[c] # <<>> /\ Head(bus[c]) = "vanished"
      /\ bus' = [bus EXCEPT ![c] = Tail(bus[c])]
      /\ in_table' = [in_table EXCEPT ![c] = FALSE]
      /\ UNCHANGED <<asked, uid_state, call, fault>>
  BY DEF on_client_vanished, Reads
<1>2. /\ bus \in [Clients -> Seq(Messages)] /\ BusOrder(bus[c])
      /\ in_table \in [Clients -> BOOLEAN] /\ mainq \in Seq(Tasks)
  BY DEF IndInv, Typed, OrderInv
<1>3. Elems(Tail(bus[c])) = Elems(bus[c]) \ {"vanished"} BY <1>1, <1>2, BusTail
<1>4. /\ Elems(bus'[c]) = Elems(bus[c]) \ {"vanished"}
      /\ \A d \in Clients \ {c} : bus'[d] = bus[d]
      /\ ~in_table'[c] /\ \A d \in Clients \ {c} : in_table'[d] = in_table[d]
  BY <1>1, <1>2, <1>3
<1>5. \A k \in Calls, d \in Clients : k \in Elems(bus[d]) => k \in Elems(bus'[d])
  BY <1>4, MessagesAssumption
<1>6. Elems(mainq) \subseteq Elems(mainq')
  <2>1. PICK e \in Tasks : e = <<"disappeared", c>> BY DEF Tasks
  <2>2. Elems(Append(mainq, e)) = Elems(mainq) \cup {e} BY <1>2, AppendFacts
  <2>3. mainq' = Append(mainq, e) \/ mainq' = mainq BY <2>1 DEF on_client_vanished
  <2>4. QED BY <2>2, <2>3
<1>7. ASSUME NEW d \in Clients PROVE WakeInv(d)'
  <2>1. WakeInv(d) BY DEF KeptInv
  <2>2. QED BY <1>1, <1>4, <2>1 DEF WakeInv
<1>8. QED BY <1>1, <1>5, <1>6, <1>7, OthersKept

\* The main loop counts a client.
LEMMA CountKept ==
  ASSUME IndInv, KeptInv, NEW c \in Clients,
         on_invoke_client_appeared(c) \/ on_invoke_client_disappeared(c)
  PROVE  KeptInv'
<1>1. UNCHANGED <<clientVars, call>> /\ (fault' = "none" => fault = "none")
  BY DEF on_invoke_client_appeared, on_invoke_client_disappeared
<1>2. PICK step \in {"appeared", "disappeared"} : Dispatches(<<step, c>>)
  BY DEF on_invoke_client_appeared, on_invoke_client_disappeared
<1>3. PICK task : task = <<step, c>> OBVIOUS
<1>4. Elems(mainq') = Elems(mainq) \ {task} BY <1>2, <1>3, MainTakes
<1>5. \A k \in Calls : task # <<"dispatch", k>> /\ task # <<"handler", k>> BY <1>3
<1>6. \A d \in Clients : WakeInv(d)' BY <1>1 DEF KeptInv, WakeInv, clientVars
<1>7. bus' = bus BY <1>1 DEF clientVars
<1>8. QED BY <1>1, <1>4, <1>5, <1>6, <1>7, OthersKept

\* The worker thread reads a call: it is passed on to the main loop, and the
\* bus is asked for the user of a new client.
LEMMA FilterKept ==
  ASSUME IndInv, KeptInv, NEW k \in Calls, on_connection_filter(k)
  PROVE  KeptInv'
<1>1. PICK c \in Clients : c = Caller[k] BY CallerAssumption
<1>2. /\ bus[c] # <<>> /\ Head(bus[c]) = k
      /\ in_table' = [in_table EXCEPT ![c] = TRUE]
      /\ uid_state' = IF ~in_table[c] THEN [uid_state EXCEPT ![c] = "LOADING"]
                                      ELSE uid_state
      /\ asked' = [asked EXCEPT ![c] = @ \/ ~in_table[c]]
      /\ bus' = [bus EXCEPT ![c] = IF ~in_table[c] /\ ~connected[c]
                                   THEN Append(Tail(bus[c]), "vanished")
                                   ELSE Tail(bus[c])]
      /\ mainq' = mainq \o (IF ~in_table[c] THEN << <<"appeared", c>> >> ELSE <<>>)
                        \o << <<"dispatch", k>> >>
      /\ call' = [call EXCEPT ![k].at = "dispatch"]
      /\ UNCHANGED fault
  BY <1>1 DEF on_connection_filter, Reads
<1>3. /\ bus \in [Clients -> Seq(Messages)] /\ BusOrder(bus[c]) /\ ClientInv(c)
      /\ in_table \in [Clients -> BOOLEAN] /\ asked \in [Clients -> BOOLEAN]
      /\ uid_state \in [Clients -> {"none", "LOADING", "VALID", "FAILED"}]
      /\ call = [j \in Calls |-> call[j]] /\ GoodCall(call[k])
  BY DEF IndInv, Typed, OrderInv
<1>4. k \notin {"uid_ok", "uid_err", "vanished"} BY MessagesAssumption
<1>5. PICK t : t = Tail(bus[c]) OBVIOUS
<1>6. t \in Seq(Messages) /\ k \in Elems(bus[c]) /\ Elems(t) = Elems(bus[c]) \ {k}
  BY <1>2, <1>3, <1>5, BusTail
<1>7. call[k].at = "bus" BY <1>6 DEF IndInv, LinkInv
<1>8. ~in_table[c] => ~Appearing(c) /\ ~Disappearing(c)
  BY <1>3, <1>4, <1>6 DEF ClientInv
<1>9. Elems(mainq') = Elems(mainq) \cup {<<"dispatch", k>>}
                        \cup (IF in_table[c] THEN {} ELSE {<<"appeared", c>>})
  BY <1>2, <1>7, <1>8, FilterAttaches
<1>10. Elems(t) \subseteq Elems(bus'[c]) /\ \A d \in Clients \ {c} : bus'[d] = bus[d]
  <2>1. PICK m \in Messages : m = "vanished" BY DEF Messages
  <2>2. Elems(Append(t, m)) = Elems(t) \cup {m} BY <1>6, AppendFacts
  <2>3. bus'[c] = Append(t, m) \/ bus'[c] = t BY <1>2, <1>3, <1>5, <2>1
  <2>4. QED BY <1>2, <1>3, <2>2, <2>3
<1>11. call'[k].at = "dispatch" /\ \A j \in Calls \ {k} : call'[j] = call[j]
  BY <1>2, <1>3 DEF GoodCall, IsCall
<1>12. ASSUME NEW j \in Calls PROVE PlaceInv(j)'
  <2>1. CASE j = k BY <1>9, <1>11, <2>1 DEF PlaceInv
  <2>2. CASE j # k
    <3>1. PlaceInv(j) /\ Caller[j] \in Clients BY CallerAssumption DEF KeptInv
    <3>2. j \in Elems(bus[Caller[j]]) => j \in Elems(bus'[Caller[j]])
      BY <1>6, <1>10, <2>2, <3>1
    <3>3. QED BY <1>2, <1>9, <1>11, <2>2, <3>1, <3>2, PlaceFrame
  <2>3. QED BY <2>1, <2>2
<1>13. ASSUME NEW d \in Clients PROVE WakeInv(d)'
  <2>1. WakeInv(d) BY DEF KeptInv
  <2>2. CASE d = c /\ ~in_table[c]
    <3>1. asked'[c] BY <1>2, <1>3, <2>2
    <3>2. QED BY <2>2, <3>1 DEF WakeInv
  <2>3. CASE d = c /\ in_table[c]
    <3>1. uid_state'[c] = uid_state[c] /\ (asked[c] => asked'[c]) BY <1>2, <1>3, <2>3
    <3>2. \A m \in {"uid_ok", "uid_err"} : m \in Elems(bus[c]) => m \in Elems(bus'[c])
      BY <1>4, <1>6, <1>10
    <3>3. QED BY <2>1, <2>3, <3>1, <3>2 DEF WakeInv
  <2>4. CASE d # c
    <3>1. /\ uid_state'[d] = uid_state[d] /\ asked'[d] = asked[d]
          /\ in_table'[d] = in_table[d] /\ bus'[d] = bus[d]
      BY <1>2, <1>3, <1>10, <2>4
    <3>2. QED BY <2>1, <3>1 DEF WakeInv
  <2>5. QED BY <2>2, <2>3, <2>4
<1>14. QED BY <1>12, <1>13 DEF KeptInv

\* At the start nobody has called.
LEMMA InitKept == Init => KeptInv
BY DEF Init, KeptInv, PlaceInv, WakeInv

\* Every step keeps every call.
LEMMA NextKept == IndInv /\ KeptInv /\ [Next]_vars => KeptInv'
<1> SUFFICES ASSUME IndInv, KeptInv, [Next]_vars PROVE KeptInv' OBVIOUS
<1>1. CASE UNCHANGED <<clientVars, call, mainq, fault>>
  BY <1>1 DEF KeptInv, PlaceInv, WakeInv, clientVars
<1>2. ASSUME NEW k \in Calls, ClientCalls(k) \/ AuthStep(k) \/ job_answers(k)
      PROVE  KeptInv'
  BY <1>2, CallKept, AuthKept, AnswerKept
<1>3. ASSUME NEW c \in Clients, ClientDisconnects(c) \/ BusAnswersUid(c)
      PROVE  KeptInv'
  BY <1>3, MessageKept
<1>4. ASSUME NEW c \in Clients, WorkerStep(c) PROVE KeptInv'
  <2>1. ASSUME NEW k \in Calls, on_connection_filter(k) PROVE KeptInv'
    BY <2>1, FilterKept
  <2>2. ASSUME NEW answer \in {"uid_ok", "uid_err"},
               on_get_connection_unix_user(c, answer)
        PROVE  KeptInv'
    BY <2>2, UserKept
  <2>3. CASE on_client_vanished(c) BY <2>3, VanishedKept
  <2>4. QED BY <1>4, <2>1, <2>2, <2>3 DEF WorkerStep
<1>5. ASSUME NEW c \in Clients,
             on_invoke_client_appeared(c) \/ on_invoke_client_disappeared(c)
      PROVE  KeptInv'
  BY <1>5, CountKept
<1>6. ASSUME NEW k \in Calls, method_dispatched(k) \/ handle_method(k)
      PROVE  KeptInv'
  BY <1>6, TakenKept
<1>7. CASE UNCHANGED vars BY <1>1, <1>7 DEF vars
<1>8. QED BY <1>1, <1>2, <1>3, <1>4, <1>5, <1>6, <1>7 DEF Next, MainStep

\* The safety half of EveryCallIsAnswered: no order of calls, departures and
\* answers of the bus loses a call, or leaves the thread of a caller that stays
\* waiting for an answer that was taken already.
THEOREM CallsAreKept == Spec => []NoCallIsForgotten
<1>1. ASSUME IndInv, KeptInv PROVE NoCallIsForgotten
  <2> SUFFICES ASSUME NEW k \in Calls, NEW c \in Clients, c = Caller[k],
                      call[k].at # "none", call[k].replies = 0, fault = "none",
                      call[k].at \notin {"auth", "polkit", "job"}
               PROVE  \/ k \in Elems(bus[c])
                      \/ {<<"dispatch", k>>, <<"handler", k>>} \cap Elems(mainq) # {}
                      \/ /\ call[k].at = "waiting"
                         /\ \/ uid_state[c] \in {"VALID", "FAILED"}
                            \/ asked[c]
                            \/ {"uid_ok", "uid_err"} \cap Elems(bus[c]) # {}
                            \/ ~connected[c]
    BY CallerAssumption DEF NoCallIsForgotten
  <2>1. PlaceInv(k) /\ WakeInv(c) BY <1>1 DEF KeptInv
  <2>2. call[k].at \in {"bus", "dispatch", "waiting", "handler"}
    BY <1>1, <2>1 DEF IndInv, Typed, GoodCall, IsCall, PlaceInv
  <2>3. CASE call[k].at = "bus" BY <2>1, <2>3 DEF PlaceInv
  <2>4. CASE call[k].at \in {"dispatch", "handler"} BY <2>1, <2>4 DEF PlaceInv
  <2>5. CASE call[k].at = "waiting"
    <3>1. uid_state[c] # "none" BY <1>1, <2>5 DEF IndInv, LinkInv
    <3>2. connected[c] => in_table[c] BY <1>1, <3>1 DEF IndInv, ClientInv
    <3>3. uid_state[c] \in {"LOADING", "VALID", "FAILED"}
      BY <1>1, <3>1 DEF IndInv, Typed
    <3>4. QED BY <2>1, <2>5, <3>2, <3>3 DEF WakeInv
  <2>6. QED BY <2>2, <2>3, <2>4, <2>5
<1>2. IndInv /\ KeptInv => NoCallIsForgotten BY <1>1
<1>3. QED BY <1>2, InitKept, NextKept, IndInvHolds, PTL DEF Spec
=============================================================================
