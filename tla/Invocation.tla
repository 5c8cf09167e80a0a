----------------------------- MODULE Invocation -----------------------------
(***************************************************************************)
(* Who is calling (invocation.c): the table of clients, the credentials it *)
(* fetches from the bus, the authorization of every method call and the    *)
(* client count of daemon.c that keeps the daemon alive.                   *)
(*                                                                         *)
(* Actors: the clients, the bus, the GDBus worker thread that sees every   *)
(* incoming message first, one thread per call that is being authorized,   *)
(* and the main loop.  The bus delivers in order.  Everything the other    *)
(* threads hand to the main loop has one priority, so it is a queue.       *)
(***************************************************************************)
EXTENDS Daemon, Sequences, FiniteSets

CONSTANTS
  Clients,   \* unique bus names
  Calls,     \* the method calls that may ever be made
  Caller     \* Caller[k] is the client that makes call k

ASSUME CallerAssumption == Caller \in [Calls -> Clients]
ASSUME ClientsFinite == IsFiniteSet(Clients)
ASSUME MessagesAssumption == Calls \cap {"uid_ok", "uid_err", "vanished"} = {}

VARIABLES
  connected,  \* connected[c]: the client is on the bus
  bus,        \* bus[c]: what the bus has sent to the daemon about c, unread:
              \* a call, "uid_ok" or "uid_err", and "vanished"
  asked,      \* asked[c]: GetConnectionUnixUser is under way
  in_table,   \* inv.clients has an entry for c
  uid_state,  \* client->uid_state, "none" before the client is created
  call,       \* call[k]: where the call is, and what became of it
  mainq,      \* the sources attached to the main loop, oldest first
  fault       \* what brought the process down

clientVars == <<connected, bus, asked, in_table, uid_state>>
vars == <<daemonVars, clientVars, call, mainq, fault>>

\* "waiting" is the loop around g_cond_wait in invocation_client_lookup,
\* "job" a handler that has launched its job and answers when it completes.
CallRecord ==
  [at      : {"none", "bus", "dispatch", "auth", "waiting", "polkit",
              "handler", "job", "done"},
   failed  : BOOLEAN,   \* the lookup of its caller failed
   granted : BOOLEAN,   \* polkit, or uid 0 without polkit, allowed the call
   ran     : BOOLEAN,   \* the method's handler was run
   replies : 0..2]

Tasks == {"appeared", "disappeared"} \X Clients
           \cup {"dispatch", "handler"} \X Calls

TypeOK ==
  /\ DaemonTypeOK
  /\ connected \in [Clients -> BOOLEAN]
  /\ bus \in [Clients -> Seq(Calls \cup {"uid_ok", "uid_err", "vanished"})]
  /\ asked \in [Clients -> BOOLEAN]
  /\ in_table \in [Clients -> BOOLEAN]
  /\ uid_state \in [Clients -> {"none", "LOADING", "VALID", "FAILED"}]
  /\ call \in [Calls -> CallRecord]
  /\ mainq \in Seq(Tasks)
  /\ fault \in {"none", "unknown_caller", "uncounted_client", "null_client"}

Init ==
  /\ DaemonInit
  /\ connected = [c \in Clients |-> TRUE]
  /\ bus = [c \in Clients |-> <<>>]
  /\ asked = [c \in Clients |-> FALSE]
  /\ in_table = [c \in Clients |-> FALSE]
  /\ uid_state = [c \in Clients |-> "none"]
  /\ call = [k \in Calls |-> [at |-> "none", failed |-> FALSE,
                              granted |-> FALSE, ran |-> FALSE,
                              replies |-> 0]]
  /\ mainq = <<>>
  /\ fault = "none"

-----------------------------------------------------------------------------
\* The clients and the bus.
ClientCalls(k) ==
  /\ MainLoopRuns
  /\ connected[Caller[k]]
  /\ call[k].at = "none"
  /\ call' = [call EXCEPT ![k].at = "bus"]
  /\ bus' = [bus EXCEPT ![Caller[k]] = Append(@, k)]
  /\ UNCHANGED <<daemonVars, connected, asked, in_table, uid_state, mainq,
                 fault>>

\* The daemon hears of it once it watches the name.
ClientDisconnects(c) ==
  /\ connected[c]
  /\ connected' = [connected EXCEPT ![c] = FALSE]
  /\ bus' = IF uid_state[c] = "none" THEN bus
            ELSE [bus EXCEPT ![c] = Append(@, "vanished")]
  /\ UNCHANGED <<daemonVars, asked, in_table, uid_state, call, mainq, fault>>

\* The bus knows the user of a connected client only; it may fail to tell.
BusAnswersUid(c) ==
  /\ asked[c]
  /\ asked' = [asked EXCEPT ![c] = FALSE]
  /\ \E answer \in {"uid_ok", "uid_err"} :
       /\ answer = "uid_ok" => connected[c]
       /\ bus' = [bus EXCEPT ![c] = Append(@, answer)]
  /\ UNCHANGED <<daemonVars, connected, in_table, uid_state, call, mainq,
                 fault>>

-----------------------------------------------------------------------------
\* The worker thread reads what the bus sent.
Reads(c, message) ==
  /\ MainLoopRuns
  /\ bus[c] # <<>>
  /\ Head(bus[c]) = message

\* Mutant: the client is counted for each of its calls.
on_connection_filter_recount(k) ==
  LET c == Caller[k]
  IN  /\ Reads(c, k)
      /\ in_table' = [in_table EXCEPT ![c] = TRUE]
      /\ uid_state' = [uid_state EXCEPT ![c] = "LOADING"]
      /\ asked' = [asked EXCEPT ![c] = TRUE]
      /\ bus' = [bus EXCEPT ![c] = Tail(@)]
      /\ mainq' = mainq \o << <<"appeared", c>>, <<"dispatch", k>> >>
      /\ call' = [call EXCEPT ![k].at = "dispatch"]
      /\ UNCHANGED <<daemonVars, connected, fault>>

\* Mutant: a new client is not counted.
on_connection_filter_uncounted(k) ==
  LET c == Caller[k]
  IN  /\ Reads(c, k)
      /\ in_table' = [in_table EXCEPT ![c] = TRUE]
      /\ uid_state' = [uid_state EXCEPT ![c] = "LOADING"]
      /\ asked' = [asked EXCEPT ![c] = TRUE]
      /\ bus' = [bus EXCEPT ![c] = Tail(@)]
      /\ mainq' = Append(mainq, <<"dispatch", k>>)
      /\ call' = [call EXCEPT ![k].at = "dispatch"]
      /\ UNCHANGED <<daemonVars, connected, fault>>

\* on_connection_filter and invocation_client_create: the first call of a
\* client creates it, starts to watch its name (a name that is gone already
\* vanishes at once), asks the bus for its user, and counts it in the main
\* loop.  Then GDBus passes the call on to the main loop.
on_connection_filter(k) ==
  LET c   == Caller[k]
      new == ~in_table[c]
  IN  /\ Reads(c, k)
      /\ in_table' = [in_table EXCEPT ![c] = TRUE]
      /\ uid_state' = IF new THEN [uid_state EXCEPT ![c] = "LOADING"]
                             ELSE uid_state
      /\ asked' = [asked EXCEPT ![c] = @ \/ new]
      /\ bus' = [bus EXCEPT ![c] = IF new /\ ~connected[c]
                                   THEN Append(Tail(@), "vanished")
                                   ELSE Tail(@)]
      /\ mainq' = mainq \o (IF new THEN << <<"appeared", c>> >> ELSE <<>>)
                        \o << <<"dispatch", k>> >>
      /\ call' = [call EXCEPT ![k].at = "dispatch"]
      /\ UNCHANGED <<daemonVars, connected, fault>>

\* Mutant: a failed answer wakes nobody.
on_get_connection_unix_user_lost(c, answer) ==
  /\ Reads(c, answer)
  /\ bus' = [bus EXCEPT ![c] = Tail(@)]
  /\ uid_state' = IF in_table[c] /\ answer = "uid_ok"
                  THEN [uid_state EXCEPT ![c] = "VALID"] ELSE uid_state
  /\ UNCHANGED <<daemonVars, connected, asked, in_table, call, mainq, fault>>

\* The answer is stored in the client the table has under that name.  Without
\* one a good answer still reads client->uid_peer for the debug message.
on_get_connection_unix_user(c, answer) ==
  LET state == IF answer = "uid_ok" THEN "VALID" ELSE "FAILED"
      lost  == answer = "uid_ok" /\ ~in_table[c]
  IN  /\ Reads(c, answer)
      /\ bus' = [bus EXCEPT ![c] = Tail(@)]
      /\ uid_state' = IF in_table[c] THEN [uid_state EXCEPT ![c] = state]
                                     ELSE uid_state
      /\ fault' = IF lost THEN "null_client" ELSE fault
      /\ IF lost THEN ProcessDies ELSE UNCHANGED daemonVars
      /\ UNCHANGED <<connected, asked, in_table, call, mainq>>

on_client_vanished(c) ==
  /\ Reads(c, "vanished")
  /\ bus' = [bus EXCEPT ![c] = Tail(@)]
  /\ in_table' = [in_table EXCEPT ![c] = FALSE]
  /\ mainq' = IF in_table[c] THEN Append(mainq, <<"disappeared", c>>)
                             ELSE mainq
  /\ UNCHANGED <<daemonVars, connected, asked, uid_state, call, fault>>

-----------------------------------------------------------------------------
\* The main loop takes the oldest source.
Dispatches(task) ==
  /\ MainLoopRuns
  /\ mainq # <<>>
  /\ Head(mainq) = task
  /\ mainq' = Tail(mainq)

on_invoke_client_appeared(c) ==
  /\ Dispatches(<<"appeared", c>>)
  /\ on_client_appeared
  /\ UNCHANGED <<clientVars, call, fault>>

\* g_assert (self->num_clients > 0), then on_client_disappeared.
on_invoke_client_disappeared(c) ==
  /\ Dispatches(<<"disappeared", c>>)
  /\ \/ on_client_disappeared /\ UNCHANGED fault
     \/ num_clients = 0 /\ ProcessDies /\ fault' = "uncounted_client"
  /\ UNCHANGED <<clientVars, call>>

\* GDBus starts the thread in which the call is authorized.
method_dispatched(k) ==
  /\ Dispatches(<<"dispatch", k>>)
  /\ call' = [call EXCEPT ![k].at = "auth"]
  /\ UNCHANGED <<daemonVars, clientVars, fault>>

\* on_authorize_method answers the caller with the error of the lookup, and
\* returns TRUE: GDBus goes on to the method's handler.
LookupFailed(k) ==
  /\ call' = [call EXCEPT ![k].at = "handler", ![k].failed = TRUE,
                          ![k].replies = @ + 1]
  /\ mainq' = Append(mainq, <<"handler", k>>)

\* invocation_client_lookup in the thread of the call: an unknown caller is an
\* error; a known one is referenced until its credentials are there.
lookup_starts(k) ==
  LET c == Caller[k]
  IN  /\ MainLoopRuns
      /\ call[k].at = "auth"
      /\ \/ /\ in_table[c]
            /\ call' = [call EXCEPT ![k].at = "waiting"]
            /\ UNCHANGED mainq
         \/ /\ ~in_table[c]
            /\ LookupFailed(k)
      /\ UNCHANGED <<daemonVars, clientVars, fault>>

lookup_returns(k) ==
  LET c == Caller[k]
  IN  /\ MainLoopRuns
      /\ call[k].at = "waiting"
      /\ \/ /\ uid_state[c] = "VALID"
            /\ call' = [call EXCEPT ![k].at = "polkit"]
            /\ UNCHANGED mainq
         \/ /\ uid_state[c] = "FAILED"
            /\ LookupFailed(k)
      /\ UNCHANGED <<daemonVars, clientVars, fault>>

\* Mutant: the refusal is sent, and the call goes on to its handler.
check_authorization_refused(k) ==
  /\ MainLoopRuns
  /\ call[k].at = "polkit"
  /\ \E granted \in BOOLEAN :
       call' = [call EXCEPT ![k].at = "handler", ![k].granted = granted,
                            ![k].replies = IF granted THEN @ ELSE @ + 1]
  /\ mainq' = Append(mainq, <<"handler", k>>)
  /\ UNCHANGED <<daemonVars, clientVars, fault>>

\* polkit, or authorize_without_polkit, decides; a refusal is the answer.
check_authorization(k) ==
  /\ MainLoopRuns
  /\ call[k].at = "polkit"
  /\ \/ /\ call' = [call EXCEPT ![k].at = "handler", ![k].granted = TRUE]
        /\ mainq' = Append(mainq, <<"handler", k>>)
     \/ /\ call' = [call EXCEPT ![k].at = "done", ![k].replies = @ + 1]
        /\ UNCHANGED mainq
  /\ UNCHANGED <<daemonVars, clientVars, fault>>

\* The handler of the method.  It answers at once (Poll, a refused argument)
\* or asks get_caller_uid for the user who starts the job: g_error when the
\* client is no longer in the table.
handle_method(k) ==
  /\ Dispatches(<<"handler", k>>)
  /\ \/ /\ call' = [call EXCEPT ![k].at = "done", ![k].ran = TRUE,
                                ![k].replies = @ + 1]
        /\ UNCHANGED <<daemonVars, fault>>
     \/ /\ in_table[Caller[k]]
        /\ uid_state[Caller[k]] # "LOADING"
        /\ call' = [call EXCEPT ![k].at = "job", ![k].ran = TRUE]
        /\ job_launched
        /\ UNCHANGED fault
     \/ /\ ~in_table[Caller[k]]
        /\ call' = [call EXCEPT ![k].ran = TRUE]
        /\ fault' = "unknown_caller"
        /\ ProcessDies
  /\ UNCHANGED clientVars

\* The job completes: the method is answered and the job counted out.
job_answers(k) ==
  /\ MainLoopRuns
  /\ call[k].at = "job"
  /\ call' = [call EXCEPT ![k].at = "done", ![k].replies = @ + 1]
  /\ job_counted_out
  /\ UNCHANGED <<clientVars, mainq, fault>>

-----------------------------------------------------------------------------
DaemonNext ==
  \/ on_manager_ready
  \/ on_name_acquired
  \/ on_name_lost
  \/ on_sigint
  \/ MainLoopReturns

WorkerStep(c) ==
  \/ \E k \in Calls : Caller[k] = c /\ on_connection_filter(k)
  \/ \E answer \in {"uid_ok", "uid_err"} :
       on_get_connection_unix_user(c, answer)
  \/ on_client_vanished(c)

MainStep ==
  \/ \E c \in Clients : \/ on_invoke_client_appeared(c)
                        \/ on_invoke_client_disappeared(c)
  \/ \E k \in Calls : method_dispatched(k) \/ handle_method(k)

AuthStep(k) ==
  \/ lookup_starts(k)
  \/ lookup_returns(k)
  \/ check_authorization(k)

Next ==
  \/ DaemonNext /\ UNCHANGED <<clientVars, call, mainq, fault>>
  \/ \E k \in Calls : ClientCalls(k) \/ AuthStep(k) \/ job_answers(k)
  \/ \E c \in Clients :
       ClientDisconnects(c) \/ BusAnswersUid(c) \/ WorkerStep(c)
  \/ MainStep

Spec == Init /\ [][Next]_vars

\* The threads run, the bus answers, the main loop dispatches, jobs complete.
Fairness ==
  /\ \A c \in Clients : WF_vars(WorkerStep(c)) /\ WF_vars(BusAnswersUid(c))
  /\ \A k \in Calls : WF_vars(AuthStep(k)) /\ WF_vars(job_answers(k))
  /\ WF_vars(MainStep)

FairSpec == Spec /\ Fairness

-----------------------------------------------------------------------------
Queued(task) == {i \in DOMAIN mainq : mainq[i] = task}

\* The clients the main loop has counted are those in the table of the worker
\* thread, but for the changes that are still queued between the two.
ClientsAreCounted ==
  fault = "none" =>
    num_clients
      + Cardinality(UNION {Queued(<<"appeared", c>>) : c \in Clients})
    = Cardinality({c \in Clients : in_table[c]})
      + Cardinality(UNION {Queued(<<"disappeared", c>>) : c \in Clients})

\* g_assert (self->num_clients > 0) in on_client_disappeared holds, and the
\* debug message of on_get_connection_unix_user never reads through a NULL
\* client: the order of the bus and of the main loop is all that protects them.
\* storage_invocation_get_caller_uid aborts only for a caller that has left
\* the bus after it made the call.
OnlyDepartedCallersFault ==
  /\ fault \notin {"uncounted_client", "null_client"}
  /\ fault = "unknown_caller" =>
       \E k \in Calls : /\ call[k].ran /\ call[k].at = "handler"
                        /\ ~connected[Caller[k]]

\* The daemon stops by itself only when every client it knows of has been
\* counted out, or is one whose client_appeared is still queued, and when
\* every job a call has launched was answered.
StopsOnlyWithoutClients ==
  [][loop = "running" /\ loop' = "quitting" /\ ~signalled' =>
       /\ \A c \in Clients : in_table[c] => Queued(<<"appeared", c>>) # {}
       /\ \A k \in Calls : call'[k].at # "job"]_vars

\* A call that polkit refused, or that was never checked, reaches no handler
\* and is answered once.  The only exception is a call whose caller could not
\* be looked up: it is answered with that error and handled all the same.
OnlyFailedLookupsSlipThrough ==
  \A k \in Calls :
    /\ call[k].ran => call[k].granted \/ call[k].failed
    /\ call[k].replies = 2 => call[k].failed

\* A caller that stays on the bus gets an answer, unless the daemon stops or
\* dies: no wait in invocation_client_lookup lasts for ever.
EveryCallIsAnswered ==
  \A k \in Calls :
    call[k].at = "bus" ~>
      call[k].replies > 0 \/ ~connected[Caller[k]] \/ loop # "running"
=============================================================================
