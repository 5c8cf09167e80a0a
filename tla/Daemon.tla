------------------------------- MODULE Daemon -------------------------------
(***************************************************************************)
(* The life of the storaged process: the counters StorageDaemon keeps in   *)
(* daemon.c, the well-known bus name, and the main loop of main.c that the *)
(* "finished" signal quits.  Every handler below runs on the main loop.    *)
(*                                                                         *)
(* The module declares the state and the handlers; Jobs and Invocation     *)
(* extend it with the components that call them.                           *)
(***************************************************************************)
EXTENDS Naturals

VARIABLES
  persist,        \* self->persist: started with --debug, never stops by itself
  manager,        \* self->manager is set (coldplug has finished)
  name_owner_id,  \* self->name_owner_id is non-zero (we asked for the name)
  name_owned,     \* self->name_owned
  num_clients,    \* self->num_clients
  num_jobs,       \* self->num_jobs
  loop,           \* "running", "quitting" (g_main_loop_quit called), "exited",
                  \* or "aborted" (a failed assertion or a fault)
  signalled       \* SIGINT, SIGTERM, SIGHUP or, in debug mode, a closed stdin

daemonVars == <<persist, manager, name_owner_id, name_owned, num_clients,
                num_jobs, loop, signalled>>

DaemonTypeOK ==
  /\ persist \in BOOLEAN
  /\ manager \in BOOLEAN
  /\ name_owner_id \in BOOLEAN
  /\ name_owned \in BOOLEAN
  /\ num_clients \in Nat
  /\ num_jobs \in Nat
  /\ loop \in {"running", "quitting", "exited", "aborted"}
  /\ signalled \in BOOLEAN

DaemonInit ==
  /\ persist \in BOOLEAN
  /\ manager = FALSE
  /\ name_owner_id = FALSE
  /\ name_owned = FALSE
  /\ num_clients = 0
  /\ num_jobs = 0
  /\ loop = "running"
  /\ signalled = FALSE

-----------------------------------------------------------------------------
\* g_main_loop_quit lets the sources that are already ready be dispatched
\* before g_main_loop_run returns, so handlers still run while "quitting".
MainLoopRuns == loop \in {"running", "quitting"}

\* Mutant: the jobs are forgotten.
Idle_without_jobs(owned, clients, jobs) ==
  ~persist /\ ~owned /\ clients = 0

\* The condition maybe_finished tests, on the values the handler leaves.
Idle(owned, clients, jobs) ==
  ~persist /\ ~owned /\ clients = 0 /\ jobs = 0

\* The tail call of every handler that lowers one of the counts.
maybe_finished(owned, clients, jobs) ==
  loop' = IF Idle(owned, clients, jobs) THEN "quitting" ELSE loop

on_manager_ready ==
  /\ MainLoopRuns
  /\ ~manager
  /\ manager' = TRUE
  /\ name_owner_id' = TRUE
  /\ UNCHANGED <<persist, name_owned, num_clients, num_jobs, loop, signalled>>

on_name_acquired ==
  /\ MainLoopRuns
  /\ name_owner_id
  /\ ~name_owned
  /\ name_owned' = TRUE
  /\ UNCHANGED <<persist, manager, name_owner_id, num_clients, num_jobs, loop,
                 signalled>>

\* The name was refused, or another daemon started with --replace took it.
on_name_lost ==
  /\ MainLoopRuns
  /\ name_owner_id
  /\ name_owned' = FALSE
  /\ maybe_finished(FALSE, num_clients, num_jobs)
  /\ UNCHANGED <<persist, manager, name_owner_id, num_clients, num_jobs,
                 signalled>>

on_client_appeared ==
  /\ MainLoopRuns
  /\ num_clients' = num_clients + 1
  /\ UNCHANGED <<persist, manager, name_owner_id, name_owned, num_jobs, loop,
                 signalled>>

\* The last client's departure gives up the bus name before the daemon is
\* asked whether it may stop.  Without a counted client the handler aborts.
on_client_disappeared ==
  LET last  == num_clients = 1
      unown == last /\ ~persist /\ name_owner_id
  IN  /\ MainLoopRuns
      /\ num_clients > 0
      /\ num_clients' = num_clients - 1
      /\ name_owner_id' = (name_owner_id /\ ~unown)
      /\ name_owned' = (name_owned /\ ~unown)
      /\ maybe_finished(name_owned', num_clients', num_jobs)
      /\ UNCHANGED <<persist, manager, num_jobs, signalled>>

\* num_jobs++ in storage_daemon_launch_{spawned_jobv,threaded_job}.
job_launched ==
  /\ num_jobs' = num_jobs + 1
  /\ UNCHANGED <<persist, manager, name_owner_id, name_owned, num_clients, loop,
                 signalled>>

\* Mutant: a completed job is not counted out.
job_not_counted_out ==
  /\ maybe_finished(name_owned, num_clients, num_jobs)
  /\ UNCHANGED <<persist, manager, name_owner_id, name_owned, num_clients,
                 num_jobs, signalled>>

\* The last lines of on_job_completed: count the job out, maybe stop.
job_counted_out ==
  /\ num_jobs' = num_jobs - 1
  /\ maybe_finished(name_owned, num_clients, num_jobs')
  /\ UNCHANGED <<persist, manager, name_owner_id, name_owned, num_clients,
                 signalled>>

on_sigint ==
  /\ loop = "running"
  /\ loop' = "quitting"
  /\ signalled' = TRUE
  /\ UNCHANGED <<persist, manager, name_owner_id, name_owned, num_clients,
                 num_jobs>>

\* g_assert, g_error or a fault on the main loop: the process is gone.
ProcessDies ==
  /\ loop' = "aborted"
  /\ UNCHANGED <<persist, manager, name_owner_id, name_owned, num_clients,
                 num_jobs, signalled>>

\* g_main_loop_run returns and main() leaves without tearing the daemon down.
MainLoopReturns ==
  /\ loop = "quitting"
  /\ loop' = "exited"
  /\ UNCHANGED <<persist, manager, name_owner_id, name_owned, num_clients,
                 num_jobs, signalled>>
=============================================================================
