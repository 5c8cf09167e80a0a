-------------------------------- MODULE Jobs --------------------------------
(***************************************************************************)
(* The jobs of the daemon: StorageJob (job.c), its two implementations     *)
(* StorageSpawnedJob (spawnedjob.c) and StorageThreadedJob (threadedjob.c) *)
(* and the part of daemon.c that launches, exports and counts them.        *)
(*                                                                         *)
(* Actors: the main loop, one child process per spawned job, one thread of *)
(* the GIO scheduler per threaded job, and the clients that call Cancel.   *)
(* A handler changes the record of its job, and the operators between the  *)
(* rulers say how: each takes the record before the call and returns the   *)
(* record after it.                                                        *)
(***************************************************************************)
EXTENDS Daemon, FiniteSets

CONSTANTS
  Jobs,        \* the jobs that may ever be launched (one value of job_id each)
  MaxClients,  \* bound on the clients counted at a time
  MaxCalls,    \* bound on the calls of Cancel under way for one job
  MaxOutput,   \* chunks a command writes to stdout and stderr before it exits
  PipeSize,    \* chunks the pipe to the daemon holds before a write blocks
  CallerCancellables  \* may the caller of launch_*_job pass a GCancellable?
                      \* The API says so; no caller in the daemon does.

ASSUME JobsFinite == IsFiniteSet(Jobs)
ASSUME BoundsAssumption ==
  /\ MaxClients \in Nat
  /\ MaxCalls \in Nat
  /\ MaxOutput \in Nat
  /\ PipeSize \in Nat \ {0}
  /\ CallerCancellables \in BOOLEAN

VARIABLE job   \* job[j] is the record of job j

vars == <<daemonVars, job>>

-----------------------------------------------------------------------------
\* One job.  "work" is the child process or the scheduler's thread, "watch"
\* who waits for the child to exit, "idles" the queued calls of
\* emit_completed_with_error_in_idle_cb and "calls" the calls of Cancel that
\* wait for their authorization; each of these holds a reference to the job.
\* Output counts chunks: "todo" not yet written by the child, "pipe" written
\* and unread, "got" in child_stdout, "told" what the completion signal gave.
JobRecord ==
  [kind      : {"none", "spawned", "threaded"},
   exported  : BOOLEAN,
   shared    : BOOLEAN,     \* the GCancellable is the caller's
   cancelled : BOOLEAN,
   handler   : BOOLEAN,     \* on_cancelled is connected
   idles     : 0..2,
   calls     : Nat,
   work      : {"none", "queued", "running", "zombie", "posted", "reaped"},
   watch     : {"none", "job", "release"},
   released  : BOOLEAN,     \* release_resources ran: the buffers are NULL
   outcome   : {"none", "success", "failure"},
   reported  : {"none", "success", "failure"},
   fault     : {"none", "null_output", "no_object"},
   stdin     : {"none", "unsent", "sent", "closed"},
   todo      : Nat,
   pipe      : Nat,
   got       : Nat,
   told      : Nat]

NoJob ==
  [kind |-> "none", exported |-> FALSE, shared |-> FALSE,
   cancelled |-> FALSE, handler |-> FALSE, idles |-> 0, calls |-> 0,
   work |-> "none", watch |-> "none",
   released |-> FALSE, outcome |-> "none", reported |-> "none",
   fault |-> "none", stdin |-> "none", todo |-> 0, pipe |-> 0, got |-> 0,
   told |-> 0]

\* Mutant: the failed spawn queues its completion twice.
spawned_job_constructed_twice(how, input, shared) ==
  [NoJob EXCEPT
     !.kind = "spawned",
     !.shared = shared,
     !.cancelled = (how = "precancelled"),
     !.handler = (how # "precancelled"),
     !.idles = IF how = "runs" THEN 0 ELSE 2,
     !.work = IF how = "runs" THEN "running" ELSE "none",
     !.watch = IF how = "runs" THEN "job" ELSE "none",
     !.stdin = IF how = "runs" /\ input THEN "unsent" ELSE "none",
     !.todo = IF how = "runs" THEN MaxOutput ELSE 0]

\* storage_spawned_job_constructed: a cancellable that is already cancelled
\* gets neither a handler nor a child; a failed spawn keeps the handler.
spawned_job_constructed(how, input, shared) ==
  LET runs == how = "runs"
  IN  [NoJob EXCEPT
         !.kind = "spawned",
         !.shared = shared,
         !.cancelled = (how = "precancelled"),
         !.handler = (how # "precancelled"),
         !.idles = IF runs THEN 0 ELSE 1,
         !.work = IF runs THEN "running" ELSE "none",
         !.watch = IF runs THEN "job" ELSE "none",
         !.stdin = IF runs /\ input THEN "unsent" ELSE "none",
         !.todo = IF runs THEN MaxOutput ELSE 0]

threaded_job_constructed(pre, shared) ==
  [NoJob EXCEPT !.kind = "threaded", !.shared = shared, !.cancelled = pre,
                !.work = "queued"]

\* on_cancelled queues a failed completion; the threaded job has no handler
\* and looks at its cancellable when its thread starts.
cancellable_cancel(r) ==
  [r EXCEPT !.cancelled = TRUE,
            !.idles = IF r.handler THEN r.idles + 1 ELSE r.idles]

\* Mutant: the child is killed and nobody waits for it.
release_resources_no_reaper(r) ==
  [r EXCEPT !.watch = "none",
            !.released = TRUE,
            !.handler = FALSE,
            !.stdin = IF r.stdin = "none" THEN "none" ELSE "closed",
            !.pipe = 0,
            !.got = 0]

\* A child that is still there is sent SIGTERM and left to a watch that only
\* reaps it.
release_resources(r) ==
  [r EXCEPT !.watch = IF r.work \in {"running", "zombie"} THEN "release"
                                                           ELSE "none",
            !.released = TRUE,
            !.handler = FALSE,
            !.stdin = IF r.stdin = "none" THEN "none" ELSE "closed",
            !.pipe = 0,
            !.got = 0]

\* Dropping a reference: the last one finalizes the job, and finalizing it
\* releases what is left.
unref(r) ==
  IF ~r.exported /\ r.idles = 0 /\ r.calls = 0 THEN release_resources(r) ELSE r

\* The completion signal: the default handler emits "completed", and
\* on_job_completed unexports the job.
completed(r, result) ==
  [r EXCEPT !.exported = FALSE, !.reported = result, !.told = r.got]

\* Mutant: a job that has left the bus may complete again.
completion_fault_unchecked(r) ==
  IF r.kind = "spawned" /\ r.released THEN "null_output" ELSE "none"

\* What a completion finds: the default handler of the spawned job reads the
\* output buffers before it emits "completed", and on_job_completed, which is
\* connected to run last, asserts that the job still has its D-Bus object.
completion_fault(r) ==
  IF r.kind = "spawned" /\ r.released THEN "null_output"
  ELSE IF ~r.exported THEN "no_object"
  ELSE "none"

\* The completion, as s, of a job r that has left the bus: its caller gets the
\* second result, and then the assertion fails.
completed_again(r, s) ==
  [r EXCEPT !.fault = "no_object", !.reported = s.reported, !.told = s.told]

\* Mutant: the reference of the queued call is leaked.
idle_completed_leaked(r) ==
  [completed(r, "failure") EXCEPT !.idles = r.idles - 1]

\* emit_completed_with_error_in_idle_cb: complete, then drop the reference.
idle_completed(r) ==
  unref([completed(r, "failure") EXCEPT !.idles = r.idles - 1])

\* Mutant: what is still in the pipe is not collected.
child_completed_undrained(r) ==
  release_resources(completed([r EXCEPT !.work = "reaped"], r.outcome))

\* child_watch_cb: collect the rest of the output, complete, forget the pid.
child_completed(r) ==
  LET drained == [r EXCEPT !.got = r.got + r.pipe, !.pipe = 0,
                           !.work = "reaped"]
  IN  release_resources(completed(drained, r.outcome))

\* job_complete in the main loop, the thread's answer.
thread_completed(r) ==
  [completed(r, r.outcome) EXCEPT !.work = "reaped", !.released = TRUE]

-----------------------------------------------------------------------------
TypeOK ==
  /\ DaemonTypeOK
  /\ job \in [Jobs -> JobRecord]

Init ==
  /\ DaemonInit
  /\ job = [j \in Jobs |-> NoJob]

Becomes(j, r) == job' = [job EXCEPT ![j] = r]

\* storage_daemon_launch_spawned_jobv, on behalf of a method call.
launch_spawned_job(j) ==
  /\ MainLoopRuns
  /\ job[j].kind = "none"
  /\ \E how \in {"precancelled", "spawn_fails", "runs"}, input \in BOOLEAN,
        shared \in {FALSE, CallerCancellables} :
       /\ how = "precancelled" => shared
       /\ Becomes(j, [spawned_job_constructed(how, input, shared) EXCEPT
                        !.exported = TRUE])
  /\ job_launched

launch_threaded_job(j) ==
  /\ MainLoopRuns
  /\ job[j].kind = "none"
  /\ \E pre \in BOOLEAN, shared \in {FALSE, CallerCancellables} :
       /\ pre => shared
       /\ Becomes(j, [threaded_job_constructed(pre, shared) EXCEPT
                        !.exported = TRUE])
  /\ job_launched

\* Cancel() reaches an exported job and waits for polkit in a thread of its
\* own.  Sources of one priority are dispatched in the order they were
\* attached, so the completion that a failed spawn queued unexports the job
\* before such a call gets here.
cancel_called(j) ==
  /\ MainLoopRuns
  /\ job[j].exported
  /\ job[j].work # "none"
  /\ job[j].calls < MaxCalls
  /\ Becomes(j, [job[j] EXCEPT !.calls = @ + 1])
  /\ UNCHANGED daemonVars

\* Mutant: a second Cancel is not refused.
handle_cancel_again(j) ==
  /\ MainLoopRuns
  /\ job[j].calls > 0
  /\ Becomes(j, unref([cancellable_cancel(job[j]) EXCEPT !.calls = @ - 1]))
  /\ UNCHANGED daemonVars

\* The authorized call; the job may have completed in the meantime.  A second
\* Cancel is refused, and so is a call that polkit denies.
handle_cancel(j) ==
  /\ MainLoopRuns
  /\ job[j].calls > 0
  /\ \/ /\ ~job[j].cancelled
        /\ Becomes(j, unref([cancellable_cancel(job[j]) EXCEPT !.calls = @ - 1]))
     \/ Becomes(j, unref([job[j] EXCEPT !.calls = @ - 1]))
  /\ UNCHANGED daemonVars

\* The caller cancels its own GCancellable, from whatever thread it likes;
\* once the job is released it no longer listens.
caller_cancels(j) ==
  /\ MainLoopRuns
  /\ job[j].shared
  /\ job[j].exported
  /\ ~job[j].cancelled
  /\ Becomes(j, cancellable_cancel(job[j]))
  /\ UNCHANGED daemonVars

\* A completion counts the job out or brings the process down: before the
\* caller hears of it, or after the caller's handler has run once more.
Complete(j, r) ==
  LET fault == completion_fault(job[j])
  IN  \/ /\ fault = "none"
         /\ Becomes(j, r)
         /\ job_counted_out
      \/ /\ fault = "null_output"
         /\ Becomes(j, [job[j] EXCEPT !.fault = fault])
         /\ ProcessDies
      \/ /\ fault = "no_object"
         /\ Becomes(j, completed_again(job[j], r))
         /\ ProcessDies

emit_completed_with_error_in_idle_cb(j) ==
  /\ MainLoopRuns
  /\ job[j].idles > 0
  /\ Complete(j, idle_completed(job[j]))

child_watch_cb(j) ==
  /\ MainLoopRuns
  /\ job[j].watch = "job"
  /\ job[j].work = "zombie"
  /\ Complete(j, child_completed(job[j]))

child_watch_from_release_cb(j) ==
  /\ MainLoopRuns
  /\ job[j].watch = "release"
  /\ job[j].work = "zombie"
  /\ Becomes(j, [job[j] EXCEPT !.work = "reaped", !.watch = "none"])
  /\ UNCHANGED daemonVars

\* Mutant: the reader waits for the end of the command.
read_child_stdout_at_end(j) ==
  /\ MainLoopRuns
  /\ job[j].work = "zombie"
  /\ job[j].pipe > 0
  /\ Becomes(j, [job[j] EXCEPT !.pipe = @ - 1, !.got = @ + 1])
  /\ UNCHANGED daemonVars

\* One call of the reader moves at most one buffer from the pipe.
read_child_stdout(j) ==
  /\ MainLoopRuns
  /\ job[j].pipe > 0
  /\ Becomes(j, [job[j] EXCEPT !.pipe = @ - 1, !.got = @ + 1])
  /\ UNCHANGED daemonVars

\* Write what is left of the input; called again, close so the child gets EOF.
write_child_stdin(j) ==
  /\ MainLoopRuns
  /\ job[j].stdin \in {"unsent", "sent"}
  /\ ~job[j].released
  /\ Becomes(j, [job[j] EXCEPT !.stdin = IF @ = "unsent" THEN "sent"
                                                          ELSE "closed"])
  /\ UNCHANGED daemonVars

\* run_io_scheduler_job, first half: a cancelled job does not start.
thread_starts(j) ==
  /\ MainLoopRuns
  /\ job[j].work = "queued"
  /\ Becomes(j, IF job[j].cancelled
                THEN [job[j] EXCEPT !.work = "posted", !.outcome = "failure"]
                ELSE [job[j] EXCEPT !.work = "running"])
  /\ UNCHANGED daemonVars

\* The job function returns, and the thread waits for the main loop.
thread_returns(j) ==
  /\ MainLoopRuns
  /\ job[j].kind = "threaded"
  /\ job[j].work = "running"
  /\ \E result \in {"success", "failure"} :
       Becomes(j, [job[j] EXCEPT !.work = "posted", !.outcome = result])
  /\ UNCHANGED daemonVars

job_complete(j) ==
  /\ MainLoopRuns
  /\ job[j].work = "posted"
  /\ Complete(j, thread_completed(job[j]))

-----------------------------------------------------------------------------
\* The command.  A write blocks while the pipe is full.
ChildWrites(j) ==
  /\ job[j].kind = "spawned"
  /\ job[j].work = "running"
  /\ ~job[j].released
  /\ job[j].todo > 0
  /\ job[j].pipe < PipeSize
  /\ Becomes(j, [job[j] EXCEPT !.todo = @ - 1, !.pipe = @ + 1])
  /\ UNCHANGED daemonVars

\* It finishes once everything is written and its input has ended, and stops
\* when it is terminated because the job was released.
ChildFinishes(j) ==
  /\ job[j].kind = "spawned"
  /\ job[j].work = "running"
  /\ \/ job[j].todo = 0 /\ job[j].stdin \in {"none", "closed"}
     \/ job[j].released
  /\ \E result \in {"success", "failure"} :
       /\ result = "success" => job[j].todo = 0
       /\ Becomes(j, [job[j] EXCEPT !.work = "zombie", !.outcome = result])
  /\ UNCHANGED daemonVars

\* It may also fail, or be killed, at any moment.
ChildDies(j) ==
  /\ job[j].kind = "spawned"
  /\ job[j].work = "running"
  /\ Becomes(j, [job[j] EXCEPT !.work = "zombie", !.outcome = "failure"])
  /\ UNCHANGED daemonVars

-----------------------------------------------------------------------------
DaemonNext ==
  \/ on_manager_ready
  \/ on_name_acquired
  \/ on_name_lost
  \/ num_clients < MaxClients /\ on_client_appeared
  \/ on_client_disappeared
  \/ on_sigint
  \/ MainLoopReturns

\* The main loop, the scheduler's thread and the child carry job j on.
MainLoopStep(j) ==
  \/ emit_completed_with_error_in_idle_cb(j)
  \/ child_watch_cb(j)
  \/ child_watch_from_release_cb(j)
  \/ read_child_stdout(j)
  \/ write_child_stdin(j)
  \/ job_complete(j)

ThreadStep(j) == thread_starts(j) \/ thread_returns(j)

ChildStep(j) == ChildWrites(j) \/ ChildFinishes(j)

JobNext(j) ==
  \/ launch_spawned_job(j)
  \/ launch_threaded_job(j)
  \/ cancel_called(j)
  \/ handle_cancel(j)
  \/ caller_cancels(j)
  \/ MainLoopStep(j)
  \/ ThreadStep(j)
  \/ ChildStep(j)
  \/ ChildDies(j)

Next ==
  \/ DaemonNext /\ UNCHANGED job
  \/ \E j \in Jobs : JobNext(j)

Spec == Init /\ [][Next]_vars

\* The main loop dispatches every source that stays ready, polkit answers, the
\* scheduler runs every job that was pushed.  Nothing is assumed of a command
\* unless it has been sent SIGTERM.
Fairness ==
  \A j \in Jobs :
    /\ WF_vars(emit_completed_with_error_in_idle_cb(j))
    /\ WF_vars(child_watch_cb(j))
    /\ WF_vars(child_watch_from_release_cb(j))
    /\ WF_vars(read_child_stdout(j))
    /\ WF_vars(write_child_stdin(j))
    /\ WF_vars(job_complete(j))
    /\ WF_vars(ThreadStep(j))
    /\ WF_vars(handle_cancel(j))
    /\ WF_vars(ChildFinishes(j) /\ job[j].released)

FairSpec == Spec /\ Fairness

\* The commands work until they have written everything and read their input.
CommandsWork == \A j \in Jobs : WF_vars(ChildStep(j))

-----------------------------------------------------------------------------
Exported == {j \in Jobs : job[j].exported}

\* The daemon's count of jobs (daemon.c num_jobs), which alone keeps it alive
\* once its clients have gone, is the number of jobs on the bus: no
\* completion is counted twice and none is forgotten, however Cancel, the
\* child's exit and the idle callbacks interleave.
JobsAreCounted == num_jobs = Cardinality(Exported)

\* The daemon decides to stop (maybe_finished) only when every job it has
\* launched has been reported to its caller; only a signal stops it earlier.
StopsOnlyWhenJobsAreDone ==
  [][loop = "running" /\ loop' = "quitting" /\ ~signalled' =>
       \A j \in Jobs : job'[j].kind # "none" => job'[j].reported # "none"]_vars

\* A spawned job reported as a success is one whose command exited well, and
\* the completion signal carried the whole of its output, what was still in
\* the pipe when child_watch_cb ran included.
SuccessHasAllOutput ==
  \A j \in Jobs :
    job[j].kind = "spawned" /\ job[j].reported = "success" =>
      job[j].outcome = "success" /\ job[j].told = MaxOutput

\* A job can bring the daemon down (a NULL buffer in the default completion
\* handler, the assertion in on_job_completed) only if it is a spawned job
\* that a client cancelled: without Cancel every job completes exactly once.
OnlyCancelFaults ==
  \A j \in Jobs :
    job[j].fault # "none" => job[j].kind = "spawned" /\ job[j].cancelled

\* No child is left behind while the daemon runs: a command that the daemon
\* started is always watched, by the job or by release_resources.
ChildIsWatched ==
  \A j \in Jobs :
    job[j].kind = "spawned" /\ job[j].work \in {"running", "zombie"} =>
      job[j].watch = IF job[j].released THEN "release" ELSE "job"

\* If the commands work, every job launched is reported, unless the daemon
\* stops or dies first: a full pipe, an input that must end, a Cancel at any
\* moment and a failed spawn all lead to the completion signal.
EveryJobIsReported ==
  CommandsWork =>
    \A j \in Jobs :
      job[j].kind # "none" ~> job[j].reported # "none" \/ ~MainLoopRuns

\* Every command that has exited is reaped, also when the job was cancelled
\* and freed before it exited.
EveryChildIsReaped ==
  \A j \in Jobs :
    job[j].work = "zombie" ~> job[j].work = "reaped" \/ ~MainLoopRuns

\* Cancel ends a command that would never end by itself: whatever else is
\* called in the meantime, the last reference is dropped and
\* release_resources terminates the child.
CancelEndsTheCommand ==
  \A j \in Jobs :
    job[j].kind = "spawned" /\ job[j].cancelled ~>
      job[j].work # "running" \/ ~MainLoopRuns

\* What a job is to the one who asked for it, and what the main loop is.
job_request == [j \in Jobs |-> IF job[j].kind = "none" THEN "none"
                               ELSE IF job[j].reported = "none" THEN "accepted"
                               ELSE job[j].reported]

daemon_phase == CASE loop = "running"  -> "serving"
                  [] loop = "quitting" -> IF signalled THEN "told"
                                                       ELSE "finished"
                  [] OTHER             -> "gone"

JobService == INSTANCE Service WITH Requests <- Jobs, request <- job_request,
                                    phase <- daemon_phase

\* The jobs implement Service: a job is reported once and keeps its result,
\* however Cancel, the child's exit and a failed spawn interleave, but for a
\* cancelled job that completes again, whose caller gets a second result as
\* the daemon dies; maybe_finished ends the daemon only when every job launched
\* is reported; nothing is launched or reported once the main loop is gone.
JobsAreAService == JobService!Spec

\* The assertion of on_job_completed, g_assert (object != NULL): a job that
\* completes is still on the bus.
CompletedJobHasObject == \A j \in Jobs : job[j].fault # "no_object"
=============================================================================
