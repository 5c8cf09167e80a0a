------------------------- MODULE JobsServiceProofs -------------------------
(***************************************************************************)
(* Jobs implements Service, for any set of jobs and any bounds: initial    *)
(* states map to initial states, and every step to a step or a stutter.    *)
(*                                                                         *)
(* A job's record maps to its request by two fields, its kind and what was *)
(* reported.  A launch is Accept, a completion Answer, the second          *)
(* completion of a job is AnswerAgain, a completion without buffers and    *)
(* the return of the main loop are Leave, a signal is Told; a handler that *)
(* stops the daemon is Finish, and ExportInv with the count of jobs gives  *)
(* that nobody waits by then.                                              *)
(***************************************************************************)
EXTENDS JobsProofs

\* Only on_sigint sets signalled, and it quits the loop.
SignalInv == loop = "running" => ~signalled

\* A completion that faults is the last thing that the main loop does.
FaultInvariant == MainLoopRuns => \A j \in Jobs : job[j].fault = "none"

MapInv == IndInv /\ SignalInv /\ FaultInvariant

\* What a record maps to.
RequestOf(r) ==
  IF r.kind = "none" THEN "none"
  ELSE IF r.reported = "none" THEN "accepted" ELSE r.reported

\* The mapping reads one record per job.
LEMMA RequestIsOfRecord == job_request = [i \in Jobs |-> RequestOf(job[i])]
BY DEF job_request, RequestOf

-----------------------------------------------------------------------------
\* Every handler of the daemon keeps the signal and the loop together.
LEMMA NextSignalInv == IndInv /\ SignalInv /\ [Next]_vars => SignalInv'
<1> SUFFICES ASSUME IndInv, SignalInv, [Next]_vars PROVE SignalInv'
  OBVIOUS
<1>1. CASE DaemonNext
  BY <1>1
     DEF SignalInv, DaemonNext, on_manager_ready, on_name_acquired, on_name_lost,
         on_client_appeared, on_client_disappeared, on_sigint, MainLoopReturns,
         maybe_finished
<1>2. ASSUME NEW j \in Jobs, JobNext(j) PROVE SignalInv'
  BY <1>2
     DEF SignalInv, JobNext, MainLoopStep, ThreadStep, ChildStep, daemonVars,
         launch_spawned_job, launch_threaded_job, cancel_called, handle_cancel,
         caller_cancels, emit_completed_with_error_in_idle_cb, child_watch_cb,
         child_watch_from_release_cb, read_child_stdout, write_child_stdin,
         thread_starts, thread_returns, job_complete, ChildWrites, ChildFinishes,
         ChildDies, Complete, ProcessDies, job_launched, job_counted_out,
         maybe_finished
<1>3. CASE UNCHANGED vars BY <1>3 DEF SignalInv, vars, daemonVars
<1>4. QED BY <1>1, <1>2, <1>3 DEF Next

\* The record operators leave the fault alone.
LEMMA OperatorsKeepFault ==
  ASSUME NEW r, HasFields(r)
  PROVE  /\ HasFields(cancellable_cancel(r))
         /\ cancellable_cancel(r).fault = r.fault
         /\ unref(r).fault = r.fault
         /\ idle_completed(r).fault = r.fault
         /\ child_completed(r).fault = r.fault
         /\ thread_completed(r).fault = r.fault
<1> USE DEF HasFields, completed, release_resources
<1>1. /\ HasFields(cancellable_cancel(r))
      /\ cancellable_cancel(r).fault = r.fault
  BY DEF cancellable_cancel
<1>2. unref(r).fault = r.fault BY DEF unref
<1>3. idle_completed(r).fault = r.fault BY DEF idle_completed, unref
<1>4. child_completed(r).fault = r.fault BY DEF child_completed
<1>5. thread_completed(r).fault = r.fault BY DEF thread_completed
<1>6. QED BY <1>1, <1>2, <1>3, <1>4, <1>5

\* A step of a job either leaves its fault alone or ends the process.
LEMMA FaultsEndTheProcess ==
  ASSUME IndInv, NEW j \in Jobs, JobNext(j), MainLoopRuns, job[j].fault = "none"
  PROVE  /\ \A i \in Jobs \ {j} : job'[i] = job[i]
         /\ MainLoopRuns' => job'[j].fault = "none"
<1> DEFINE r == job[j]
<1>1. HasFields(r) /\ job \in [Jobs -> JobRecord] BY DEF IndInv, JobInv
<1>2. ASSUME NEW s, Becomes(j, s)
      PROVE  /\ \A i \in Jobs \ {j} : job'[i] = job[i]
             /\ job'[j] = s
  BY <1>1, <1>2 DEF Becomes
<1>3. ASSUME NEW s, Complete(j, s), s.fault = r.fault
      PROVE  /\ \A i \in Jobs \ {j} : job'[i] = job[i]
             /\ MainLoopRuns' => job'[j].fault = "none"
  <2>1. CASE ProcessDies
    BY <1>2, <1>3, <2>1 DEF Complete, ProcessDies, MainLoopRuns
  <2>2. CASE Becomes(j, s) BY <1>2, <1>3, <2>2
  <2>3. QED BY <1>3, <2>1, <2>2 DEF Complete
<1>4. CASE launch_spawned_job(j)
  <2>1. PICK how \in {"precancelled", "spawn_fails", "runs"},
             input \in BOOLEAN, shared \in {FALSE, CallerCancellables} :
               Becomes(j, [spawned_job_constructed(how, input, shared)
                             EXCEPT !.exported = TRUE])
    BY <1>4 DEF launch_spawned_job
  <2> DEFINE s == [spawned_job_constructed(how, input, shared)
                     EXCEPT !.exported = TRUE]
  <2>2. s.fault = "none" BY DEF spawned_job_constructed, NoJob
  <2>3. Becomes(j, s) BY <2>1
  <2> HIDE DEF s
  <2>4. QED BY <1>2, <2>2, <2>3
<1>5. CASE launch_threaded_job(j)
  <2>1. PICK pre \in BOOLEAN, shared \in {FALSE, CallerCancellables} :
               Becomes(j, [threaded_job_constructed(pre, shared) EXCEPT
                             !.exported = TRUE])
    BY <1>5 DEF launch_threaded_job
  <2> DEFINE s == [threaded_job_constructed(pre, shared) EXCEPT
                     !.exported = TRUE]
  <2>2. s.fault = "none" BY DEF threaded_job_constructed, NoJob
  <2>3. Becomes(j, s) BY <2>1
  <2> HIDE DEF s
  <2>4. QED BY <1>2, <2>2, <2>3
<1>6. CASE handle_cancel(j)
  <2> DEFINE c == cancellable_cancel(r)
             d == [c EXCEPT !.calls = @ - 1]
             e == [r EXCEPT !.calls = @ - 1]
  <2>1. HasFields(c) /\ c.fault = r.fault BY <1>1, OperatorsKeepFault
  <2> HIDE DEF c
  <2>2. HasFields(d) /\ d.fault = r.fault BY <2>1 DEF HasFields
  <2>3. HasFields(e) /\ e.fault = r.fault BY <1>1 DEF HasFields
  <2>4. Becomes(j, unref(d)) \/ Becomes(j, unref(e))
    BY <1>6 DEF handle_cancel, c
  <2> HIDE DEF d, e
  <2>5. unref(d).fault = r.fault BY <2>2, OperatorsKeepFault
  <2>6. unref(e).fault = r.fault BY <2>3, OperatorsKeepFault
  <2>7. QED BY <1>2, <2>4, <2>5, <2>6
<1>7. CASE caller_cancels(j)
  BY <1>1, <1>2, <1>7, OperatorsKeepFault DEF caller_cancels
<1>8. CASE emit_completed_with_error_in_idle_cb(j)
  BY <1>1, <1>3, <1>8, OperatorsKeepFault
     DEF emit_completed_with_error_in_idle_cb
<1>9. CASE child_watch_cb(j)
  BY <1>1, <1>3, <1>9, OperatorsKeepFault DEF child_watch_cb
<1>10. CASE job_complete(j)
  BY <1>1, <1>3, <1>10, OperatorsKeepFault DEF job_complete
<1>11. CASE cancel_called(j)
  <2> DEFINE s == [r EXCEPT !.calls = @ + 1]
  <2>1. s.fault = r.fault BY <1>1 DEF HasFields
  <2>2. Becomes(j, s) BY <1>11 DEF cancel_called
  <2>3. QED BY <1>2, <2>1, <2>2
<1>12. CASE child_watch_from_release_cb(j)
  <2> DEFINE s == [r EXCEPT !.work = "reaped", !.watch = "none"]
  <2>1. s.fault = r.fault BY <1>1 DEF HasFields
  <2>2. Becomes(j, s) BY <1>12 DEF child_watch_from_release_cb
  <2>3. QED BY <1>2, <2>1, <2>2
<1>13. CASE read_child_stdout(j)
  <2> DEFINE s == [r EXCEPT !.pipe = @ - 1, !.got = @ + 1]
  <2>1. s.fault = r.fault BY <1>1 DEF HasFields
  <2>2. Becomes(j, s) BY <1>13 DEF read_child_stdout
  <2>3. QED BY <1>2, <2>1, <2>2
<1>14. CASE write_child_stdin(j)
  <2> DEFINE s == [r EXCEPT !.stdin = IF @ = "unsent" THEN "sent" ELSE "closed"]
  <2>1. s.fault = r.fault BY <1>1 DEF HasFields
  <2>2. Becomes(j, s) BY <1>14 DEF write_child_stdin
  <2>3. QED BY <1>2, <2>1, <2>2
<1>15. CASE thread_starts(j)
  <2> DEFINE s == IF r.cancelled
                  THEN [r EXCEPT !.work = "posted", !.outcome = "failure"]
                  ELSE [r EXCEPT !.work = "running"]
  <2>1. s.fault = r.fault BY <1>1 DEF HasFields
  <2>2. Becomes(j, s) BY <1>15 DEF thread_starts
  <2>3. QED BY <1>2, <2>1, <2>2
<1>16. CASE ChildWrites(j)
  <2> DEFINE s == [r EXCEPT !.todo = @ - 1, !.pipe = @ + 1]
  <2>1. s.fault = r.fault BY <1>1 DEF HasFields
  <2>2. Becomes(j, s) BY <1>16 DEF ChildWrites
  <2>3. QED BY <1>2, <2>1, <2>2
<1>17. CASE thread_returns(j)
  <2>1. PICK result \in {"success", "failure"} :
          Becomes(j, [r EXCEPT !.work = "posted", !.outcome = result])
    BY <1>17 DEF thread_returns
  <2> DEFINE s == [r EXCEPT !.work = "posted", !.outcome = result]
  <2>2. s.fault = r.fault BY <1>1 DEF HasFields
  <2>3. QED BY <1>2, <2>1, <2>2
<1>18. CASE ChildFinishes(j) \/ ChildDies(j)
  <2>1. PICK result \in {"success", "failure"} :
          Becomes(j, [r EXCEPT !.work = "zombie", !.outcome = result])
    BY <1>18 DEF ChildFinishes, ChildDies
  <2> DEFINE s == [r EXCEPT !.work = "zombie", !.outcome = result]
  <2>2. s.fault = r.fault BY <1>1 DEF HasFields
  <2>3. QED BY <1>2, <2>1, <2>2
<1>19. QED
  BY <1>4, <1>5, <1>6, <1>7, <1>8, <1>9, <1>10, <1>11, <1>12, <1>13, <1>14, <1>15,
     <1>16, <1>17, <1>18
     DEF JobNext, MainLoopStep, ThreadStep, ChildStep

\* A main loop that has ended does not run again.
LEMMA MainLoopWasRunning ==
  ASSUME [Next]_vars, MainLoopRuns'
  PROVE  MainLoopRuns
<1>1. CASE DaemonNext
  BY <1>1 DEF DaemonNext, on_manager_ready, on_name_acquired, on_name_lost,
              on_client_appeared, on_client_disappeared, on_sigint,
              MainLoopReturns, maybe_finished, MainLoopRuns
<1>2. ASSUME NEW j \in Jobs, JobNext(j) PROVE MainLoopRuns
  BY <1>2 DEF JobNext, MainLoopStep, ThreadStep, ChildStep, daemonVars,
         launch_spawned_job, launch_threaded_job, cancel_called, handle_cancel,
         caller_cancels, emit_completed_with_error_in_idle_cb, child_watch_cb,
         child_watch_from_release_cb, read_child_stdout, write_child_stdin,
         thread_starts, thread_returns, job_complete, ChildWrites, ChildFinishes,
         ChildDies, MainLoopRuns
<1>3. CASE UNCHANGED vars BY <1>3 DEF vars, daemonVars, MainLoopRuns
<1>4. QED BY <1>1, <1>2, <1>3 DEF Next

LEMMA NextFaultInvariant ==
  IndInv /\ FaultInvariant /\ [Next]_vars => FaultInvariant'
<1> SUFFICES ASSUME IndInv, FaultInvariant, [Next]_vars, MainLoopRuns'
             PROVE  \A j \in Jobs : job'[j].fault = "none"
  BY DEF FaultInvariant
<1>1. MainLoopRuns BY MainLoopWasRunning
<1>2. \A j \in Jobs : job[j].fault = "none" BY <1>1 DEF FaultInvariant
<1>3. CASE UNCHANGED job BY <1>2, <1>3
<1>4. ASSUME NEW j \in Jobs, JobNext(j)
      PROVE  \A i \in Jobs : job'[i].fault = "none"
  BY <1>1, <1>2, <1>4, FaultsEndTheProcess
<1>5. QED BY <1>3, <1>4 DEF Next, vars

\* The invariant that the mapping needs.
LEMMA MapInvHolds == Spec => []MapInv
<1>1. Init => SignalInv BY DEF Init, DaemonInit, SignalInv
<1>2. Spec => []SignalInv
  BY <1>1, NextSignalInv, IndInvHolds, PTL DEF Spec
<1>3. Init => FaultInvariant BY DEF Init, FaultInvariant, NoJob
<1>4. Spec => []FaultInvariant
  BY <1>3, NextFaultInvariant, IndInvHolds, PTL DEF Spec
<1>5. QED BY <1>2, <1>4, IndInvHolds, PTL DEF MapInv

-----------------------------------------------------------------------------
\* When num_jobs is zero no request is waiting.
LEMMA NobodyWaits ==
  ASSUME IndInv', num_jobs' = 0
  PROVE  JobService!NobodyWaits(job_request')
<1>1. Cardinality(Exported') = 0 BY DEF IndInv, JobsAreCounted
<1>2. IsFiniteSet(Exported')
  <2>1. Exported' \subseteq Jobs BY DEF Exported
  <2>2. QED BY <2>1, JobsFinite, FS_Subset
<1>3. Exported' = {} BY <1>1, <1>2, FS_EmptySet
<1>4. SUFFICES ASSUME NEW i \in Jobs PROVE job_request'[i] # "accepted"
  BY DEF JobService!NobodyWaits
<1>5. ~job'[i].exported BY <1>3 DEF Exported
<1>6. job'[i].kind = "none" \/ job'[i].reported # "none"
  BY <1>5 DEF IndInv, JobInv, ExportInv
<1>7. job'[i].reported \in {"none", "success", "failure"}
  BY DEF IndInv, JobInv, JobFields
<1>8. QED BY <1>6, <1>7 DEF job_request

\* A handler that leaves every record alone, and lets the loop run on or
\* stops the daemon by maybe_finished.
LEMMA MayFinishStep ==
  ASSUME MapInv, IndInv', UNCHANGED signalled,
         \/ loop' = loop
         \/ loop \in {"running", "quitting"} /\ loop' = "quitting" /\ num_jobs' = 0
  PROVE  JobService!MayFinish
<1>1. CASE loop' = loop BY <1>1 DEF JobService!MayFinish, daemon_phase
<1>2. CASE loop = "running" /\ loop' = "quitting" /\ num_jobs' = 0
  <2>1. JobService!NobodyWaits(job_request') BY <1>2, NobodyWaits
  <2>2. daemon_phase = "serving" /\ daemon_phase' = "finished"
    BY <1>2 DEF daemon_phase, MapInv, SignalInv
  <2>3. QED BY <2>1, <2>2 DEF JobService!MayFinish
<1>3. QED BY <1>1, <1>2

\* A step of one job that changes neither its kind nor what was reported.
LEMMA SilentStep ==
  ASSUME IndInv, NEW j \in Jobs, NEW r, Becomes(j, r),
         r.kind = job[j].kind, r.reported = job[j].reported
  PROVE  UNCHANGED job_request
<1>1. \A i \in Jobs : job'[i] = IF i = j THEN r ELSE job[i]
  BY DEF IndInv, Becomes
<1>2. \A i \in Jobs : RequestOf(job'[i]) = RequestOf(job[i])
  BY <1>1 DEF RequestOf
<1>3. job_request' = [i \in Jobs |-> RequestOf(job'[i])]
  BY DEF job_request, RequestOf
<1>4. QED BY <1>2, <1>3, RequestIsOfRecord

-----------------------------------------------------------------------------
\* A launch is Accept.
LEMMA LaunchAccepts ==
  ASSUME MapInv, NEW j \in Jobs, NEW r, Becomes(j, r), job_launched,
         MainLoopRuns, job[j].kind = "none",
         r.kind # "none", r.reported = "none"
  PROVE  JobService!Accept(j)
<1>1. job \in [Jobs -> JobRecord] BY DEF MapInv, IndInv
<1>2. \A i \in Jobs : job'[i] = IF i = j THEN r ELSE job[i]
  BY <1>1 DEF Becomes
<1>3. job_request' = [job_request EXCEPT ![j] = "accepted"]
  BY <1>2 DEF job_request
<1>4. job_request[j] = "none" BY DEF job_request
<1>5. daemon_phase # "gone" /\ UNCHANGED daemon_phase
  BY DEF daemon_phase, MainLoopRuns, job_launched
<1>6. QED BY <1>3, <1>4, <1>5 DEF JobService!Accept

\* A completion that finds the job on the bus is Answer.
LEMMA CompletionAnswers ==
  ASSUME MapInv, IndInv', NEW j \in Jobs, NEW r, Becomes(j, r),
         job_counted_out, MainLoopRuns, job[j].exported,
         r.kind = job[j].kind, r.reported \in {"success", "failure"}
  PROVE  JobService!Answer({j})
<1>1. job \in [Jobs -> JobRecord] /\ JobInv(job[j]) BY DEF MapInv, IndInv
<1>2. \A i \in Jobs : job'[i] = IF i = j THEN r ELSE job[i]
  BY <1>1 DEF Becomes
<1>3. job[j].kind # "none" /\ job[j].reported = "none"
  BY <1>1 DEF JobInv, ExportInv
<1>4. \A i \in {j} : job_request[i] = "accepted" BY <1>3 DEF job_request
<1>5. \E a \in [{j} -> JobService!Answers] :
        job_request' = [i \in Jobs |-> IF i \in {j} THEN a[i] ELSE job_request[i]]
  <2> DEFINE a == [i \in {j} |-> r.reported]
  <2>1. a \in [{j} -> JobService!Answers] BY DEF JobService!Answers
  <2>2. job_request' = [i \in Jobs |-> IF i \in {j} THEN a[i] ELSE job_request[i]]
    BY <1>2, <1>3 DEF job_request
  <2>3. QED BY <2>1, <2>2
<1>6. JobService!MayFinish
  <2>1. num_jobs' \in Nat BY DEF IndInv, DaemonTypeOK
  <2>2. UNCHANGED signalled BY DEF job_counted_out
  <2>3. \/ loop' = loop
        \/ loop \in {"running", "quitting"} /\ loop' = "quitting" /\ num_jobs' = 0
    BY DEF job_counted_out, maybe_finished, Idle, MainLoopRuns
  <2>4. QED BY <2>2, <2>3, MayFinishStep
<1>7. daemon_phase # "gone" BY DEF daemon_phase, MainLoopRuns
<1>8. QED BY <1>4, <1>5, <1>6, <1>7 DEF JobService!Answer

\* What the completions report.
LEMMA CompletionReports ==
  ASSUME NEW r, JobInv(r)
  PROVE  /\ idle_completed(r).kind = r.kind
         /\ idle_completed(r).reported = "failure"
         /\ child_completed(r).kind = r.kind
         /\ child_completed(r).reported = r.outcome
         /\ thread_completed(r).kind = r.kind
         /\ thread_completed(r).reported = r.outcome
<1> USE DEF JobInv, HasFields
<1>1. /\ idle_completed(r).kind = r.kind
      /\ idle_completed(r).reported = "failure"
  BY DEF idle_completed, completed, unref, release_resources
<1>2. /\ child_completed(r).kind = r.kind
      /\ child_completed(r).reported = r.outcome
  BY DEF child_completed, completed, release_resources
<1>3. /\ thread_completed(r).kind = r.kind
      /\ thread_completed(r).reported = r.outcome
  BY DEF thread_completed, completed
<1>4. QED BY <1>1, <1>2, <1>3

\* The second completion of a job that was cancelled, and so was reported as a
\* failure, is AnswerAgain.
LEMMA SecondCompletionAnswersAgain ==
  ASSUME MapInv, NEW j \in Jobs, NEW r, Becomes(j, completed_again(job[j], r)),
         ProcessDies, MainLoopRuns, completion_fault(job[j]) = "no_object",
         job[j].kind = "spawned", r.reported \in {"success", "failure"}
  PROVE  JobService!AnswerAgain(j)
<1>1. /\ job \in [Jobs -> JobRecord]
      /\ JobInv(job[j])
      /\ job[j].fault = "none"
  BY DEF MapInv, IndInv, FaultInvariant
<1>2. ~job[j].exported /\ ~job[j].released
  BY DEF completion_fault
<1>3. job[j].reported = "failure" BY <1>1, <1>2 DEF JobInv, PendingInv
<1>4. job_request[j] = "failure" BY <1>3 DEF job_request
<1>5. /\ completed_again(job[j], r).kind = "spawned"
      /\ completed_again(job[j], r).reported = r.reported
  BY <1>1 DEF JobInv, HasFields, completed_again
<1>6. \A i \in Jobs : job'[i] = IF i = j THEN completed_again(job[j], r)
                                           ELSE job[i]
  BY <1>1 DEF Becomes
<1>7. job_request' = [job_request EXCEPT ![j] = r.reported]
  BY <1>5, <1>6 DEF job_request
<1>8. daemon_phase # "gone" /\ daemon_phase' = "gone"
  BY DEF ProcessDies, MainLoopRuns, daemon_phase
<1>9. QED
  BY <1>4, <1>7, <1>8 DEF JobService!AnswerAgain, JobService!Answers

\* A completion is Answer, or brings the process down, which is Leave or
\* AnswerAgain.
LEMMA CompleteSteps ==
  ASSUME MapInv, IndInv', NEW j \in Jobs, NEW r, Complete(j, r), MainLoopRuns,
         completion_fault(job[j]) # "none" => job[j].kind = "spawned",
         r.kind = job[j].kind, r.reported \in {"success", "failure"}
  PROVE  JobService!Next
<1>1. CASE completion_fault(job[j]) = "none"
  <2>1. job[j].exported BY <1>1 DEF completion_fault
  <2>2. JobService!Answer({j}) BY <1>1, <2>1, CompletionAnswers DEF Complete
  <2>3. QED BY <2>2 DEF JobService!Next
<1>2. CASE completion_fault(job[j]) = "no_object"
  <2>1. JobService!AnswerAgain(j)
    BY <1>2, SecondCompletionAnswersAgain DEF Complete
  <2>2. QED BY <2>1 DEF JobService!Next
<1>3. CASE completion_fault(job[j]) = "null_output"
  <2> DEFINE s == [job[j] EXCEPT !.fault = completion_fault(job[j])]
  <2>1. Becomes(j, s) /\ ProcessDies BY <1>3 DEF Complete
  <2>2. s.kind = job[j].kind /\ s.reported = job[j].reported
    BY DEF MapInv, IndInv, JobInv, HasFields
  <2>3. UNCHANGED job_request BY <2>1, <2>2, SilentStep DEF MapInv
  <2>4. daemon_phase' = "gone" BY <2>1 DEF ProcessDies, daemon_phase
  <2>5. QED BY <2>3, <2>4 DEF JobService!Next, JobService!Leave
<1>4. QED BY <1>1, <1>2, <1>3 DEF completion_fault

-----------------------------------------------------------------------------
\* A state without requests, and a daemon that serves.
LEMMA InitMaps == Init => JobService!Init
<1> SUFFICES ASSUME Init PROVE JobService!Init
  OBVIOUS
<1>1. job_request = [i \in Jobs |-> "none"]
  BY DEF Init, job_request, NoJob
<1>2. daemon_phase = "serving" BY DEF Init, DaemonInit, daemon_phase
<1>3. QED BY <1>1, <1>2 DEF JobService!Init

\* The daemon's own handlers answer nothing: they let it run, finish, be told
\* to stop or leave.
LEMMA DaemonStepMaps ==
  ASSUME MapInv, IndInv', DaemonNext, UNCHANGED job
  PROVE  JobService!Next
<1>1. UNCHANGED job_request BY DEF job_request
<1>2. CASE on_sigint
  <2>1. daemon_phase = "serving" /\ daemon_phase' = "told"
    BY <1>2 DEF on_sigint, daemon_phase, MapInv, SignalInv
  <2>2. QED BY <1>1, <2>1 DEF JobService!Next, JobService!Told
<1>3. CASE MainLoopReturns
  <2>1. daemon_phase' = "gone" BY <1>3 DEF MainLoopReturns, daemon_phase
  <2>2. QED BY <1>1, <2>1 DEF JobService!Next, JobService!Leave
<1>4. CASE ~on_sigint /\ ~MainLoopReturns
  <2>1. UNCHANGED signalled
    BY <1>4 DEF DaemonNext, on_manager_ready, on_name_acquired, on_name_lost,
                on_client_appeared, on_client_disappeared
  <2>2. \/ loop' = loop
        \/ loop \in {"running", "quitting"} /\ loop' = "quitting" /\ num_jobs' = 0
    BY <1>4 DEF DaemonNext, on_manager_ready, on_name_acquired, on_name_lost,
                on_client_appeared, on_client_disappeared, maybe_finished, Idle,
                MainLoopRuns
  <2>3. JobService!MayFinish BY <2>1, <2>2, MayFinishStep
  <2>4. QED BY <1>1, <2>3 DEF JobService!Next, JobService!Finish
<1>5. QED BY <1>2, <1>3, <1>4

\* Dropping a reference and cancelling report nothing.
LEMMA QuietOperators ==
  ASSUME NEW r, HasFields(r)
  PROVE  /\ HasFields(cancellable_cancel(r))
         /\ cancellable_cancel(r).kind = r.kind
         /\ cancellable_cancel(r).reported = r.reported
         /\ unref(r).kind = r.kind
         /\ unref(r).reported = r.reported
BY DEF HasFields, cancellable_cancel, unref, release_resources

\* Every step of a job is a step of the service or none.
LEMMA JobStepMaps ==
  ASSUME MapInv, IndInv', NEW j \in Jobs, JobNext(j)
  PROVE  JobService!Next \/ UNCHANGED JobService!vars
<1> DEFINE r == job[j]
<1>1. JobInv(r) /\ HasFields(r) BY DEF MapInv, IndInv, JobInv
<1>2. ASSUME NEW s, Becomes(j, s), s.kind = r.kind, s.reported = r.reported,
             UNCHANGED daemonVars
      PROVE  UNCHANGED JobService!vars
  <2>1. UNCHANGED job_request BY <1>2, SilentStep DEF MapInv
  <2>2. UNCHANGED daemon_phase BY <1>2 DEF daemon_phase, daemonVars
  <2>3. QED BY <2>1, <2>2 DEF JobService!vars
<1>3. CASE launch_spawned_job(j)
  <2>1. PICK how \in {"precancelled", "spawn_fails", "runs"},
             input \in BOOLEAN, shared \in {FALSE, CallerCancellables} :
               Becomes(j, [spawned_job_constructed(how, input, shared)
                             EXCEPT !.exported = TRUE])
    BY <1>3 DEF launch_spawned_job
  <2> DEFINE s == [spawned_job_constructed(how, input, shared)
                     EXCEPT !.exported = TRUE]
  <2>2. s.kind # "none" /\ s.reported = "none"
    BY DEF spawned_job_constructed, NoJob
  <2>3. Becomes(j, s) BY <2>1
  <2> HIDE DEF s
  <2>4. JobService!Accept(j)
    BY <1>3, <2>2, <2>3, LaunchAccepts DEF launch_spawned_job
  <2>5. QED BY <2>4 DEF JobService!Next
<1>4. CASE launch_threaded_job(j)
  <2>1. PICK pre \in BOOLEAN, shared \in {FALSE, CallerCancellables} :
               Becomes(j, [threaded_job_constructed(pre, shared) EXCEPT
                             !.exported = TRUE])
    BY <1>4 DEF launch_threaded_job
  <2> DEFINE s == [threaded_job_constructed(pre, shared) EXCEPT
                     !.exported = TRUE]
  <2>2. s.kind # "none" /\ s.reported = "none"
    BY DEF threaded_job_constructed, NoJob
  <2>3. Becomes(j, s) BY <2>1
  <2> HIDE DEF s
  <2>4. JobService!Accept(j)
    BY <1>4, <2>2, <2>3, LaunchAccepts DEF launch_threaded_job
  <2>5. QED BY <2>4 DEF JobService!Next
<1>5. CASE cancel_called(j)
  <2> DEFINE s == [r EXCEPT !.calls = @ + 1]
  <2>1. s.kind = r.kind /\ s.reported = r.reported BY <1>1 DEF HasFields
  <2>2. Becomes(j, s) /\ UNCHANGED daemonVars BY <1>5 DEF cancel_called
  <2>3. QED BY <1>2, <2>1, <2>2
<1>6. CASE handle_cancel(j)
  <2> DEFINE c == cancellable_cancel(r)
             d == [c EXCEPT !.calls = @ - 1]
             e == [r EXCEPT !.calls = @ - 1]
  <2>1. HasFields(c) /\ c.kind = r.kind /\ c.reported = r.reported
    BY <1>1, QuietOperators
  <2> HIDE DEF c
  <2>2. HasFields(d) /\ d.kind = r.kind /\ d.reported = r.reported
    BY <2>1 DEF HasFields
  <2>3. HasFields(e) /\ e.kind = r.kind /\ e.reported = r.reported
    BY <1>1 DEF HasFields
  <2>4. Becomes(j, unref(d)) \/ Becomes(j, unref(e))
    BY <1>6 DEF handle_cancel, c
  <2>5. UNCHANGED daemonVars BY <1>6 DEF handle_cancel
  <2> HIDE DEF d, e
  <2>6. unref(d).kind = r.kind /\ unref(d).reported = r.reported
    BY <2>2, QuietOperators
  <2>7. unref(e).kind = r.kind /\ unref(e).reported = r.reported
    BY <2>3, QuietOperators
  <2>8. QED BY <1>2, <2>4, <2>5, <2>6, <2>7
<1>7. CASE caller_cancels(j)
  <2>1. /\ cancellable_cancel(r).kind = r.kind
        /\ cancellable_cancel(r).reported = r.reported
    BY <1>1, QuietOperators
  <2>2. QED BY <1>2, <1>7, <2>1 DEF caller_cancels
<1>8. CASE emit_completed_with_error_in_idle_cb(j)
  <2>1. /\ idle_completed(r).kind = r.kind
        /\ idle_completed(r).reported \in {"success", "failure"}
    BY <1>1, CompletionReports
  <2>2. r.kind = "spawned"
    BY <1>1, <1>8
       DEF emit_completed_with_error_in_idle_cb, JobInv, JobFields, ThreadedInv
  <2>3. QED
    BY <1>8, <2>1, <2>2, CompleteSteps
       DEF emit_completed_with_error_in_idle_cb
<1>9. CASE child_watch_cb(j)
  <2>1. r.outcome \in {"success", "failure"}
    BY <1>1, <1>9 DEF child_watch_cb, JobInv, JobFields, ThreadedInv, WatchInv
  <2>2. /\ child_completed(r).kind = r.kind
        /\ child_completed(r).reported \in {"success", "failure"}
    BY <1>1, <2>1, CompletionReports
  <2>3. r.kind = "spawned"
    BY <1>1, <1>9 DEF child_watch_cb, JobInv, JobFields, ThreadedInv
  <2>4. QED BY <1>9, <2>2, <2>3, CompleteSteps DEF child_watch_cb
<1>10. CASE job_complete(j)
  <2>1. r.outcome \in {"success", "failure"}
    BY <1>1, <1>10 DEF job_complete, JobInv, JobFields, ThreadedInv, WatchInv
  <2>2. /\ thread_completed(r).kind = r.kind
        /\ thread_completed(r).reported \in {"success", "failure"}
    BY <1>1, <2>1, CompletionReports
  <2>3. completion_fault(r) = "none"
    BY <1>1, <1>10, ThreadCompletedInv
       DEF job_complete, completion_fault, JobInv, ExportInv
  <2>4. QED BY <1>10, <2>2, <2>3, CompleteSteps DEF job_complete
<1>11. CASE child_watch_from_release_cb(j)
  <2> DEFINE s == [r EXCEPT !.work = "reaped", !.watch = "none"]
  <2>1. s.kind = r.kind /\ s.reported = r.reported BY <1>1 DEF HasFields
  <2>2. Becomes(j, s) /\ UNCHANGED daemonVars
    BY <1>11 DEF child_watch_from_release_cb
  <2>3. QED BY <1>2, <2>1, <2>2
<1>12. CASE read_child_stdout(j)
  <2> DEFINE s == [r EXCEPT !.pipe = @ - 1, !.got = @ + 1]
  <2>1. s.kind = r.kind /\ s.reported = r.reported BY <1>1 DEF HasFields
  <2>2. Becomes(j, s) /\ UNCHANGED daemonVars BY <1>12 DEF read_child_stdout
  <2>3. QED BY <1>2, <2>1, <2>2
<1>13. CASE write_child_stdin(j)
  <2> DEFINE s == [r EXCEPT !.stdin = IF @ = "unsent" THEN "sent" ELSE "closed"]
  <2>1. s.kind = r.kind /\ s.reported = r.reported BY <1>1 DEF HasFields
  <2>2. Becomes(j, s) /\ UNCHANGED daemonVars BY <1>13 DEF write_child_stdin
  <2>3. QED BY <1>2, <2>1, <2>2
<1>14. CASE thread_starts(j)
  <2> DEFINE s == IF r.cancelled
                  THEN [r EXCEPT !.work = "posted", !.outcome = "failure"]
                  ELSE [r EXCEPT !.work = "running"]
  <2>1. s.kind = r.kind /\ s.reported = r.reported BY <1>1 DEF HasFields
  <2>2. Becomes(j, s) /\ UNCHANGED daemonVars BY <1>14 DEF thread_starts
  <2>3. QED BY <1>2, <2>1, <2>2
<1>15. CASE thread_returns(j)
  <2>1. PICK result \in {"success", "failure"} :
          Becomes(j, [r EXCEPT !.work = "posted", !.outcome = result])
    BY <1>15 DEF thread_returns
  <2> DEFINE s == [r EXCEPT !.work = "posted", !.outcome = result]
  <2>2. s.kind = r.kind /\ s.reported = r.reported BY <1>1 DEF HasFields
  <2>3. Becomes(j, s) /\ UNCHANGED daemonVars BY <1>15, <2>1 DEF thread_returns
  <2>4. QED BY <1>2, <2>2, <2>3
<1>16. CASE ChildWrites(j)
  <2> DEFINE s == [r EXCEPT !.todo = @ - 1, !.pipe = @ + 1]
  <2>1. s.kind = r.kind /\ s.reported = r.reported BY <1>1 DEF HasFields
  <2>2. Becomes(j, s) /\ UNCHANGED daemonVars BY <1>16 DEF ChildWrites
  <2>3. QED BY <1>2, <2>1, <2>2
<1>17. CASE ChildFinishes(j) \/ ChildDies(j)
  <2>1. PICK result \in {"success", "failure"} :
          Becomes(j, [r EXCEPT !.work = "zombie", !.outcome = result])
    BY <1>17 DEF ChildFinishes, ChildDies
  <2> DEFINE s == [r EXCEPT !.work = "zombie", !.outcome = result]
  <2>2. s.kind = r.kind /\ s.reported = r.reported BY <1>1 DEF HasFields
  <2>3. Becomes(j, s) /\ UNCHANGED daemonVars
    BY <1>17, <2>1 DEF ChildFinishes, ChildDies
  <2>4. QED BY <1>2, <2>2, <2>3
<1>18. QED
  BY <1>3, <1>4, <1>5, <1>6, <1>7, <1>8, <1>9, <1>10, <1>11, <1>12, <1>13, <1>14,
     <1>15, <1>16, <1>17
     DEF JobNext, MainLoopStep, ThreadStep, ChildStep

\* Every step of the daemon and its jobs maps to a step or a stutter.
LEMMA NextMaps ==
  MapInv /\ MapInv' /\ [Next]_vars => [JobService!Next]_(JobService!vars)
<1> SUFFICES ASSUME MapInv, MapInv', [Next]_vars
             PROVE  JobService!Next \/ UNCHANGED JobService!vars
  OBVIOUS
<1>1. IndInv' BY DEF MapInv
<1>2. CASE DaemonNext /\ UNCHANGED job BY <1>1, <1>2, DaemonStepMaps
<1>3. CASE \E j \in Jobs : JobNext(j) BY <1>1, <1>3, JobStepMaps
<1>4. CASE UNCHANGED vars
  BY <1>4 DEF vars, daemonVars, JobService!vars, job_request, daemon_phase
<1>5. QED BY <1>2, <1>3, <1>4 DEF Next

\* The jobs implement Service for every set of jobs: each job launched is
\* reported once and keeps its result, but for a cancelled job that completes
\* again and takes the daemon with it; a success is never taken back; the daemon
\* stops by itself (maybe_finished) only when every job is reported, and nothing
\* is launched or reported after the main loop has returned.
THEOREM JobsImplementService == Spec => JobsAreAService
<1>1. Spec => Init /\ [][Next]_vars BY DEF Spec
<1>2. QED
  BY <1>1, InitMaps, MapInvHolds, NextMaps, PTL
     DEF JobsAreAService, JobService!Spec
=============================================================================
