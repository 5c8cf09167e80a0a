----------------------------- MODULE JobsProofs -----------------------------
(***************************************************************************)
(* Proofs about Jobs, for any set of jobs and any bounds.                  *)
(*                                                                         *)
(* Every action of Jobs changes the record of at most one job, by one of   *)
(* the record operators of that module.  So the inductive invariant is a   *)
(* property JobInv of a single record, held by every job, together with    *)
(* the count of exported jobs; the lemmas say that each record operator    *)
(* keeps JobInv where its action may be taken.                             *)
(***************************************************************************)
EXTENDS Jobs, TLAPS, FiniteSetTheorems

-----------------------------------------------------------------------------
\* A job is on the bus from its launch to its report.
ExportInv(r) ==
  /\ r.exported <=> r.kind # "none" /\ r.reported = "none"
  /\ r.released => ~r.exported

\* A threaded job completes from its thread only.
ThreadedInv(r) ==
  r.kind # "spawned" =>
    /\ r.idles = 0
    /\ ~r.handler
    /\ r.watch = "none"
    /\ r.pipe = 0
    /\ r.fault = "none"
    /\ r.stdin = "none"
    /\ r.exported => r.work \in {"queued", "running", "posted"}
    /\ ~r.exported => r.work \in {"none", "reaped"}
    /\ r.work = "posted" => r.outcome # "none"
    /\ r.kind = "none" => r.work = "none"

\* A child is watched by the job until its resources are released, by nobody
\* but the reaper after that, and the watch sees a result.
WatchInv(r) ==
  r.kind = "spawned" =>
    /\ r.work \in {"none", "running", "zombie", "reaped"}
    /\ r.watch = IF r.work \in {"none", "reaped"} THEN "none"
                 ELSE IF r.released THEN "release" ELSE "job"
    /\ r.work = "zombie" => r.outcome # "none"
    /\ r.work = "reaped" => ~r.exported

\* The completions that are still to come.  A job without Cancel has exactly
\* one of them, the child watch or an idle; a second needs a Cancel, and the
\* first was then the failure of an idle callback.
PendingInv(r) ==
  r.kind = "spawned" =>
    /\ r.exported /\ r.work # "none" =>
         r.handler /\ r.idles = IF r.cancelled THEN 1 ELSE 0
    /\ r.exported /\ r.work = "none" =>
         r.idles \in {1, 2} /\ r.calls = 0 /\ (r.idles = 2 => r.cancelled)
    /\ ~r.exported => r.idles \in {0, 1}
    /\ ~r.exported /\ r.idles > 0 => r.cancelled
    /\ ~r.exported /\ ~r.released =>
         r.cancelled /\ (r.fault = "none" => r.reported = "failure")
    /\ r.released => ~r.handler
    /\ r.fault # "none" => r.cancelled

\* No chunk of output is lost before the child watch has run.
OutputInv(r) ==
  r.kind = "spawned" =>
    /\ r.watch = "job" => r.todo + r.pipe + r.got = MaxOutput
    /\ r.watch # "job" => r.pipe = 0
    /\ r.outcome = "success" => r.todo = 0
    /\ r.reported = "success" =>
         /\ r.work \in {"zombie", "reaped"}
         /\ r.outcome = "success"
         /\ r.told = MaxOutput

\* The fields have their types; with HasFields this is r \in JobRecord.
JobFields(r) ==
  /\ r.kind \in {"none", "spawned", "threaded"}
  /\ r.exported \in BOOLEAN
  /\ r.shared \in BOOLEAN
  /\ r.cancelled \in BOOLEAN
  /\ r.handler \in BOOLEAN
  /\ r.idles \in 0..2
  /\ r.calls \in Nat
  /\ r.work \in {"none", "queued", "running", "zombie", "posted", "reaped"}
  /\ r.watch \in {"none", "job", "release"}
  /\ r.released \in BOOLEAN
  /\ r.outcome \in {"none", "success", "failure"}
  /\ r.reported \in {"none", "success", "failure"}
  /\ r.fault \in {"none", "null_output", "no_object"}
  /\ r.stdin \in {"none", "unsent", "sent", "closed"}
  /\ r.todo \in Nat
  /\ r.pipe \in Nat
  /\ r.got \in Nat
  /\ r.told \in Nat

HasFields(r) ==
  /\ DOMAIN r = {"kind", "exported", "shared", "cancelled", "handler", "idles",
                 "calls", "work", "watch", "released", "outcome", "reported", "fault",
                 "stdin", "todo", "pipe", "got", "told"}
  /\ r = [f \in DOMAIN r |-> r[f]]

JobInv(r) ==
  /\ HasFields(r)
  /\ JobFields(r)
  /\ ExportInv(r)
  /\ ThreadedInv(r)
  /\ WatchInv(r)
  /\ PendingInv(r)
  /\ OutputInv(r)

IndInv ==
  /\ DaemonTypeOK
  /\ job \in [Jobs -> JobRecord]
  /\ \A j \in Jobs : JobInv(job[j])
  /\ JobsAreCounted

-----------------------------------------------------------------------------

\* The fields' types make the record's type.
LEMMA FieldsMakeRecord ==
  ASSUME NEW r, HasFields(r), JobFields(r)
  PROVE  r \in JobRecord
BY DEF HasFields, JobFields, JobRecord

\* The record's type gives the fields' types.
LEMMA RecordHasFields ==
  ASSUME NEW r \in JobRecord
  PROVE  HasFields(r) /\ JobFields(r)
BY DEF HasFields, JobFields, JobRecord

\* A job that was not launched satisfies the invariant.
LEMMA NoJobInv == JobInv(NoJob)
<1>1. HasFields(NoJob) BY DEF HasFields, NoJob
<1>2. QED
  BY <1>1 DEF JobInv, JobFields, ExportInv, ThreadedInv, WatchInv, PendingInv,
              OutputInv, NoJob

\* The record operators that the launches use yield a job that satisfies the
\* invariant once it is exported.
LEMMA SpawnedJobInv ==
  ASSUME NEW how \in {"precancelled", "spawn_fails", "runs"},
         NEW input \in BOOLEAN, NEW shared \in BOOLEAN
  PROVE  JobInv([spawned_job_constructed(how, input, shared) EXCEPT
                   !.exported = TRUE])
<1> DEFINE s == [spawned_job_constructed(how, input, shared) EXCEPT
                   !.exported = TRUE]
<1>1. HasFields(s)
  <2>1. DOMAIN s = DOMAIN NoJob BY DEF spawned_job_constructed
  <2>2. s = [f \in DOMAIN s |-> s[f]] BY DEF spawned_job_constructed
  <2>3. HasFields(NoJob) BY NoJobInv DEF JobInv
  <2>4. QED BY <2>1, <2>2, <2>3 DEF HasFields
<1>2. JobFields(s)
  BY BoundsAssumption DEF JobFields, NoJob, spawned_job_constructed
<1>3. ExportInv(s) BY DEF ExportInv, NoJob, spawned_job_constructed
<1>4. ThreadedInv(s) BY DEF ThreadedInv, NoJob, spawned_job_constructed
<1>5. WatchInv(s) BY DEF WatchInv, NoJob, spawned_job_constructed
<1>6. PendingInv(s)
  <2>1. CASE how = "precancelled"
    BY <2>1 DEF PendingInv, NoJob, spawned_job_constructed
  <2>2. CASE how = "spawn_fails"
    BY <2>2 DEF PendingInv, NoJob, spawned_job_constructed
  <2>3. CASE how = "runs"
    BY <2>3 DEF PendingInv, NoJob, spawned_job_constructed
  <2>4. QED BY <2>1, <2>2, <2>3
<1>7. OutputInv(s)
  BY BoundsAssumption DEF OutputInv, NoJob, spawned_job_constructed
<1>8. QED BY <1>1, <1>2, <1>3, <1>4, <1>5, <1>6, <1>7 DEF JobInv

\* A threaded job waits for its thread, whatever its cancellable says.
LEMMA ThreadedJobInv ==
  ASSUME NEW pre \in BOOLEAN, NEW shared \in BOOLEAN
  PROVE  JobInv([threaded_job_constructed(pre, shared) EXCEPT
                   !.exported = TRUE])
<1> DEFINE s == [threaded_job_constructed(pre, shared) EXCEPT
                   !.exported = TRUE]
<1>1. HasFields(s)
  <2>1. DOMAIN s = DOMAIN NoJob BY DEF threaded_job_constructed
  <2>2. s = [f \in DOMAIN s |-> s[f]] BY DEF threaded_job_constructed
  <2>3. HasFields(NoJob) BY NoJobInv DEF JobInv
  <2>4. QED BY <2>1, <2>2, <2>3 DEF HasFields
<1>2. QED
  BY <1>1 DEF JobInv, JobFields, ExportInv, ThreadedInv, WatchInv, PendingInv,
              OutputInv, NoJob, threaded_job_constructed

\* Cancelling a job queues at most a second completion, and none once the job
\* has been released.
LEMMA CancelInv ==
  ASSUME NEW r, JobInv(r), ~r.cancelled
  PROVE  /\ JobInv(cancellable_cancel(r))
         /\ cancellable_cancel(r).exported = r.exported
         /\ cancellable_cancel(r).calls = r.calls
         /\ cancellable_cancel(r).work = r.work
<1> DEFINE s == cancellable_cancel(r)
<1> USE DEF JobInv, HasFields, cancellable_cancel
<1>1. HasFields(s) OBVIOUS
<1>2. JobFields(s)
  <2>1. r.idles \in 0..2 /\ (r.handler => r.idles \in 0..1)
    BY DEF JobFields, PendingInv, ThreadedInv, ExportInv
  <2>2. s.idles \in 0..2 BY <2>1
  <2>3. QED BY <2>2 DEF JobFields
<1>3. ExportInv(s) BY DEF JobFields, ExportInv
<1>4. ThreadedInv(s) BY DEF JobFields, ThreadedInv
<1>5. WatchInv(s) BY DEF JobFields, WatchInv
<1>6. PendingInv(s) BY DEF JobFields, ExportInv, WatchInv, PendingInv
<1>7. OutputInv(s) BY DEF JobFields, OutputInv
<1>8. s.exported = r.exported /\ s.calls = r.calls /\ s.work = r.work
  OBVIOUS
<1>9. QED BY <1>1, <1>2, <1>3, <1>4, <1>5, <1>6, <1>7, <1>8

\* A call comes, or is over.
LEMMA CallsInv ==
  ASSUME NEW r, JobInv(r), NEW n \in Nat,
         n < r.calls \/ r.work # "none"
  PROVE  LET s == [r EXCEPT !.calls = n]
         IN  JobInv(s) /\ s.exported = r.exported
<1> DEFINE s == [r EXCEPT !.calls = n]
<1> USE DEF JobInv, HasFields
<1>1. HasFields(s) OBVIOUS
<1>2. JobFields(s) BY DEF JobFields
<1>3. ExportInv(s) /\ ThreadedInv(s) /\ WatchInv(s) /\ OutputInv(s)
  BY DEF ExportInv, ThreadedInv, WatchInv, OutputInv
<1>4. PendingInv(s) BY DEF JobFields, PendingInv
<1>5. s.exported = r.exported OBVIOUS
<1>6. QED BY <1>1, <1>2, <1>3, <1>4, <1>5

\* release_resources changes fields of a job, never their set or types.
LEMMA ReleaseHasFields ==
  ASSUME NEW r, HasFields(r)
  PROVE  /\ HasFields(release_resources(r))
         /\ JobFields(r) => JobFields(release_resources(r))
<1>1. HasFields(release_resources(r)) BY DEF HasFields, release_resources
<1>2. ASSUME JobFields(r) PROVE JobFields(release_resources(r))
  BY <1>2 DEF JobFields, HasFields, release_resources
<1>3. QED BY <1>1, <1>2

\* The completion signal changes fields of a job, never their set.
LEMMA CompletedHasFields ==
  ASSUME NEW r, HasFields(r), NEW result
  PROVE  HasFields(completed(r, result))
BY DEF HasFields, completed

\* Dropping a reference leaves the job as it is, or finalizes it.
LEMMA UnrefInv ==
  ASSUME NEW r, JobInv(r)
  PROVE  JobInv(unref(r)) /\ unref(r).exported = r.exported
<1> DEFINE s == release_resources(r)
<1>1. SUFFICES ASSUME ~r.exported PROVE JobInv(s) /\ s.exported = r.exported
  BY DEF unref
<1>2. HasFields(s) /\ JobFields(s) BY ReleaseHasFields DEF JobInv
<1> USE DEF JobInv, HasFields, release_resources
<1>3. ExportInv(s) BY <1>1 DEF JobFields, ExportInv
<1>4. ThreadedInv(s) BY <1>1 DEF JobFields, ThreadedInv
<1>5. WatchInv(s) BY <1>1 DEF JobFields, WatchInv
<1>6. PendingInv(s) BY <1>1 DEF JobFields, PendingInv
<1>7. OutputInv(s) BY <1>1 DEF JobFields, WatchInv, OutputInv
<1>8. s.exported = r.exported OBVIOUS
<1>9. QED BY <1>2, <1>3, <1>4, <1>5, <1>6, <1>7, <1>8

\* The idle callback reports a job that is still on the bus; with the last
\* reference the watch of a child passes to the reaper.
LEMMA IdleCompletedInv ==
  ASSUME NEW r, JobInv(r), r.idles > 0, completion_fault(r) = "none"
  PROVE  /\ r.exported
         /\ JobInv(idle_completed(r))
         /\ ~idle_completed(r).exported
<1> DEFINE s == idle_completed(r)
<1>1. HasFields(s) /\ JobFields(s)
  <2> DEFINE d == [completed(r, "failure") EXCEPT !.idles = r.idles - 1]
  <2>1. HasFields(completed(r, "failure")) BY CompletedHasFields DEF JobInv
  <2>2. HasFields(d) BY <2>1 DEF HasFields
  <2>3. r.idles - 1 \in 0..2 BY DEF JobInv, JobFields
  <2>4. JobFields(d)
    BY <2>3 DEF JobInv, HasFields, JobFields, completed
  <2> HIDE DEF d
  <2>5. HasFields(release_resources(d)) /\ JobFields(release_resources(d))
    BY <2>2, <2>4, ReleaseHasFields
  <2>6. QED BY <2>2, <2>4, <2>5 DEF idle_completed, unref, d
<1> USE DEF JobInv, HasFields, idle_completed, unref, completed,
            release_resources
<1>2. r.exported /\ ~r.released /\ r.kind = "spawned"
  BY DEF completion_fault, JobFields, ThreadedInv, ExportInv
<1>3. ExportInv(s) BY <1>2 DEF JobFields, ExportInv
<1>4. ThreadedInv(s) BY <1>2 DEF JobFields, ThreadedInv
<1>5. WatchInv(s) BY <1>2 DEF JobFields, WatchInv, PendingInv
<1>6. PendingInv(s) BY <1>2 DEF JobFields, PendingInv
<1>7. OutputInv(s) BY <1>2 DEF JobFields, WatchInv, PendingInv, OutputInv
<1>8. ~s.exported OBVIOUS
<1>9. QED BY <1>1, <1>2, <1>3, <1>4, <1>5, <1>6, <1>7, <1>8

\* child_watch_cb reports a job that is still on the bus with all that its
\* command has written, and leaves neither a watch nor a handler.
LEMMA ChildCompletedInv ==
  ASSUME NEW r, JobInv(r), r.watch = "job", r.work = "zombie", r.exported
  PROVE  /\ JobInv(child_completed(r))
         /\ ~child_completed(r).exported
<1> DEFINE s == child_completed(r)
<1>1. HasFields(s)
  <2> DEFINE d == [r EXCEPT !.got = r.got + r.pipe, !.pipe = 0,
                            !.work = "reaped"]
  <2>1. HasFields(d) BY DEF JobInv, HasFields
  <2>2. HasFields(completed(d, r.outcome)) BY <2>1, CompletedHasFields
  <2>3. QED BY <2>2, ReleaseHasFields DEF child_completed
<1> USE DEF JobInv, HasFields, child_completed, completed, release_resources
<1>2. r.kind = "spawned" /\ r.outcome # "none"
  BY DEF JobFields, ThreadedInv, WatchInv
<1>3. JobFields(s) BY DEF JobFields
<1>4. ExportInv(s) BY <1>2 DEF JobFields, ExportInv
<1>5. ThreadedInv(s) BY <1>2 DEF JobFields, ThreadedInv
<1>6. WatchInv(s) BY <1>2 DEF JobFields, WatchInv
<1>7. PendingInv(s) BY <1>2 DEF JobFields, PendingInv
<1>8. OutputInv(s)
  BY <1>2, BoundsAssumption DEF JobFields, WatchInv, OutputInv
<1>9. ~s.exported OBVIOUS
<1>10. QED BY <1>1, <1>2, <1>3, <1>4, <1>5, <1>6, <1>7, <1>8, <1>9

\* job_complete reports a threaded job with the result of its thread.
LEMMA ThreadCompletedInv ==
  ASSUME NEW r, JobInv(r), r.work = "posted"
  PROVE  /\ r.exported
         /\ JobInv(thread_completed(r))
         /\ ~thread_completed(r).exported
<1> DEFINE s == thread_completed(r)
<1> USE DEF JobInv, HasFields, thread_completed, completed
<1>1. HasFields(s) OBVIOUS
<1>2. r.exported /\ r.kind = "threaded" /\ r.outcome # "none"
  BY DEF JobFields, ThreadedInv, WatchInv
<1>3. JobFields(s) BY DEF JobFields
<1>4. ExportInv(s) BY <1>2 DEF JobFields, ExportInv
<1>5. ThreadedInv(s) BY <1>2 DEF JobFields, ThreadedInv
<1>6. WatchInv(s) /\ PendingInv(s) /\ OutputInv(s)
  BY <1>2 DEF JobFields, WatchInv, PendingInv, OutputInv
<1>7. ~s.exported OBVIOUS
<1>8. QED BY <1>1, <1>2, <1>3, <1>4, <1>5, <1>6, <1>7

\* The buffers are missing only in a spawned job that was cancelled.
LEMMA FaultInv ==
  ASSUME NEW r, JobInv(r), completion_fault(r) = "null_output",
         r.idles > 0 \/ r.watch = "job"
  PROVE  /\ JobInv([r EXCEPT !.fault = completion_fault(r)])
         /\ [r EXCEPT !.fault = completion_fault(r)].exported = r.exported
<1> DEFINE s == [r EXCEPT !.fault = completion_fault(r)]
<1>1. completion_fault(r) = "null_output" /\ ~r.exported
  BY DEF JobInv, ExportInv, completion_fault
<1>2. r.kind = "spawned"
  BY DEF JobInv, JobFields, ThreadedInv
<1>3. r.cancelled
  BY <1>1, <1>2 DEF JobInv, JobFields, WatchInv, PendingInv
<1>4. HasFields(s) BY DEF JobInv, HasFields
<1>5. JobFields(s) BY <1>1 DEF JobInv, HasFields, JobFields
<1>6. ExportInv(s) /\ ThreadedInv(s) /\ WatchInv(s) /\ OutputInv(s)
  BY <1>2 DEF JobInv, HasFields, ExportInv, ThreadedInv, WatchInv, OutputInv
<1>7. PendingInv(s) BY <1>3 DEF JobInv, HasFields, PendingInv
<1>8. s.exported = r.exported BY DEF JobInv, HasFields
<1>9. QED BY <1>4, <1>5, <1>6, <1>7, <1>8 DEF JobInv

\* The second completion of a job was asked for by a Cancel too, and if it is a
\* success it carries the output.
LEMMA AgainInv ==
  ASSUME NEW r, JobInv(r), completion_fault(r) = "no_object",
         r.idles > 0 \/ r.watch = "job",
         NEW s, s.reported \in {"success", "failure"}, s.told \in Nat,
         s.reported = "success" =>
           r.work = "zombie" /\ r.outcome = "success" /\ s.told = MaxOutput
  PROVE  /\ JobInv(completed_again(r, s))
         /\ completed_again(r, s).exported = r.exported
<1> DEFINE t == completed_again(r, s)
<1>1. ~r.exported /\ r.kind # "none" /\ r.reported # "none"
  BY DEF JobInv, JobFields, ExportInv, ThreadedInv, completion_fault
<1>2. r.kind = "spawned"
  BY DEF JobInv, JobFields, ThreadedInv
<1>3. r.cancelled
  BY <1>1, <1>2 DEF JobInv, JobFields, WatchInv, PendingInv
<1> USE DEF JobInv, HasFields, completed_again
<1>4. HasFields(t) OBVIOUS
<1>5. JobFields(t) BY DEF JobFields
<1>6. ExportInv(t) BY <1>1 DEF ExportInv
<1>7. ThreadedInv(t) /\ WatchInv(t) BY <1>2 DEF ThreadedInv, WatchInv
<1>8. PendingInv(t) BY <1>3 DEF PendingInv
<1>9. OutputInv(t) BY DEF OutputInv
<1>10. t.exported = r.exported OBVIOUS
<1>11. QED BY <1>4, <1>5, <1>6, <1>7, <1>8, <1>9, <1>10

\* What the completions report, whether the job is on the bus or not.
LEMMA IdleReports ==
  ASSUME NEW r, JobInv(r)
  PROVE  /\ idle_completed(r).reported = "failure"
         /\ idle_completed(r).told = r.got
         /\ idle_completed(r).kind = r.kind
BY DEF JobInv, HasFields, idle_completed, completed, unref, release_resources

LEMMA ChildReports ==
  ASSUME NEW r, JobInv(r)
  PROVE  /\ child_completed(r).reported = r.outcome
         /\ child_completed(r).told = r.got + r.pipe
         /\ child_completed(r).kind = r.kind
BY DEF JobInv, HasFields, child_completed, completed, release_resources

\* The reaper forgets the child.
LEMMA ReapInv ==
  ASSUME NEW r, JobInv(r), r.watch = "release", r.work = "zombie"
  PROVE  LET s == [r EXCEPT !.work = "reaped", !.watch = "none"]
         IN  JobInv(s) /\ s.exported = r.exported
<1> DEFINE s == [r EXCEPT !.work = "reaped", !.watch = "none"]
<1> USE DEF JobInv, HasFields
<1>1. HasFields(s) OBVIOUS
<1>2. r.kind = "spawned" /\ ~r.exported
  BY DEF JobFields, ThreadedInv, WatchInv, ExportInv
<1>3. JobFields(s) BY DEF JobFields
<1>4. ExportInv(s) /\ ThreadedInv(s) /\ WatchInv(s)
  BY <1>2 DEF ExportInv, ThreadedInv, WatchInv
<1>5. PendingInv(s) BY <1>2 DEF PendingInv
<1>6. OutputInv(s) BY <1>2 DEF OutputInv
<1>7. s.exported = r.exported OBVIOUS
<1>8. QED BY <1>1, <1>3, <1>4, <1>5, <1>6, <1>7

\* Reading and writing move chunks of output, and lose none.
LEMMA ReadInv ==
  ASSUME NEW r, JobInv(r), r.pipe > 0
  PROVE  LET s == [r EXCEPT !.pipe = @ - 1, !.got = @ + 1]
         IN  JobInv(s) /\ s.exported = r.exported
<1> DEFINE s == [r EXCEPT !.pipe = @ - 1, !.got = @ + 1]
<1> USE DEF JobInv, HasFields
<1>1. HasFields(s) OBVIOUS
<1>2. r.kind = "spawned" /\ r.watch = "job"
  BY DEF JobFields, ThreadedInv, OutputInv
<1>3. JobFields(s) BY DEF JobFields
<1>4. ExportInv(s) /\ ThreadedInv(s) /\ WatchInv(s) /\ PendingInv(s)
  BY <1>2 DEF ExportInv, ThreadedInv, WatchInv, PendingInv
<1>5. OutputInv(s) BY <1>2, BoundsAssumption DEF JobFields, OutputInv
<1>6. s.exported = r.exported OBVIOUS
<1>7. QED BY <1>1, <1>3, <1>4, <1>5, <1>6

\* The command moves a chunk into the pipe.
LEMMA WriteInv ==
  ASSUME NEW r, JobInv(r), r.kind = "spawned", r.work = "running",
         ~r.released, r.todo > 0
  PROVE  LET s == [r EXCEPT !.todo = @ - 1, !.pipe = @ + 1]
         IN  JobInv(s) /\ s.exported = r.exported
<1> DEFINE s == [r EXCEPT !.todo = @ - 1, !.pipe = @ + 1]
<1> USE DEF JobInv, HasFields
<1>1. HasFields(s) OBVIOUS
<1>2. JobFields(s) BY DEF JobFields
<1>3. ExportInv(s) /\ ThreadedInv(s) /\ WatchInv(s) /\ PendingInv(s)
  BY DEF ExportInv, ThreadedInv, WatchInv, PendingInv
<1>4. r.watch = "job" BY DEF JobFields, WatchInv, PendingInv
<1>5. OutputInv(s) BY <1>4, BoundsAssumption DEF JobFields, OutputInv
<1>6. s.exported = r.exported OBVIOUS
<1>7. QED BY <1>1, <1>2, <1>3, <1>5, <1>6

\* Feeding the command's input changes nothing else.
LEMMA StdinInv ==
  ASSUME NEW r, JobInv(r), r.stdin \in {"unsent", "sent"}
  PROVE  LET s == [r EXCEPT !.stdin = IF @ = "unsent" THEN "sent" ELSE "closed"]
         IN  JobInv(s) /\ s.exported = r.exported
<1> DEFINE s == [r EXCEPT !.stdin = IF @ = "unsent" THEN "sent" ELSE "closed"]
<1> USE DEF JobInv, HasFields
<1>1. HasFields(s) OBVIOUS
<1>2. JobFields(s) BY DEF JobFields
<1>3. ExportInv(s) /\ ThreadedInv(s) /\ WatchInv(s) /\ PendingInv(s)
        /\ OutputInv(s)
  BY DEF ExportInv, ThreadedInv, WatchInv, PendingInv, OutputInv
<1>4. s.exported = r.exported OBVIOUS
<1>5. QED BY <1>1, <1>2, <1>3, <1>4

\* The scheduler's thread moves from the queue to its answer.
LEMMA ThreadInv ==
  ASSUME NEW r, JobInv(r), NEW work \in {"running", "posted"},
         NEW outcome \in {"none", "success", "failure"},
         r.kind = "threaded", r.exported,
         work = "posted" => outcome # "none"
  PROVE  LET s == [r EXCEPT !.work = work, !.outcome = outcome]
         IN  JobInv(s) /\ s.exported = r.exported
<1> DEFINE s == [r EXCEPT !.work = work, !.outcome = outcome]
<1> USE DEF JobInv, HasFields
<1>1. HasFields(s) OBVIOUS
<1>2. JobFields(s) BY DEF JobFields
<1>3. ExportInv(s) /\ ThreadedInv(s) BY DEF ExportInv, ThreadedInv
<1>4. WatchInv(s) /\ PendingInv(s) /\ OutputInv(s)
  BY DEF WatchInv, PendingInv, OutputInv
<1>5. s.exported = r.exported OBVIOUS
<1>6. QED BY <1>1, <1>2, <1>3, <1>4, <1>5

\* A command exits; it succeeds only when it has written everything.
LEMMA ExitInv ==
  ASSUME NEW r, JobInv(r), r.kind = "spawned", r.work = "running",
         NEW result \in {"success", "failure"},
         result = "success" => r.todo = 0
  PROVE  LET s == [r EXCEPT !.work = "zombie", !.outcome = result]
         IN  JobInv(s) /\ s.exported = r.exported
<1> DEFINE s == [r EXCEPT !.work = "zombie", !.outcome = result]
<1> USE DEF JobInv, HasFields
<1>1. HasFields(s) OBVIOUS
<1>2. JobFields(s) BY DEF JobFields
<1>3. ExportInv(s) /\ ThreadedInv(s) BY DEF ExportInv, ThreadedInv
<1>4. WatchInv(s) BY DEF WatchInv
<1>5. PendingInv(s) BY DEF PendingInv
<1>6. OutputInv(s) BY DEF OutputInv
<1>7. s.exported = r.exported OBVIOUS
<1>8. QED BY <1>1, <1>2, <1>3, <1>4, <1>5, <1>6, <1>7

-----------------------------------------------------------------------------
\* A step that leaves the job where it was on the bus, and the counters alone.
LEMMA KeepsIndInv ==
  ASSUME IndInv, NEW j \in Jobs, NEW r, JobInv(r),
         r.exported = job[j].exported, Becomes(j, r),
         num_jobs' = num_jobs, DaemonTypeOK'
  PROVE  IndInv'
<1>1. r \in JobRecord BY FieldsMakeRecord DEF JobInv
<1>2. job' \in [Jobs -> JobRecord] BY <1>1 DEF IndInv, Becomes
<1>3. \A i \in Jobs : job'[i] = IF i = j THEN r ELSE job[i]
  BY DEF IndInv, Becomes
<1>4. \A i \in Jobs : JobInv(job'[i]) BY <1>3 DEF IndInv
<1>5. Exported' = Exported BY <1>3 DEF Exported
<1>6. JobsAreCounted' BY <1>5 DEF IndInv, JobsAreCounted
<1>7. QED BY <1>2, <1>4, <1>6 DEF IndInv

\* There are finitely many jobs, so the exported ones can be counted.
LEMMA ExportedFinite == IsFiniteSet(Exported)
<1>1. Exported \subseteq Jobs BY DEF Exported
<1>2. QED BY <1>1, JobsFinite, FS_Subset

\* A launch puts one more job on the bus and counts it.
LEMMA LaunchKeepsIndInv ==
  ASSUME IndInv, NEW j \in Jobs, NEW r, JobInv(r), r.exported,
         job[j].kind = "none", Becomes(j, r), job_launched
  PROVE  IndInv'
<1>1. r \in JobRecord BY FieldsMakeRecord DEF JobInv
<1>2. job' \in [Jobs -> JobRecord] BY <1>1 DEF IndInv, Becomes
<1>3. \A i \in Jobs : job'[i] = IF i = j THEN r ELSE job[i]
  BY DEF IndInv, Becomes
<1>4. \A i \in Jobs : JobInv(job'[i]) BY <1>3 DEF IndInv
<1>5. j \notin Exported BY DEF Exported, IndInv, JobInv, ExportInv
<1>6. Exported' = Exported \cup {j} BY <1>3 DEF Exported
<1>7. Cardinality(Exported') = Cardinality(Exported) + 1
  BY <1>5, <1>6, ExportedFinite, FS_AddElement
<1>8. JobsAreCounted'
  BY <1>7 DEF IndInv, JobsAreCounted, job_launched
<1>9. DaemonTypeOK' BY DEF IndInv, DaemonTypeOK, job_launched
<1>10. QED BY <1>2, <1>4, <1>8, <1>9 DEF IndInv

\* A completion takes one job off the bus and counts it out.
LEMMA CompletionKeepsIndInv ==
  ASSUME IndInv, NEW j \in Jobs, NEW r, JobInv(r), ~r.exported,
         job[j].exported, Becomes(j, r), job_counted_out
  PROVE  IndInv'
<1>1. r \in JobRecord BY FieldsMakeRecord DEF JobInv
<1>2. job' \in [Jobs -> JobRecord] BY <1>1 DEF IndInv, Becomes
<1>3. \A i \in Jobs : job'[i] = IF i = j THEN r ELSE job[i]
  BY DEF IndInv, Becomes
<1>4. \A i \in Jobs : JobInv(job'[i]) BY <1>3 DEF IndInv
<1>5. j \in Exported BY DEF Exported
<1>6. Exported' = Exported \ {j} BY <1>3 DEF Exported
<1>7. /\ Cardinality(Exported') = Cardinality(Exported) - 1
      /\ Cardinality(Exported') \in Nat
  <2>1. Cardinality(Exported \ {j}) = Cardinality(Exported) - 1
    BY <1>5, ExportedFinite, FS_RemoveElement
  <2>2. IsFiniteSet(Exported \ {j}) BY ExportedFinite, FS_Difference
  <2>3. Cardinality(Exported \ {j}) \in Nat BY <2>2, FS_CardinalityType
  <2>4. QED BY <1>6, <2>1, <2>3
<1>8. JobsAreCounted' /\ num_jobs' \in Nat
  BY <1>7 DEF IndInv, JobsAreCounted, job_counted_out
<1>9. DaemonTypeOK'
  BY <1>8 DEF IndInv, DaemonTypeOK, job_counted_out, maybe_finished
<1>10. QED BY <1>2, <1>4, <1>8, <1>9 DEF IndInv

-----------------------------------------------------------------------------
\* The daemon starts without jobs and with num_jobs = 0.
LEMMA InitIndInv == Init => IndInv
<1> SUFFICES ASSUME Init PROVE IndInv
  OBVIOUS
<1>1. DaemonTypeOK BY DEF Init, DaemonInit, DaemonTypeOK
<1>2. NoJob \in JobRecord /\ ~NoJob.exported
  <2>1. NoJob \in JobRecord BY NoJobInv, FieldsMakeRecord DEF JobInv
  <2>2. QED BY <2>1 DEF NoJob
<1>3. job \in [Jobs -> JobRecord] BY <1>2 DEF Init
<1>4. \A j \in Jobs : JobInv(job[j]) BY NoJobInv DEF Init
<1>5. Exported = {} BY <1>2 DEF Init, Exported
<1>6. JobsAreCounted
  BY <1>5, FS_EmptySet DEF JobsAreCounted, Init, DaemonInit
<1>7. QED BY <1>1, <1>3, <1>4, <1>6 DEF IndInv

\* A handler of the daemon moves no job.
LEMMA DaemonKeepsIndInv ==
  ASSUME IndInv, DaemonNext, UNCHANGED job
  PROVE  IndInv'
<1>1. DaemonTypeOK' /\ num_jobs' = num_jobs
  <2> USE DEF IndInv, DaemonTypeOK
  <2>1. CASE on_manager_ready BY <2>1 DEF on_manager_ready
  <2>2. CASE on_name_acquired BY <2>2 DEF on_name_acquired
  <2>3. CASE on_name_lost BY <2>3 DEF on_name_lost, maybe_finished
  <2>4. CASE on_client_appeared BY <2>4 DEF on_client_appeared
  <2>5. CASE on_client_disappeared
    <3>1. /\ num_clients' \in Nat
          /\ loop' \in {"running", "quitting", "exited", "aborted"}
      BY <2>5 DEF on_client_disappeared, maybe_finished
    <3>2. name_owner_id' \in BOOLEAN /\ name_owned' \in BOOLEAN
      BY <2>5 DEF on_client_disappeared
    <3>3. QED BY <2>5, <3>1, <3>2 DEF on_client_disappeared
  <2>6. CASE on_sigint BY <2>6 DEF on_sigint
  <2>7. CASE MainLoopReturns BY <2>7 DEF MainLoopReturns
  <2>8. QED
    BY <2>1, <2>2, <2>3, <2>4, <2>5, <2>6, <2>7 DEF DaemonNext
<1>2. JobsAreCounted'
  BY <1>1 DEF IndInv, JobsAreCounted, Exported
<1>3. QED BY <1>1, <1>2 DEF IndInv

\* Every step of a job, of its thread or child, and of a client that cancels
\* it, keeps the invariant.
LEMMA JobKeepsIndInv ==
  ASSUME IndInv, NEW j \in Jobs, JobNext(j)
  PROVE  IndInv'
<1> DEFINE r == job[j]
<1>1. JobInv(r) BY DEF IndInv
<1>2. UNCHANGED daemonVars => num_jobs' = num_jobs /\ DaemonTypeOK'
  BY DEF IndInv, daemonVars, DaemonTypeOK
<1>3. CASE launch_spawned_job(j)
  <2>1. PICK how \in {"precancelled", "spawn_fails", "runs"},
             input \in BOOLEAN, shared \in {FALSE, CallerCancellables} :
               /\ how = "precancelled" => shared
               /\ Becomes(j, [spawned_job_constructed(how, input, shared)
                                EXCEPT !.exported = TRUE])
    BY <1>3 DEF launch_spawned_job
  <2> DEFINE s == [spawned_job_constructed(how, input, shared)
                     EXCEPT !.exported = TRUE]
  <2>2. shared \in BOOLEAN BY BoundsAssumption
  <2>3. JobInv(s) BY <2>1, <2>2, SpawnedJobInv
  <2>4. s.exported BY DEF spawned_job_constructed, NoJob
  <2> HIDE DEF s
  <2>5. QED
    BY <1>3, <2>1, <2>3, <2>4, LaunchKeepsIndInv DEF launch_spawned_job, s
<1>4. CASE launch_threaded_job(j)
  <2>1. PICK pre \in BOOLEAN, shared \in {FALSE, CallerCancellables} :
               Becomes(j, [threaded_job_constructed(pre, shared) EXCEPT
                             !.exported = TRUE])
    BY <1>4 DEF launch_threaded_job
  <2> DEFINE s == [threaded_job_constructed(pre, shared) EXCEPT
                     !.exported = TRUE]
  <2>2. shared \in BOOLEAN BY BoundsAssumption
  <2>3. JobInv(s) BY <2>2, ThreadedJobInv
  <2>4. s.exported BY DEF threaded_job_constructed, NoJob
  <2> HIDE DEF s
  <2>5. QED
    BY <1>4, <2>1, <2>3, <2>4, LaunchKeepsIndInv DEF launch_threaded_job, s
<1>5. CASE cancel_called(j)
  <2>1. r.calls + 1 \in Nat BY <1>1 DEF JobInv, JobFields
  <2>2. QED BY <1>1, <1>2, <1>5, <2>1, CallsInv, KeepsIndInv DEF cancel_called
<1>6. CASE handle_cancel(j)
  <2>1. r.calls - 1 \in Nat /\ r.calls - 1 < r.calls
    BY <1>1, <1>6 DEF handle_cancel, JobInv, JobFields
  <2>2. CASE /\ ~r.cancelled
             /\ Becomes(j, unref([cancellable_cancel(r) EXCEPT !.calls = @ - 1]))
    <3> DEFINE c == cancellable_cancel(r)
               d == [c EXCEPT !.calls = c.calls - 1]
    <3>1. JobInv(c) /\ c.exported = r.exported /\ c.calls = r.calls
      BY <1>1, <2>2, CancelInv
    <3> HIDE DEF c
    <3>2. JobInv(d) /\ d.exported = c.exported BY <2>1, <3>1, CallsInv
    <3> HIDE DEF d
    <3>3. JobInv(unref(d)) /\ unref(d).exported = r.exported
      BY <3>1, <3>2, UnrefInv
    <3>4. Becomes(j, unref(d)) BY <2>2 DEF c, d
    <3>5. QED BY <1>2, <1>6, <3>3, <3>4, KeepsIndInv DEF handle_cancel
  <2>3. CASE Becomes(j, unref([r EXCEPT !.calls = @ - 1]))
    <3> DEFINE d == [r EXCEPT !.calls = r.calls - 1]
    <3>1. JobInv(d) /\ d.exported = r.exported BY <1>1, <2>1, CallsInv
    <3> HIDE DEF d
    <3>2. JobInv(unref(d)) /\ unref(d).exported = r.exported
      BY <3>1, UnrefInv
    <3>3. Becomes(j, unref(d)) BY <2>3 DEF d
    <3>4. QED BY <1>2, <1>6, <3>2, <3>3, KeepsIndInv DEF handle_cancel
  <2>4. QED BY <1>6, <2>2, <2>3 DEF handle_cancel
<1>7. CASE caller_cancels(j)
  BY <1>1, <1>2, <1>7, CancelInv, KeepsIndInv DEF caller_cancels
<1>8. CASE emit_completed_with_error_in_idle_cb(j)
  <2>1. CASE completion_fault(r) = "none"
    <3>1. r.exported /\ JobInv(idle_completed(r))
            /\ ~idle_completed(r).exported
      BY <1>1, <1>8, <2>1, IdleCompletedInv
         DEF emit_completed_with_error_in_idle_cb
    <3>2. QED
      BY <1>8, <2>1, <3>1, CompletionKeepsIndInv
         DEF emit_completed_with_error_in_idle_cb, Complete
  <2>2. CASE completion_fault(r) # "none"
    <3>1. DaemonTypeOK' /\ num_jobs' = num_jobs
      BY <1>8, <2>2 DEF emit_completed_with_error_in_idle_cb, Complete,
                        ProcessDies, IndInv, DaemonTypeOK
    <3>2. CASE completion_fault(r) = "null_output"
      <4>1. /\ JobInv([r EXCEPT !.fault = completion_fault(r)])
            /\ [r EXCEPT !.fault = completion_fault(r)].exported = r.exported
        BY <1>1, <1>8, <3>2, FaultInv DEF emit_completed_with_error_in_idle_cb
      <4>2. QED
        BY <1>8, <3>1, <3>2, <4>1, KeepsIndInv
           DEF emit_completed_with_error_in_idle_cb, Complete
    <3>3. CASE completion_fault(r) = "no_object"
      <4> DEFINE s == idle_completed(r)
      <4>1. s.reported = "failure" /\ s.told \in Nat
        BY <1>1, IdleReports DEF JobInv, JobFields
      <4>2. Becomes(j, completed_again(r, s))
        BY <1>8, <3>3 DEF emit_completed_with_error_in_idle_cb, Complete
      <4>3. r.idles > 0 BY <1>8 DEF emit_completed_with_error_in_idle_cb
      <4> HIDE DEF s
      <4>4. /\ JobInv(completed_again(r, s))
            /\ completed_again(r, s).exported = r.exported
        BY <1>1, <3>3, <4>1, <4>3, AgainInv
      <4>5. QED BY <3>1, <4>2, <4>4, KeepsIndInv
    <3>4. QED BY <2>2, <3>2, <3>3 DEF completion_fault
  <2>3. QED BY <2>1, <2>2
<1>9. CASE child_watch_cb(j)
  <2>1. CASE completion_fault(r) = "none"
    <3>1. r.exported BY <2>1 DEF completion_fault
    <3>2. JobInv(child_completed(r)) /\ ~child_completed(r).exported
      BY <1>1, <1>9, <3>1, ChildCompletedInv DEF child_watch_cb
    <3>3. QED
      BY <1>9, <2>1, <3>1, <3>2, CompletionKeepsIndInv
         DEF child_watch_cb, Complete
  <2>2. CASE completion_fault(r) # "none"
    <3>1. DaemonTypeOK' /\ num_jobs' = num_jobs
      BY <1>9, <2>2 DEF child_watch_cb, Complete, ProcessDies, IndInv,
                        DaemonTypeOK
    <3>2. CASE completion_fault(r) = "null_output"
      <4>1. /\ JobInv([r EXCEPT !.fault = completion_fault(r)])
            /\ [r EXCEPT !.fault = completion_fault(r)].exported = r.exported
        BY <1>1, <1>9, <3>2, FaultInv DEF child_watch_cb
      <4>2. QED
        BY <1>9, <3>1, <3>2, <4>1, KeepsIndInv DEF child_watch_cb, Complete
    <3>3. CASE completion_fault(r) = "no_object"
      <4> DEFINE s == child_completed(r)
      <4>1. r.watch = "job" /\ r.work = "zombie" BY <1>9 DEF child_watch_cb
      <4>2. r.kind = "spawned" /\ r.outcome # "none"
        BY <1>1, <4>1 DEF JobInv, JobFields, ThreadedInv, WatchInv
      <4>3. s.reported = r.outcome /\ s.told = r.got + r.pipe
        BY <1>1, ChildReports
      <4>4. s.reported \in {"success", "failure"} /\ s.told \in Nat
        BY <1>1, <4>2, <4>3 DEF JobInv, JobFields
      <4>5. s.reported = "success" =>
              r.work = "zombie" /\ r.outcome = "success" /\ s.told = MaxOutput
        BY <1>1, <4>1, <4>2, <4>3, BoundsAssumption
           DEF JobInv, JobFields, OutputInv
      <4>6. Becomes(j, completed_again(r, s))
        BY <1>9, <3>3 DEF child_watch_cb, Complete
      <4> HIDE DEF s
      <4>7. /\ JobInv(completed_again(r, s))
            /\ completed_again(r, s).exported = r.exported
        BY <1>1, <3>3, <4>1, <4>4, <4>5, AgainInv
      <4>8. QED BY <3>1, <4>6, <4>7, KeepsIndInv
    <3>4. QED BY <2>2, <3>2, <3>3 DEF completion_fault
  <2>3. QED BY <2>1, <2>2
<1>10. CASE child_watch_from_release_cb(j)
  BY <1>1, <1>2, <1>10, ReapInv, KeepsIndInv DEF child_watch_from_release_cb
<1>11. CASE read_child_stdout(j)
  BY <1>1, <1>2, <1>11, ReadInv, KeepsIndInv DEF read_child_stdout
<1>12. CASE write_child_stdin(j)
  BY <1>1, <1>2, <1>12, StdinInv, KeepsIndInv DEF write_child_stdin
<1>13. CASE thread_starts(j)
  <2>1. r.kind = "threaded" /\ r.exported
    BY <1>1, <1>13 DEF thread_starts, JobInv, JobFields, ThreadedInv, WatchInv
  <2>2. CASE r.cancelled
    BY <1>1, <1>2, <1>13, <2>1, <2>2, ThreadInv, KeepsIndInv DEF thread_starts
  <2>3. CASE ~r.cancelled
    <3>1. JobInv([r EXCEPT !.work = "running"])
            /\ [r EXCEPT !.work = "running"].exported = r.exported
      BY <1>1, <2>1 DEF JobInv, HasFields, JobFields, ExportInv, ThreadedInv,
                        WatchInv, PendingInv, OutputInv
    <3>2. QED BY <1>2, <1>13, <2>3, <3>1, KeepsIndInv DEF thread_starts
  <2>4. QED BY <2>2, <2>3
<1>14. CASE thread_returns(j)
  <2>1. PICK result \in {"success", "failure"} :
          Becomes(j, [r EXCEPT !.work = "posted", !.outcome = result])
    BY <1>14 DEF thread_returns
  <2>2. r.kind = "threaded" /\ r.exported
    BY <1>1, <1>14 DEF thread_returns, JobInv, ThreadedInv
  <2>3. QED
    BY <1>1, <1>2, <1>14, <2>1, <2>2, ThreadInv, KeepsIndInv
       DEF thread_returns
<1>15. CASE job_complete(j)
  <2>1. r.exported /\ JobInv(thread_completed(r))
          /\ ~thread_completed(r).exported
    BY <1>1, <1>15, ThreadCompletedInv DEF job_complete
  <2>2. completion_fault(r) = "none"
    BY <1>1, <2>1 DEF completion_fault, JobInv, ExportInv
  <2>3. QED
    BY <1>15, <2>1, <2>2, CompletionKeepsIndInv DEF job_complete, Complete
<1>16. CASE ChildWrites(j)
  BY <1>1, <1>2, <1>16, WriteInv, KeepsIndInv DEF ChildWrites
<1>17. CASE ChildFinishes(j)
  <2>1. PICK result \in {"success", "failure"} :
          /\ result = "success" => r.todo = 0
          /\ Becomes(j, [r EXCEPT !.work = "zombie", !.outcome = result])
    BY <1>17 DEF ChildFinishes
  <2>2. QED
    BY <1>1, <1>2, <1>17, <2>1, ExitInv, KeepsIndInv DEF ChildFinishes
<1>18. CASE ChildDies(j)
  BY <1>1, <1>2, <1>18, ExitInv, KeepsIndInv DEF ChildDies
<1>19. QED
  BY <1>3, <1>4, <1>5, <1>6, <1>7, <1>8, <1>9, <1>10, <1>11, <1>12, <1>13, <1>14, <1>15,
     <1>16, <1>17, <1>18
     DEF JobNext, MainLoopStep, ThreadStep, ChildStep

\* The invariant is inductive.
LEMMA NextIndInv == IndInv /\ [Next]_vars => IndInv'
<1> SUFFICES ASSUME IndInv, [Next]_vars PROVE IndInv'
  OBVIOUS
<1>1. CASE DaemonNext /\ UNCHANGED job BY <1>1, DaemonKeepsIndInv
<1>2. CASE \E j \in Jobs : JobNext(j) BY <1>2, JobKeepsIndInv
<1>3. CASE UNCHANGED vars
  <2>1. UNCHANGED job /\ UNCHANGED daemonVars BY <1>3 DEF vars
  <2>2. DaemonTypeOK' /\ num_jobs' = num_jobs
    BY <2>1 DEF IndInv, DaemonTypeOK, daemonVars
  <2>3. JobsAreCounted' BY <2>1, <2>2 DEF IndInv, JobsAreCounted, Exported
  <2>4. QED BY <2>1, <2>2, <2>3 DEF IndInv
<1>4. QED BY <1>1, <1>2, <1>3 DEF Next

\* The inductive invariant: every job satisfies JobInv, and num_jobs counts the
\* exported jobs, in every state the daemon can reach.
THEOREM IndInvHolds == Spec => []IndInv
BY InitIndInv, NextIndInv, PTL DEF Spec

\* The counters of the daemon and the records of its jobs keep their types
\* whatever is launched, cancelled or reported: num_jobs never goes below 0
\* (the second assertion of on_job_completed) and no job ever has more than
\* two completions queued.
THEOREM TypeCorrect == Spec => []TypeOK
<1>1. IndInv => TypeOK BY DEF IndInv, TypeOK
<1>2. QED BY <1>1, IndInvHolds, PTL

\* num_jobs is the number of jobs on the bus (launch_*_job, on_job_completed).
THEOREM JobsCounted == Spec => []JobsAreCounted
<1>1. IndInv => JobsAreCounted BY DEF IndInv
<1>2. QED BY <1>1, IndInvHolds, PTL

\* Only a cancelled spawned job can bring the daemon down in a completion.
THEOREM FaultsNeedCancel == Spec => []OnlyCancelFaults
<1>1. IndInv => OnlyCancelFaults
  BY DEF IndInv, OnlyCancelFaults, JobInv, JobFields, ThreadedInv, PendingInv
<1>2. QED BY <1>1, IndInvHolds, PTL

\* Every child of the daemon is watched until it is reaped.
THEOREM ChildrenWatched == Spec => []ChildIsWatched
<1>1. IndInv => ChildIsWatched
  BY DEF IndInv, ChildIsWatched, JobInv, JobFields, WatchInv
<1>2. QED BY <1>1, IndInvHolds, PTL

\* A success is reported with the whole output of a command that succeeded.
THEOREM OutputComplete == Spec => []SuccessHasAllOutput
<1>1. IndInv => SuccessHasAllOutput
  BY DEF IndInv, SuccessHasAllOutput, JobInv, OutputInv
<1>2. QED BY <1>1, IndInvHolds, PTL

\* The daemon stops by itself (maybe_finished) only in a step that leaves no
\* launched job unreported.
THEOREM StopsWhenDone == Spec => StopsOnlyWhenJobsAreDone
<1> DEFINE Stops == loop = "running" /\ loop' = "quitting" /\ ~signalled'
           Done  == \A j \in Jobs : job'[j].kind # "none" =>
                                      job'[j].reported # "none"
<1>1. ASSUME IndInv, IndInv', [Next]_vars, Stops PROVE Done
  <2>1. num_jobs' = 0
    <3>1. CASE DaemonNext
      BY <1>1, <3>1
         DEF DaemonNext, on_manager_ready, on_name_acquired, on_name_lost,
             on_client_appeared, on_client_disappeared, on_sigint,
             MainLoopReturns, maybe_finished, Idle, IndInv, DaemonTypeOK
    <3>2. ASSUME NEW j \in Jobs, JobNext(j) PROVE num_jobs' = 0
      BY <1>1, <3>2
         DEF JobNext, MainLoopStep, ThreadStep, ChildStep, daemonVars,
             launch_spawned_job, launch_threaded_job, cancel_called,
             handle_cancel, caller_cancels, emit_completed_with_error_in_idle_cb,
             child_watch_cb, child_watch_from_release_cb, read_child_stdout,
             write_child_stdin, thread_starts, thread_returns, job_complete,
             ChildWrites, ChildFinishes, ChildDies, Complete, ProcessDies,
             job_launched, job_counted_out, maybe_finished, Idle
    <3>3. QED BY <1>1, <3>1, <3>2 DEF Next, vars, daemonVars
  <2>2. Exported' = {}
    <3>1. \A i \in Jobs : ~job'[i].exported
      <4>1. SUFFICES ASSUME NEW i \in Jobs, job'[i].exported PROVE FALSE
        OBVIOUS
      <4>2. i \in Exported' BY <4>1 DEF Exported
      <4>3. Cardinality(Exported') = 0
        BY <1>1, <2>1 DEF IndInv, JobsAreCounted
      <4>4. IsFiniteSet(Exported')
        <5>1. Exported' \subseteq Jobs BY DEF Exported
        <5>2. QED BY <5>1, JobsFinite, FS_Subset
      <4>5. QED BY <4>2, <4>3, <4>4, FS_EmptySet
    <3>2. QED BY <3>1 DEF Exported
  <2>3. QED BY <1>1, <2>2 DEF Exported, IndInv, JobInv, ExportInv
<1>2. IndInv /\ IndInv' /\ [Next]_vars => [Stops => Done]_vars
  BY <1>1
<1>3. QED
  BY <1>2, IndInvHolds, PTL DEF Spec, StopsOnlyWhenJobsAreDone

-----------------------------------------------------------------------------
\* Somebody will carry r on: its completion is queued or its thread is, its
\* child has ended and is watched, or the child runs and it, the reader or the
\* writer of its pipes can go on.
IsCarriedOn(r) ==
  \/ r.idles > 0
  \/ r.kind = "threaded" /\ r.work \in {"queued", "running", "posted"}
  \/ /\ r.watch = "job"
     /\ ~r.released
     /\ \/ r.work = "zombie"
        \/ /\ r.work = "running"
           /\ \/ r.todo > 0 /\ r.pipe < PipeSize
              \/ r.todo = 0 /\ r.stdin \in {"none", "closed"}
              \/ r.pipe > 0
              \/ r.stdin \in {"unsent", "sent"}

\* A job that its caller waits for is carried on: no order of Cancel, exit and
\* completion leaves one without anybody to report it, and the command and its
\* readers never wait for each other.
NoJobIsForgotten ==
  \A j \in Jobs : job[j].kind # "none" /\ job[j].reported = "none" => IsCarriedOn(job[j])

\* The safety half of EveryJobIsReported: as long as a job was not reported, it
\* has a completion on its way, or a child that it watches and that is not
\* stuck, whatever was cancelled.
THEOREM JobsAreCarriedOn == Spec => []NoJobIsForgotten
<1>1. ASSUME NEW r, JobInv(r), r.kind # "none", r.reported = "none"
      PROVE  IsCarriedOn(r)
  <2>1. r.exported BY <1>1 DEF JobInv, ExportInv, JobFields
  <2>2. CASE r.kind = "threaded"
    BY <1>1, <2>1, <2>2 DEF JobInv, ThreadedInv, IsCarriedOn
  <2>3. CASE r.kind = "spawned" /\ r.work = "none"
    <3>1. r.idles \in {1, 2} BY <1>1, <2>1, <2>3 DEF JobInv, PendingInv
    <3>2. QED BY <3>1 DEF IsCarriedOn
  <2>4. CASE r.kind = "spawned" /\ r.work # "none"
    <3>1. ~r.released BY <1>1, <2>1 DEF JobInv, ExportInv, JobFields
    <3>2. r.work \in {"running", "zombie"} /\ r.watch = "job"
      BY <1>1, <2>1, <2>4, <3>1 DEF JobInv, WatchInv
    <3>3. (r.todo > 0 /\ r.pipe < PipeSize) \/ r.todo = 0 \/ r.pipe > 0
      BY <1>1, BoundsAssumption DEF JobInv, JobFields
    <3>4. r.stdin \in {"none", "unsent", "sent", "closed"} BY <1>1 DEF JobInv, JobFields
    <3>5. QED BY <3>1, <3>2, <3>3, <3>4 DEF IsCarriedOn
  <2>5. QED BY <1>1, <2>2, <2>3, <2>4 DEF JobInv, JobFields
<1>2. IndInv => NoJobIsForgotten BY <1>1 DEF IndInv, NoJobIsForgotten
<1>3. QED BY <1>2, IndInvHolds, PTL
=============================================================================
