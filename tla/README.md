# storaged: specifications and proofs

storaged is a D-Bus service that publishes LVM volume groups, logical volumes
and physical volumes as objects and offers methods to change them. This
directory models its daemon in TLA+. TLC checks the models on small instances.
For every instance TLAPS proves all their safety properties, and that two of
the models implement an abstract one. File names without a
directory are those of `src/`.

## The system

| part | state | operations | how it interacts |
|---|---|---|---|
| daemon (`daemon.c`) | bus name, `num_clients`, `num_jobs`, manager | own and lose the name, count clients and jobs, publish and unpublish objects, stop | called by everything below on the main loop |
| main (`main.c`) | the main loop | quit on a signal or on "finished" | runs all handlers |
| jobs (`job.c`, `spawnedjob.c`, `threadedjob.c`) | child process or scheduler thread, cancellable, buffers, queued completions | launch, Cancel, read and write pipes, reap, complete | child processes and threads report to the main loop; "completed" is counted by the daemon and answers method calls |
| invocation (`invocation.c`) | table of clients with their credentials, under a mutex | create a client on its first call, store its user, drop it, authorize a call | GDBus worker thread, one thread per call, main loop |
| manager (`manager.c`) | table of volume groups, 100 ms timer, update records, block overlays | coldplug, updates by list and show, uevents, VolumeGroupCreate | helper processes answer on the main loop |
| volume groups (`volumegroup.c`) | last info, logical and physical volumes, poll timer and pid | take an answer, publish, dispose, poll, 10 methods | fill block overlays; methods wait for "published" |
| logical volumes (`logicalvolume.c`) | group, device, publication | take an entry of the answer, 6 methods | methods wait for a job or for "published" |
| blocks (`block.c`, `physicalvolume.c`) | interfaces of one device | point at a group or a logical volume | udisks announces the devices |
| helper (`helper.c`) | none | list names, show a group | a process of its own |
| utilities (`util.c`) | none | object paths, wipe a device, check an exit status | |

What is hard here: several completions of one job race (Cancel, child exit,
failed spawn); output must be drained while the command runs and once more
after it exits; four kinds of thread share the client table; helpers of
overlapping updates answer in any order; a method is answered by whichever of
two signals comes first, and both share one closure; a cancelled job may
complete twice; a poll is told from an
older one by a pid that may be used again, and knows nothing of updates; names
are escaped to object paths that may be taken; devices are checked, then wiped
one by one while others use them; the daemon stops by itself when counts reach
zero. `PROJECT.json` lists the hazards line by line.

What makes each part correct: a job is reported once, with its whole
output, and its child is reaped; counts agree with what they count, so the
daemon neither stops under a job nor lives for ever; only authorized calls
reach handlers; what is published is what LVM has, once nothing is under way;
every call is answered once, and nobody uses a closure that was freed; a group
is freed when nothing can reach it; links between volumes, blocks and groups
lead to what they name; a device that somebody has open is never touched. The
code does not keep all of this: each property states the exceptions, and the
findings in `PROJECT.json` name them.

## Modules

| module | models | state and actions |
|---|---|---|
| `Daemon` | `daemon.c`, `main.c` | the counters, the name and the loop; one action or sub-action per handler. No behaviour of its own: `Jobs` and `Invocation` extend it |
| `Service` | what the daemon promises to whoever asks | requests and their answers, the phase of the daemon. Abstract: `Jobs` and `MethodReply` implement it |
| `Jobs` | `job.c`, `spawnedjob.c`, `threadedjob.c`, the launches and `on_job_completed` of `daemon.c` | one record per job; operators between the rulers say what a function of the C code does to the record, actions are the callbacks of the main loop, the thread's steps and the child's |
| `JobsProofs` | | theorems about `Jobs` |
| `JobsServiceProofs` | | the theorem that `Jobs` implements `Service` |
| `Invocation` | `invocation.c` | table, credentials, messages on the bus (in order per client), calls and their stage, the main loop's queue |
| `LvmUpdate` | updates in `manager.c`, `volumegroup.c`, `block.c`, `helper.c` | LVM itself, updates in flight, shows in flight, the table, group objects (named by the update that made them), links of overlays |
| `MethodReply` | the methods of `manager.c`, `volumegroup.c`, `logicalvolume.c` | what LVM has, what is published, and per call its job, closure and answer |
| `Poll` | polling in `volumegroup.c`, `storage_daemon_spawn_for_variant` and its callbacks in `daemon.c` | LVM's contents, the group's reference count, `info`, timer, pending request and pid, and the helpers as processes with pids |
| `Devices` | `VolumeGroupCreate` in `manager.c`, `AddDevice`, `RemoveDevice`, `Delete` in `volumegroup.c`, `storage_util_wipe_block` and `storage_util_check_status_and_output` in `util.c`, `is_unused` in `block.c` | what is on each device, who has it open, and per call the devices to wipe and the step it is at |
| `Volumes` | logical volumes in `volumegroup.c`, `logicalvolume.c`, object paths in `util.c`, the object table of `daemon.c`, logical-volume links in `block.c` | the group's volumes in LVM, objects of the group (named by the update that made them) with their tables, the published paths, the overlays |
| `InvocationProofs`, `LvmUpdateProofs`, `MethodReplyProofs`, `PollProofs`, `DevicesProofs`, `VolumesProofs` | | theorems about the module each is named after |
| `MC*` | | values of constants for TLC |

Names of actions and operators are the functions' names. Operators ending in a
word such as `_twice`, `_early`, `_undrained` and marked "Mutant" are wrong
variants of the definition after them, used to see that a property notices.

Abstractions worth knowing:

- stdout and stderr are one stream, counted in chunks.
- No caller in the daemon passes a GCancellable to a launch. The API allows it;
  `CallerCancellables` switches it on.
- A handler that runs after `g_main_loop_quit` is possible: the loop is
  "quitting" until `g_main_loop_run` returns.
- polkit's decision is a choice. The messages shown to the user are left out.
- The helper reads LVM at one moment. Under `-f` (coldplug) it takes no lock
  and may report any devices for a group that exists. A spawn that fails is a
  failed answer.
- In `LvmUpdate` a logical volume is the reference it holds on its group
  (`kept`): it is never dropped, so a removed group with volumes lives on. Polls
  and calls that wait hold a group too, for a while (`pinned`); the constant
  `Called` says of which names. `build_object_path` gives each name its path,
  and names may share one, as the escaping of `util.c` lets them: `publish`
  takes the path from whoever has it, and the other is not published again.
- In `Jobs` and `MethodReply` a second completion of a cancelled job reaches the
  caller's handler before `on_job_completed`, which was connected after it, and
  brings the daemon down.
- In `MethodReply` the things that are published are groups, logical volumes and
  the blocks of active ones, and the updates of `LvmUpdate` and `Volumes` are the
  announcements they end in, in any order. A closure compares with an object,
  its group or its volume; once that was disposed of (`stale`), what comes under
  the same name is another object and the call hears nothing, except that an
  Activate takes a block without a path for its own. Every thing has its own
  path here; names that share one are in `LvmUpdate` and `Volumes`. A fault ends
  the behaviour.
- In `Poll` the contents of the group are one value. A helper is reaped by
  GLib's worker before its callback runs, so its pid may be given to another
  helper in between; `pid_reused` remembers that, and the properties name it
  where the code does not survive it. Other processes have no pids here: that
  `poll_now` may signal one of them in this window is said by `OnePollRuns`, not
  excluded. A call is authorized (`waiting`) while its group may be removed.
- In `Devices` a wipe is three steps (open the device for itself, write the
  first sector and close, run wipefs), each of which may fail or find the device
  in use. `RemoveDevice` has the third only. A device with active volumes that
  nobody has open is "active": `vgremove -f` takes it, all else refuses it. A job
  may be cancelled: a thread only before it starts, `vgextend` also after its
  effect. An LVM command that fails has changed nothing.
- In `Volumes` a list is read at the moment its answer is taken, one poll is
  under way at a time (`LvmUpdate` and `Poll` have the other orders), and the
  links to a pool and to an origin, found in the same way, are one link. Names
  are sequences of characters, because the escaping of `util.c` matters here.
  `Lists` is the set of answers the helper may give.
- History variables: `reported`, `told` and `outcome` of a job; `granted`,
  `failed` and `ran` of a call in `Invocation`; `by`, `dropped` and `listed_by`
  in `LvmUpdate`; `answer`, `missed` and `stale` in `MethodReply`; `calls`,
  `pid_reused`, `shown_by`, `poll_shown`, `served`, `current` and a helper's
  `killed` and `covers` in `Poll`; `erased`, `ran` and `disturbed` in `Devices`;
  `by` in `Volumes`. No guard of
  the code's actions reads one, except that a child watch reports `outcome`,
  which stands for the exit status, and that `stale` stands for the comparison
  of two pointers or paths.

## Runs

| run | instance | shows |
|---|---|---|
| `jobs` | two jobs, one client, one Cancel each; symmetric; 1.7 million states | the job count is the number of exported jobs; `maybe_finished` stops the daemon only when all are reported; the jobs implement `Service`: a second answer only after a failure, in the daemon's last step |
| `one_job` | one job, output of 3 in a pipe of 1, two Cancels, caller's cancellable | types; a success has all its output; only Cancel leads to a fault; children are watched; liveness: jobs are reported, children reaped, a cancelled command ends |
| `job_completion` (violation) | one job | `g_assert (object != NULL)` in `on_job_completed` fails for a cancelled job |
| `invocation` | two clients, three calls; 5 million states | the client count; no assertion fails but for a caller that has left; only failed lookups slip through; the daemon stops only without clients |
| `invocation_live` | two clients, a call each | a client that stays is answered |
| `lvm_update` | two groups, one device, two changes after coldplug starts; 2.4 million states | update records outlive their shows; published objects are in the table; links name groups that list the device; when quiet, the table is what LVM has |
| `lvm_cold` (violation) | two groups, no change, helpers fail | one failed show: no warmplug |
| `lvm_clash` | two groups with one path, one of them held by polls and calls, one device, one change, helpers fail; 0.7 million states | one object per path; links are stale or NULL only where a path was taken over or a removed group is held; when quiet, the table is what LVM has; coldplug ends, but for a failed list or a show that ended early |
| `method_reply` | one call, two groups with a volume each and its block; 0.5 million states | which orders misuse a closure; a second answer comes only from a cancelled command, and with it the end; every call is answered, unless there is nothing to announce or its object has gone; the calls implement `Service` |
| `poll` | two changes, two calls of Poll, three pids; 0.7 million states | references are balanced; one poll runs, and only the newest poll's pid is signalled, until its answer is taken; polls are shown in order; what is shown is current unless a poll was shown last; when calls cease, the last one is served |
| `devices` | two calls, two devices, two groups; 3.2 million states | a device that is open keeps its contents, and one with active volumes but for a Delete; a call erases all or nothing unless it was disturbed; the answer tells what happened, but for a cancelled AddDevice |
| `volumes` | four names of which two share a path, one block, three updates, one poll; 2.4 million states | published paths belong to the group in the table; links lead to the pool; an overlay shows its volume |

The violation runs show disagreements between the code and what a comment or an
assertion beside it says; `findings` in `PROJECT.json` quotes both. Findings
without such a run name the passing property whose exception is exactly the
case.

The type invariants of `Invocation`, `MethodReply`, `Devices` and `Volumes` are
proved for every instance (`TypeCorrect`, `VolumesTypes`) and have no place in
the runs; those of `Jobs`, `LvmUpdate` and `Poll`, which bound counters and
queues, are checked as well.

Why the bounds are enough. Jobs do not see each other except through the
counters, so two of them show every order of launches and completions; a pipe
shorter than the output is what matters, not by how much; a second Cancel is
refused, a third is like the second. The proofs remove the bounds of `Jobs`
altogether. Two clients suffice for "the last one leaves while another
arrives", and two calls of one client for "created on the first call only".
Two changes remove a group and make it again, or move a device, while coldplug,
the warmplug and both changes' updates overlap. One change and one name held
by calls suffice for a path that is taken over, given back and taken again by
the update of the other group. In `MethodReply` one call suffices: calls touch
each other only through what LVM has and what is published, which others change
in any way (`SomebodysCommand`), and two groups make a rename. A rename of a
volume within its group differs from that only in the group object it holds,
as a volume's creation does. The proofs hold for any number of calls and names.
Two calls of Poll make a second one that finds the timer set, or a helper to
kill, with an update on either side of it; three pids for four helpers make one
of them used again. Two devices make a first half and a second half, two calls
make one device wanted twice. The lists of `MCVolumes` have a pool before and
after its thin volume, a clash of paths and a hidden volume; three updates make
the group, remove it and make it again while the helper of the first object is
still under way.

Deadlock checking is off where the daemon may stop (`Jobs`, `Invocation`) or
where the calls, changes and updates may all be done (`MethodReply`, `Poll`,
`Devices`, `Volumes`).

Fairness. The main loop dispatches each source that stays ready (same priority,
no starvation), GIO's scheduler runs every job pushed, threads run, the bus
answers and polkit answers. `Jobs` assumes nothing of a command but that it
stops after SIGTERM; `EveryJobIsReported` has the premise `CommandsWork`,
`CancelEndsTheCommand` has not. `LvmUpdate` assumes that a helper ends, with or
without a result, and nothing of the polls and calls that hold a group.
`MethodReply` assumes that jobs end (`EveryJobIsReported`)
and that the daemon catches up with LVM (`CurrentWhenQuiet`). `Poll` assumes
that idle calls, the timer and child watches are dispatched and that a helper
ends; `CallsAreServedInTheEnd` has the premise that calls cease. While they go
on, `poll_now` kills a helper that takes longer than 5 s for the next one, and
nobody need ever be served. No fairness is
assumed of clients, of udisks or of LVM.

`CurrentWhenQuiet` has a premise: the answers taken last are those of the
newest update. Nothing in the code orders the helpers, and without the premise
an old list taken after a newer one leaves the table out of date until the next
uevent. `OnlyPollsMislead` adds what polls do to this: an update is compared
with the last update, never with the last poll.

## The abstract service

`Service` has a request per job or call. A request is accepted or refused,
answered once and keeps its answer; the daemon finishes by itself only
when nobody waits; after it has gone nothing happens. A failed assertion is the
same as leaving. There is one exception, `AnswerAgain`: a request that has
failed may be answered again in the step in which the daemon dies, which is what
the second completion of a cancelled job does (`spawnedjob.c:722`,
`daemon.c:436`). A success is final.

- `Jobs`: `job_request` is "accepted" from the launch to the completion signal,
  then its result; `daemon_phase` is the main loop, "quitting" being "told"
  after a signal and "finished" after `maybe_finished`. `JobsAreAService` is
  checked with two jobs and proved for any.
- `MethodReply`: `call_request` is "accepted" from the handler to the answer.
  `CallsAreAService` is checked with one call and proved for any number.

## Proofs

`JobsProofs` proves, for every finite set of jobs and all bounds,

- `TypeCorrect`, `JobsCounted`, `FaultsNeedCancel`, `ChildrenWatched`,
  `OutputComplete`: the invariants of the runs `jobs` and `one_job`;
- `StopsWhenDone`: the action property of run `jobs`;
- `JobsAreCarriedOn`: the safety half of `EveryJobIsReported`. A job that was
  not reported has its thread, a completion on its way or a child that it
  watches; and such a child is not stuck: it can write, exit, or the daemon can
  read from it or write to it;

and `JobsServiceProofs`

- `JobsImplementService`: the refinement of run `jobs`.

Assumptions: `JobsFinite` and `BoundsAssumption` of `Jobs` (the set of jobs is
finite, bounds are natural numbers, a pipe holds something).

None of the invariants is inductive. `num_jobs` could be lowered by a second
completion unless one knows that a job still exported is exactly one not yet
reported; that a completion finds it exported depends on who may still
complete it. The inductive invariant is one property of a single record,
`JobInv`, held by every job, with the count beside it:

- `ExportInv`: exported means launched and not reported; released means gone;
- `WatchInv`: who watches the child, as a function of its state and of
  `released`;
- `PendingInv`: the completions still to come: exactly one without Cancel,
  the second needs `cancelled`, none after `release_resources` but a queued one;
- `ThreadedInv`: a threaded job has only its thread;
- `OutputInv`: written, unread and read chunks add up until the watch has run;
- `HasFields`, `JobFields`: the record's type, split so that the provers never
  meet the set of all records.

Each record operator has a lemma that it keeps `JobInv` where its action may
be taken; three lemmas (`KeepsIndInv`, `LaunchKeepsIndInv`,
`CompletionKeepsIndInv`) lift these to the state and do the counting;
`JobKeepsIndInv` has one step per action.

The refinement needs one fact more, `SignalInv`: while the loop runs there was
no signal, so a handler that stops it maps to "finished". `JobStepMaps` has one
step per action. A launch is `Accept`, by the guard that the job is new. A
completion is `Answer`, because `completion_fault` finds the job exported and
`ExportInv` then says that it is not reported yet, and because `WatchInv` and
`ThreadedInv` give the child watch and the thread a result; or it faults and is
`Leave`, or `AnswerAgain` if the job had completed before: that was a Cancel,
so that the first answer was a failure. `NobodyWaits` turns `num_jobs = 0` into "every job launched is
reported" by the count and `ExportInv`. All else changes neither a job's kind
nor its report.

### The other modules

Each proof module has an inductive invariant `IndInv`, which was checked with
TLC on the instance of the module's run. `InitIndInv` starts it, one lemma per
action or group of actions keeps it, and `IndInvHolds` concludes; the theorems
about the properties of the runs follow. Records are described by their fields
(`IsCall`, `IsHelper`, ...) and each update of a record is an operator with a
lemma of its own. Where a theorem needs more of the state than the run's
invariants do, there is a second invariant (`CallsInv`, `TaskInv`,
`RememberInv`, `KeptInv`), kept by the steps of states that satisfy `IndInv`, and checked
with TLC in the same way.

`MethodReplyProofs`: `TypeCorrect`, `FaultsAreEarlyOrCancelled`,
`SecondAnswersAreTheLast` and the refinement `CallsImplementService`, for any
calls, groups and volumes (`NamesAssumption`: there is a group name, and the word
for "no volume" is no volume's). None of them is inductive: the job's completions
and the announcement may all answer. `CallInv` says of a single call who still
owes the answer: a live closure goes with no answer, a freed one with an answer,
a call without a closure is owed its answer until its job has completed; and that
a job has completed when its command is over or a Cancel of it was carried out,
and then as a failure. The step that uses a freed closure is then the completion
of a job whose announcement came first, or the second failure of a cancelled one;
the step that answers again is the second completion of a cancelled command that
nothing is published for. In the refinement a handler is `Accept` or `Refuse`, the
first of the signals `Answer`, and a later one a stutter or, with a fault, `Leave`
or `AnswerAgain`.
`CallsAreNotForgotten` is the safety half of `AnsweredUnlessMissed`: a caller
that waits has its job under way, or what it waits for is in LVM and still to be
published, or it was missed, or the object that its closure holds has gone.
`RememberInv` adds to `IndInv` that this holds from the moment the command has
worked.

`LvmUpdateProofs`: `TypeCorrect`, `UpdatesOutliveShows`,
`PublishedObjectsAreInTable`, `LinksAreKept`, `QuietMeansCurrent`, for finite
sets of groups and devices and any number of changes, with helpers that fail or
not (`SetsFinite`, `CalledAssumption`, `PathsAreNoStates`: the words for "no link"
are no paths, `VolumesAssumption`, `BoundsAssumption`). Nothing is assumed of the
mapping of names to paths: where two names share one (`Shared`) the properties say
what is lost. `UpdateInv` has the count: a show
belongs to an update that is still showing, and `pending` is their number plus
those that ended without a call of `done()`. `GroupInv` and `ShowInv` say why a
late answer publishes nothing: an object outside the table has lost
`need_publish`; and that a group in the table which has lost its path shares it.
`LinkInv` is what a link means: its path is that of a published group that lists
the device or has just taken the path over, and a link without a path belongs to
a group without one that somebody holds. `CurrentWhenQuiet` needs two more parts, of which it says
nothing itself: `WarmInv`, that what was read for the newest update is what LVM
has as long as no event and no timer is pending, and `ColdInv`, that coldplug,
which may have read nonsense, always leads to a second update or leaves a group
without an answer. `FreedUpdatesStayFreed` is the action property that no
callback writes to an update after `g_free (data)`. `ColdplugIsNotForgotten` is
the safety half of `ColdplugEnds`: until its task is returned coldplug has an
answer to come, or its list failed, or a show ended without a call of `done()`.
`TaskInv` says that the first update alone has a task, and that it is returned
when that update is freed.

`PollProofs`: `TypeCorrect`, `ReferencesBalance`, `OnlyOnePollRuns`,
`UpdatesAreShown` and the action property `PollsStayInOrder`, for any contents
and pids, any number of changes and calls (`ContentsAssumption`,
`PidsAssumption`: 0 is no pid, `BoundsAssumption`). `BudgetInv` counts helpers
against changes and calls; `HelpersInv` has the order of the helpers and that
two of them which were not taken have different pids unless one was used again;
`ShownInv` relates `info`, what is shown and the newest update.
`CallsAreRemembered` is the safety half of `CallsAreServedInTheEnd`: a call of Poll
that was not served has an idle call, a request noted beside a running timer, or
a poll that was started after it and whose answer will be taken; `ServedStaysServed`
says that nothing takes this back. Both except a pid used again. `CallsInv`
adds that a request is noted only while the timer runs, and that the poll whose
pid is noted is not older than one that was shown.

`DevicesProofs`: `TypeCorrect`, `ErasesAreAtomic`, `AnswersAreTrue` and the
action property `UsersKeepTheirData`, for any calls, groups and finite set of
devices (`FiniteAssumption`, `NamesAssumption`: the words for "nobody" and
"nothing" are no names). `CallInv` says per step what a call has erased: the
devices before the one at hand. `ExclInv` is why a user's data survives: whoever
writes has the device open with O_EXCL, and `vgremove`, which takes active
volumes, none that is open. `MemberInv` is why the commands of LVM
touch labelled devices only.

`InvocationProofs`: `TypeCorrect`, `CountsFollowTheTable`,
`FaultsNeedDepartedCallers`, `HandlersNeedPermission` and the action property
`StopsWithoutClients`, for any calls and finite set of clients
(`CallerAssumption`, `ClientsFinite`, `MessagesAssumption`: a call is not one of
the bus's answers). The two queues enter through the set of their elements, that
each occurs once, and the order of two kinds (`OrderInv`): nothing but a failed
answer follows "vanished" on the bus, and "appeared" is before "disappeared" on
the main loop. `ClientInv` says what may be queued of a client in each of its
states, so that a call is never read for a client that is gone and a good answer
never finds one missing; `LinkInv` and `GoodCall` say the same of a call.
`CountInv` counts the clients in the table or leaving it that are not still to
be counted in; `SourcesAreClients` turns queued sources into clients by a
bijection. `CallsAreKept` is the safety half of `EveryCallIsAnswered`: an
unanswered call is on the bus, among the sources of the main loop, in its
thread or a job, or waits for credentials that came or are to come. A caller that
has left the bus is the exception: the answer no longer finds its client, and the
thread waits for ever. `KeptInv` is the converse of `LinkInv`, and says that the
bus still owes the credentials of a client in the table that has none.

`VolumesProofs`: `VolumesTypes`, `VolumesHidden`, `VolumesLinks` and
`VolumesOverlays`, for any names, any lists the helper may answer and any number
of updates, polls and renames (`NamesAssumption`: names are finitely many,
`ListsAssumption`: a list names a volume once, `BoundsAssumption`). An answer is
taken by a loop over its list, which creates a volume, publishes it or finds its
path taken, and links it to a pool that may come before or after it. In the model the loop is a
recursive function of the position, `update_listed`; `SetInduction`, from `WFMin`
of `WellFoundedInduction`, takes a set of positions where the library's induction
takes an operator, and `LoopInvariant` says what has been done after each
position. `IndInv` is, beside the types, that the table of each object matches
the answer it took last (`TablesMatchInfo`), that no object is ahead of the
newest update (`NothingAheadOfLast`), that only the object in the manager's table
has paths and its volumes hold all paths that are taken (`OnlyTheTableIsPublic`,
`ExportedByTheTable`), and what links and overlays show (`LinksLeadToThePool`,
`OverlaysOfTheTable`). `VolumesWithoutClashes` says that paths shared by two
names are the only exception: where the names are escaped apart
(`NamesTellPathsApart`) every volume of the group in the table is published and
its link leads to its pool, or is "/" because the pool was listed after it.

### Only model-checked

- Liveness (`EveryJobIsReported`, `EveryChildIsReaped`, `CancelEndsTheCommand`,
  `EveryCallIsAnswered`, `ColdplugEnds`, `AnsweredUnlessMissed`,
  `CallsAreServedInTheEnd`): fairness and ENABLED are out of this prover's reach.
  The half that needs neither, that nothing which is waited for is forgotten, is
  proved for jobs, calls, methods, coldplug and polls (`JobsAreCarriedOn`,
  `CallsAreKept`, `CallsAreNotForgotten`, `ColdplugIsNotForgotten`,
  `CallsAreRemembered`); what TLC adds is that what is under way ends.
- What the escaping of names (`util.c`) computes: it is a fold over the
  characters, which the proofs of `Volumes` leave open. They hold whatever
  a name becomes, with or without clashes; TLC computes the paths of the instance.

## Not modelled

- Option parsing, logging, formatting of variants, translations, the generated
  D-Bus stubs, polkit's dialogue, `storage_util_trigger_udev` and the test
  programs: I/O without a decision.
- The progress estimation of `job.c`: no caller turns `auto-estimate` on, so
  that its sample window is never used. `storage_job_add_thing` is called once per
  job, so that its list never grows.
- The helper's reading of LVM and its answer's layout (`helper.c`): an answer
  is what LVM has at one moment, or a failure.
- The number of open descriptors: `daemon.c` leaves the read end of each
  helper's pipe open (`PROJECT.json`, hazard at `daemon.c:762`). The models
  bound the helpers far below a limit; a spawn that fails is one of their
  outcomes.
- One model of everything: updates of several groups (`LvmUpdate`), the
  volumes of one group (`Volumes`) and its polls (`Poll`) are separate because
  their product is out of TLC's reach. They meet in `update_with_variant`,
  which each of them has with the part of its effect it is about.

## Plan

What is left: the abstract view of a client, as `Service` is of a call, and that
`Invocation` implements it but for failed lookups.
