---------------------------- MODULE MethodReply ----------------------------
(***************************************************************************)
(* How the methods of the manager, of volume groups and of logical volumes *)
(* are answered (handle_* in manager.c, volumegroup.c, logicalvolume.c).   *)
(* A handler refuses the call at once, or launches a job and then either   *)
(*   - answers when the job has completed, or                              *)
(*   - waits with a CompleteClosure for two signals: "completed" of the    *)
(*     job, which answers if the job failed, and "published" of the        *)
(*     daemon, which answers when the object the call makes shows up.      *)
(* The closure belongs to the "published" handler: whoever answers first   *)
(* disconnects that handler, and this frees the closure, while the job     *)
(* still has its address.                                                  *)
(*                                                                         *)
(* The jobs are those of Jobs: a spawned job that is cancelled may         *)
(* complete twice, or find its buffers gone.  The updates of LvmUpdate and *)
(* Volumes appear as the announcements they lead to.                       *)
(***************************************************************************)
EXTENDS Naturals

CONSTANTS
  Groups,    \* names of volume groups
  Volumes,   \* names of logical volumes within a group
  NoVolume,  \* the volume name of a thing that is a group
  Calls      \* the method calls that may ever arrive

ASSUME NamesAssumption == Groups # {} /\ NoVolume \notin Volumes

\* A volume group, a logical volume of it, the block device of an active one.
Group(g)     == [kind |-> "group", group |-> g, volume |-> NoVolume]
Volume(g, v) == [kind |-> "volume", group |-> g, volume |-> v]
Block(g, v)  == [kind |-> "block", group |-> g, volume |-> v]

GroupThings  == {Group(g) : g \in Groups}
VolumeThings == {Volume(g, v) : g \in Groups, v \in Volumes}
BlockThings  == {Block(g, v) : g \in Groups, v \in Volumes}
Things       == GroupThings \cup VolumeThings \cup BlockThings

\* What goes when t goes: t and all that it holds.
Within(t) ==
  {u \in Things :
     /\ u.group = t.group
     /\ t.kind # "group" => u.volume = t.volume
     /\ t.kind = "block" => u.kind = "block"}

\* What holds t is in S.
IsHeldIn(t, S) ==
  CASE t.kind = "group"  -> TRUE
    [] t.kind = "volume" -> Group(t.group) \in S
    [] OTHER             -> Volume(t.group, t.volume) \in S

VARIABLES
  there,    \* what LVM has
  seen,     \* what the daemon has published, a block with or without the path
            \* of its volume
  call,     \* call[c]: one method call and its job
  fault     \* "none", or what brought the daemon down

vars == <<there, seen, call, fault>>

\* "command" is how far the LVM command of the job has got: it "runs", it has
\* had its effect ("worked"), the thread of VolumeGroupCreate has told udev
\* ("nudged"), it is "over".  "cancel" says whether a Cancel was accepted and
\* whether its idle callback has run, "result" what the job said when it
\* completed, the last time.
\* Two histories tell why a call may hear of nothing.  "missed": there was
\* nothing left to announce, because what it awaits was published already when
\* the command had its effect, went away before it was published, or became
\* visible without a "published" signal.  "stale": the object that the closure
\* holds to compare with has been disposed of, and what comes now at the same
\* path is another object.
CallRecord ==
  [method  : {"none", "vg_create", "vg_rename", "lv_create", "lv_rename",
              "activate", "deactivate", "vg_delete", "lv_delete",
              "remove_device", "change"},
   on      : Things,
   awaits  : Things,
   command : {"none", "runs", "worked", "nudged", "over"},
   cancel  : {"no", "asked", "done"},
   result  : {"none", "success", "failure"},
   closure : {"none", "live", "freed"},
   replies : 0..2,
   answer  : {"none", "success", "error"},
   missed  : BOOLEAN,
   stale   : BOOLEAN]

TypeOK ==
  /\ there \subseteq Things
  /\ seen \subseteq Things
  /\ call \in [Calls -> CallRecord]
  /\ fault \in {"none", "completion", "thread", "output", "object"}

SomeGroup == Group(CHOOSE g \in Groups : TRUE)

NoCall ==
  [method |-> "none", on |-> SomeGroup, awaits |-> SomeGroup,
   command |-> "none", cancel |-> "no", result |-> "none",
   closure |-> "none", replies |-> 0, answer |-> "none", missed |-> FALSE,
   stale |-> FALSE]

Init ==
  /\ there \in SUBSET Things
  /\ \A t \in there : IsHeldIn(t, there)
  /\ seen = there
  /\ call = [c \in Calls |-> NoCall]
  /\ fault = "none"

Runs == fault = "none"

-----------------------------------------------------------------------------
\* The methods that answer when an object is published.
Waits(r) ==
  r.method \in {"vg_create", "vg_rename", "lv_create", "lv_rename", "activate"}

\* The jobs that are commands, and not threads that run commands.
Spawned(r) == r.method \notin {"vg_create", "vg_delete", "remove_device"}

\* The object that the closure compares with, wait_thing: the group of the
\* logical volumes to come, or the volume to be activated.
Holds(r, t) ==
  CASE r.method \in {"lv_create", "lv_rename"} -> t = Group(r.on.group)
    [] r.method = "activate"                   -> t = r.on
    [] OTHER                                   -> FALSE

Replied(r, answer) == [r EXCEPT !.replies = @ + 1, !.answer = answer]

\* Answer, and disconnect the handler of "published", which frees the closure.
RepliedAndFreed(r, answer) == [Replied(r, answer) EXCEPT !.closure = "freed"]

Refused(method, o) ==
  Replied([NoCall EXCEPT !.method = method, !.on = o], "error")

\* A handler's error returns: an invalid block, a device in use or one that
\* cannot be wiped, an unknown pool.
Refuses(c, method, o) ==
  /\ Runs
  /\ call[c].method = "none"
  /\ call' = [call EXCEPT ![c] = Refused(method, o)]
  /\ UNCHANGED <<there, seen, fault>>

Launched(method, o, n, closure, stale) ==
  [NoCall EXCEPT !.method = method, !.on = o, !.awaits = n,
                 !.command = "runs", !.closure = closure, !.stale = stale]

Launches(c, r) ==
  /\ Runs
  /\ call[c].method = "none"
  /\ call' = [call EXCEPT ![c] = r]
  /\ UNCHANGED <<there, seen, fault>>

LaunchesAndReplies(c, method, o) ==
  Launches(c, Launched(method, o, o, "none", FALSE))

\* The call was authorized while the object it is made on was published; that
\* object, and the one that the closure holds, may have been disposed of since.
LaunchesAndWaits(c, method, o, n) ==
  \E stale \in BOOLEAN :
    LET r == Launched(method, o, n, "live", stale)
    IN  /\ IF stale THEN \E t \in Things : Holds(r, t)
                    ELSE \A t \in Things : Holds(r, t) => t \in seen
        /\ Launches(c, r)

handle_volume_group_create(c) ==
  \E g \in Groups :
    \/ Refuses(c, "vg_create", Group(g))
    \/ LaunchesAndWaits(c, "vg_create", Group(g), Group(g))

\* CreatePlainVolume, CreateThinPoolVolume and CreateThinVolume on a group,
\* whose pool must be a logical volume, CreateSnapshot on a volume.
CreatesOn(c, o) ==
  \E v \in Volumes : LaunchesAndWaits(c, "lv_create", o, Volume(o.group, v))

handle_create_plain_volume(c) == \E o \in GroupThings : CreatesOn(c, o)

handle_create_thin_pool_volume(c) == handle_create_plain_volume(c)

handle_create_thin_volume(c) ==
  \E o \in GroupThings : Refuses(c, "lv_create", o) \/ CreatesOn(c, o)

handle_create_snapshot(c) == \E o \in VolumeThings : CreatesOn(c, o)

volume_group_handle_rename(c) ==
  \E o, n \in GroupThings : LaunchesAndWaits(c, "vg_rename", o, n)

logical_volume_handle_rename(c) ==
  \E o \in VolumeThings, v \in Volumes :
    LaunchesAndWaits(c, "lv_rename", o, Volume(o.group, v))

handle_activate(c) ==
  \E o \in VolumeThings :
    LaunchesAndWaits(c, "activate", o, Block(o.group, o.volume))

handle_deactivate(c) ==
  \E o \in VolumeThings : LaunchesAndReplies(c, "deactivate", o)

volume_group_handle_delete(c) ==
  \E o \in GroupThings : LaunchesAndReplies(c, "vg_delete", o)

logical_volume_handle_delete(c) ==
  \E o \in VolumeThings : LaunchesAndReplies(c, "lv_delete", o)

handle_resize(c) ==
  \E o \in VolumeThings : LaunchesAndReplies(c, "change", o)

handle_add_device(c) ==
  \E o \in GroupThings :
    Refuses(c, "change", o) \/ LaunchesAndReplies(c, "change", o)

handle_empty_device(c) == handle_add_device(c)

handle_remove_device(c) ==
  \E o \in GroupThings :
    \/ Refuses(c, "remove_device", o)
    \/ LaunchesAndReplies(c, "remove_device", o)

-----------------------------------------------------------------------------
\* The LVM command of a call: what it needs, and what LVM has afterwards.
CommandApplies(r) ==
  CASE r.method = "vg_create" -> r.awaits \notin there
    [] r.method \in {"vg_rename", "lv_create", "lv_rename"} ->
         r.on \in there /\ r.awaits \notin there
    [] OTHER -> r.on \in there

\* u under its new name, when o is renamed to n.
Renamed(u, o, n) ==
  [u EXCEPT !.group = n.group,
            !.volume = IF o.kind = "group" THEN @ ELSE n.volume]

AfterCommand(r) ==
  CASE r.method = "vg_create"  -> there \cup {r.awaits}
    [] r.method = "lv_create"  ->
         there \cup {r.awaits, Block(r.awaits.group, r.awaits.volume)}
    [] r.method \in {"vg_rename", "lv_rename"} ->
         (there \ Within(r.on)) \cup
         {Renamed(u, r.on, r.awaits) : u \in there \cap Within(r.on)}
    [] r.method = "activate"   -> there \cup {r.awaits}
    [] r.method = "deactivate" -> there \ {Block(r.on.group, r.on.volume)}
    [] r.method \in {"vg_delete", "lv_delete"} -> there \ Within(r.on)
    [] OTHER                   -> there

\* History: what the call has made and awaits goes before the daemon saw it.
Loses(r, after) ==
  /\ r.closure = "live"
  /\ r.command # "runs"
  /\ r.awaits \in (there \ after) \ seen

\* Does the thread of VolumeGroupCreate find its arguments, which are part of
\* the closure?
ThreadFault(r) == r.method = "vg_create" /\ r.closure = "freed"

\* A command that was cancelled is sent SIGTERM only with the job's last
\* reference, and may have its effect after its job completed.
CommandWorks(c) ==
  /\ Runs
  /\ call[c].command = "runs"
  /\ IF ThreadFault(call[c])
     THEN fault' = "thread" /\ UNCHANGED <<there, seen, call>>
     ELSE /\ CommandApplies(call[c])
          /\ there' = AfterCommand(call[c])
          /\ call' = [d \in Calls |->
                        IF d = c
                        THEN [call[c] EXCEPT
                                !.command = "worked",
                                !.missed = call[c].awaits \in seen]
                        ELSE [call[d] EXCEPT
                                !.missed = @ \/ Loses(call[d], there')]]
          /\ UNCHANGED <<seen, fault>>

\* The LVM commands that others run.
SomebodysCommand(t) ==
  /\ Runs
  /\ \/ /\ t \notin there
        /\ IsHeldIn(t, there)
        /\ there' = there \cup {t}
     \/ /\ t \in there
        /\ there' = there \ Within(t)
  /\ call' = [d \in Calls |->
                [call[d] EXCEPT !.missed = @ \/ Loses(call[d], there')]]
  /\ UNCHANGED <<seen, fault>>

\* The end of volume_group_create_job_thread: open and close every device.
TriggersUdev(c) ==
  /\ Runs
  /\ call[c].method = "vg_create"
  /\ call[c].command = "worked"
  /\ IF ThreadFault(call[c])
     THEN fault' = "thread" /\ UNCHANGED call
     ELSE call' = [call EXCEPT ![c].command = "nudged"] /\ UNCHANGED fault
  /\ UNCHANGED <<there, seen>>

-----------------------------------------------------------------------------
\* Mutant: the failure is answered and the other handler stays connected.
job_failed_connected(r) == Replied(r, "error")

\* The failure of a job that is waited for.
job_failed(r) == RepliedAndFreed(r, "error")

\* The handler of "completed" finds its closure freed.
ClosureIsGone(r, result) ==
  Waits(r) /\ result = "failure" /\ r.closure = "freed"

\* The handlers of "completed": on_create_complete, on_rename_complete,
\* on_activate_complete and on_snapshot_complete of the calls that wait,
\* on_delete_complete and its like of the others.
job_handled(r, result) ==
  CASE ~Waits(r) -> Replied(r, IF result = "success" THEN "success" ELSE "error")
    [] Waits(r) /\ result = "success" -> r
    [] OTHER -> job_failed(r)

\* The job emits "completed": the caller's handler runs, and then the assertion
\* of on_job_completed in daemon.c, which a job that completes again fails.
JobCompletes(c, r, result) ==
  /\ call' = [call EXCEPT ![c] =
                LET s == [r EXCEPT !.result = result]
                IN  IF ClosureIsGone(r, result) THEN s ELSE job_handled(s, result)]
  /\ fault' = IF ClosureIsGone(r, result) THEN "completion"
              ELSE IF r.result # "none" THEN "object" ELSE "none"
  /\ UNCHANGED <<there, seen>>

\* The command has ended, or the thread has returned.  A command may fail, or
\* be killed, before and after its effect.
on_job_completed(c, result) ==
  /\ Runs
  /\ call[c].command \in
       IF result = "failure" THEN {"runs", "worked"}
       ELSE IF call[c].method = "vg_create" THEN {"nudged"} ELSE {"worked"}
  /\ JobCompletes(c, [call[c] EXCEPT !.command = "over"], result)

\* Cancel() is authorized.
on_cancelled(c) ==
  /\ Runs
  /\ Spawned(call[c])
  /\ call[c].command \in {"runs", "worked"}
  /\ call[c].result = "none"
  /\ call[c].cancel = "no"
  /\ call' = [call EXCEPT ![c].cancel = "asked"]
  /\ UNCHANGED <<there, seen, fault>>

\* The completion that Cancel queued.  The job of a command that has ended in
\* the meantime has released its buffers.
emit_completed_with_error_in_idle_cb(c) ==
  /\ Runs
  /\ call[c].cancel = "asked"
  /\ \/ /\ call[c].result = "none"
        /\ JobCompletes(c, [call[c] EXCEPT !.cancel = "done"], "failure")
     \/ /\ call[c].result # "none"
        /\ fault' = "output"
        /\ UNCHANGED <<there, seen, call>>

\* The command of a cancelled job ends, and nobody has kept the job.
child_watch_from_release_cb(c) ==
  /\ Runs
  /\ call[c].result = "failure"
  /\ call[c].command \in {"runs", "worked"}
  /\ call' = [call EXCEPT ![c].command = "over"]
  /\ UNCHANGED <<there, seen, fault>>

-----------------------------------------------------------------------------
\* Mutant: only a call whose job has completed looks at the object.
published_when_completed(r, t) ==
  IF r.closure = "live" /\ r.awaits = t /\ ~r.stale /\ r.result # "none"
  THEN RepliedAndFreed(r, "success")
  ELSE r

\* Mutant: the handler disconnects whatever was published.
published_anything(r, t) ==
  IF r.closure = "live" /\ r.awaits = t /\ ~r.stale
  THEN RepliedAndFreed(r, "success")
  ELSE [r EXCEPT !.closure = IF r.closure = "live" THEN "freed" ELSE @]

\* "published", and its handlers (on_create_volume_group and
\* on_rename_volume_group, which compare names, on_create_logical_volume,
\* on_rename_logical_volume and on_snapshot_logical_volume, which compare names
\* and group objects, on_activate_logical_volume_block, which compares with the
\* path of its volume): every call that awaits this thing, and whose object is
\* still the one it holds, is answered and its closure freed.
published(r, t) ==
  IF r.closure = "live" /\ r.awaits = t /\ ~r.stale
  THEN RepliedAndFreed(r, "success")
  ELSE r

\* storage_daemon_publish, when an update finds something new in what is
\* published already.
storage_daemon_publish(t) ==
  /\ Runs
  /\ t \in there \ seen
  /\ IsHeldIn(t, seen)
  /\ seen' = seen \cup {t}
  /\ call' = [c \in Calls |-> published(call[c], t)]
  /\ UNCHANGED <<there, fault>>

\* An object is disposed of, and the volumes of a group with it.  A block
\* device stays that has got another name by now.
storage_daemon_unpublish(t) ==
  LET gone == Within(t) \cap seen
  IN  /\ Runs
      /\ t \in seen \ there
      /\ \E kept \in SUBSET ((gone \cap BlockThings) \ {t}) :
           seen' = seen \ (gone \ kept)
      /\ call' = [c \in Calls |->
                    [call[c] EXCEPT !.stale =
                       @ \/ (call[c].closure = "live"
                               /\ \E u \in gone : Holds(call[c], u))]]
      /\ UNCHANGED <<there, fault>>

\* storage_block_update_lv for a device that already has the interface: it is
\* made to point at the other logical volume, and nothing is published.
storage_block_update_lv(b, n) ==
  /\ Runs
  /\ b \in seen \ there
  /\ n \in there \ seen
  /\ IsHeldIn(n, seen)
  /\ seen' = (seen \ {b}) \cup {n}
  /\ call' = [c \in Calls |->
                [call[c] EXCEPT !.missed =
                   @ \/ (call[c].closure = "live" /\ call[c].awaits = n)]]
  /\ UNCHANGED <<there, fault>>

\* What the interface of a block whose volume has no path is to a call: the
\* path of a disposed volume is NULL as well, and the later link of the block
\* to its volume is not announced.
published_without_path(r, n) ==
  IF r.method = "activate" /\ r.closure = "live" /\ r.stale
  THEN RepliedAndFreed(r, "success")
  ELSE [r EXCEPT !.missed = @ \/ (r.closure = "live" /\ r.awaits = n)]

\* storage_block_update_lv by a removed group of the same name, whose last
\* answer was taken after its removal.
storage_block_update_lv_removed(n) ==
  /\ Runs
  /\ n \in there \ seen
  /\ seen' = seen \cup {n}
  /\ call' = [c \in Calls |-> published_without_path(call[c], n)]
  /\ UNCHANGED <<there, fault>>

-----------------------------------------------------------------------------
Handles(c) ==
  \/ handle_volume_group_create(c)
  \/ handle_create_plain_volume(c)
  \/ handle_create_thin_pool_volume(c)
  \/ handle_create_thin_volume(c)
  \/ handle_create_snapshot(c)
  \/ volume_group_handle_rename(c)
  \/ logical_volume_handle_rename(c)
  \/ handle_activate(c)
  \/ handle_deactivate(c)
  \/ volume_group_handle_delete(c)
  \/ logical_volume_handle_delete(c)
  \/ handle_resize(c)
  \/ handle_add_device(c)
  \/ handle_remove_device(c)
  \/ handle_empty_device(c)

JobStep(c) ==
  \/ CommandWorks(c)
  \/ TriggersUdev(c)
  \/ \E result \in {"success", "failure"} : on_job_completed(c, result)
  \/ emit_completed_with_error_in_idle_cb(c)
  \/ child_watch_from_release_cb(c)

Next ==
  \/ \E c \in Calls : Handles(c) \/ on_cancelled(c) \/ JobStep(c)
  \/ \E t \in Things :
       \/ SomebodysCommand(t)
       \/ storage_daemon_publish(t)
       \/ storage_daemon_unpublish(t)
  \/ \E b, n \in BlockThings : storage_block_update_lv(b, n)
  \/ \E n \in BlockThings : storage_block_update_lv_removed(n)

Spec == Init /\ [][Next]_vars

\* Every job comes to its end (EveryJobIsReported of Jobs) and the daemon
\* catches up with LVM (CurrentWhenQuiet of LvmUpdate).
Fairness ==
  /\ \A c \in Calls : WF_vars(JobStep(c))
  /\ \A t \in Things :
       WF_vars(storage_daemon_publish(t)) /\ WF_vars(storage_daemon_unpublish(t))

FairSpec == Spec /\ Fairness

-----------------------------------------------------------------------------
\* A call brings the daemon down only in these ways.  Its closure is used after
\* it was freed: by a job that fails although what the call awaits was
\* published and answered before, by the second failure of a cancelled job, or
\* by the thread of VolumeGroupCreate that is not yet done when the group is
\* announced.  Or its command was cancelled, and the job has no buffers or no
\* object left.  However many calls await the same name, a closure whose job
\* was not cancelled and fails before the announcement is never lost.
OnlyEarlyOrCancelledFault ==
  /\ fault = "completion" =>
       \E c \in Calls : /\ call[c].result = "failure"
                        /\ call[c].answer = "success" \/ call[c].cancel = "done"
  /\ fault = "thread" =>
       \E c \in Calls : /\ call[c].method = "vg_create"
                        /\ call[c].answer = "success"
                        /\ call[c].command \in {"runs", "worked"}
  /\ fault \in {"output", "object"} =>
       \E c \in Calls : Spawned(call[c]) /\ call[c].cancel # "no"

\* An invocation is answered twice only by a cancelled command that nothing is
\* published for, and the daemon dies of it: neither the announcement after a
\* failure nor a second failure answers a call that waits again.
AnsweredTwiceOnlyInDeath ==
  \A c \in Calls :
    call[c].replies > 1 =>
      /\ fault = "object"
      /\ ~Waits(call[c])
      /\ Spawned(call[c])
      /\ call[c].cancel = "done"

\* Every call is answered: by its job, or by the announcement of what it
\* made, in whichever order they come, unless there is nothing to announce or
\* the object that it compares with has gone.
AnsweredUnlessMissed ==
  \A c \in Calls :
    call[c].method # "none" ~>
      \/ call[c].replies > 0
      \/ call[c].missed
      \/ call[c].stale
      \/ fault # "none"

\* What a call is to its caller.
call_request == [c \in Calls |-> IF call[c].method = "none" THEN "none"
                                 ELSE IF call[c].replies = 0 THEN "accepted"
                                 ELSE IF call[c].answer = "success" THEN "success"
                                 ELSE "failure"]

CallService == INSTANCE Service WITH Requests <- Calls,
                                     request <- call_request,
                                     phase <- IF Runs THEN "serving" ELSE "gone"

\* The methods implement Service: two signals may answer a call, its job's
\* "completed" and the daemon's "published", and the caller gets one answer
\* that the other of them never changes; a cancelled command that completes
\* again may, in place of the error that Cancel gave, as the daemon dies.
CallsAreAService == CallService!Spec
=============================================================================
