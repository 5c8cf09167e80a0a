-------------------------------- MODULE Poll --------------------------------
(***************************************************************************)
(* Polling one volume group (volumegroup.c poll_*, handle_poll) beside the *)
(* updates that LvmUpdate follows.  Poll() queues poll_in_main, which runs *)
(* a helper at once or leaves that to the 5 s timer of the previous poll.  *)
(* The pid in poll_pid tells the answer of the newest poll from others.    *)
(*                                                                         *)
(* A helper is a process: it reads LVM and exits, GLib's worker thread     *)
(* reaps it, so that its pid may be given to a new process, and the main   *)
(* loop calls back later, at the priority of idle sources.                 *)
(*                                                                         *)
(* "Contents" are the values that a show may bring: the properties of the  *)
(* group and of its volumes and the progress of a pvmove.  Every idle call,*)
(* timer and helper holds a reference to the group.                        *)
(***************************************************************************)
EXTENDS Naturals, FiniteSets

CONSTANTS
  Contents,    \* what LVM's metadata of this group may be
  Pids,        \* process ids
  MaxChanges,  \* bound on the changes of the metadata
  MaxCalls     \* bound on the calls of Poll

ASSUME PidsAssumption == 0 \notin Pids
ASSUME ContentsAssumption == Contents # {} /\ "none" \notin Contents
ASSUME BoundsAssumption == MaxChanges \in Nat /\ MaxCalls \in Nat

\* A change leads to one update at most and a call to one poll at most.
Helpers == 1 .. (MaxChanges + MaxCalls)

VARIABLES
  lvm,              \* LVM: the contents now
  changes,          \* how often they changed
  due,              \* an event, or the manager's timer, asks for an update
  in_table,         \* the group is in name_to_volume_group
  waiting,          \* calls of Poll that are being authorized
  refs,             \* the reference count of the group
  info,             \* self->info, "none" for NULL
  shown,            \* the properties of the D-Bus objects
  calls,            \* history: calls of Poll that were handled so far
  idles,            \* queued calls of poll_in_main
  poll_timeout_id,  \* self->poll_timeout_id is non-zero
  poll_requested,   \* self->poll_requested
  poll_pid,         \* self->poll_pid
  last,             \* helpers started so far
  helper,           \* helper[h]: a show of this group
  pid_reused,       \* history: a helper got the pid of one that was reaped
                    \* and whose answer was not taken yet
  shown_by,         \* history: what was shown last, "update" or "poll",
  poll_shown,       \* the poll that was shown last,
  served,           \* the newest call of Poll whose poll was shown or failed,
  current           \* was the newest update good, and taken after any other?

lvmVars  == <<lvm, changes>>
pollVars == <<idles, poll_timeout_id, poll_requested, poll_pid>>
history  == <<shown_by, poll_shown, served, current>>
vars     == <<lvmVars, due, in_table, waiting, refs, info, shown, calls, pollVars,
              last, helper, pid_reused, history>>

\* "killed" and "covers" are histories of a poll: it was sent SIGINT, and how
\* many calls of Poll had come when it was started.
HelperRecord ==
  [kind   : {"none", "update", "poll"},
   pid    : Pids \cup {0},
   stage  : {"none", "running", "exited", "taken"},
   ok     : BOOLEAN,
   seen   : Contents \cup {"none"},
   killed : BOOLEAN,
   covers : 0..MaxCalls]

Polls   == {h \in Helpers : helper[h].kind = "poll"}
Updates == {h \in Helpers : helper[h].kind = "update"}

IsNewestOf(h, S) == h \in S /\ \A k \in S : k <= h

TypeOK ==
  /\ lvm \in Contents
  /\ changes \in 0..MaxChanges
  /\ due \in BOOLEAN
  /\ in_table \in BOOLEAN
  /\ waiting \in 0..MaxCalls
  /\ refs \in Nat
  /\ info \in Contents \cup {"none"}
  /\ shown \in Contents
  /\ calls \in 0..MaxCalls
  /\ idles \in 0..MaxCalls
  /\ poll_timeout_id \in BOOLEAN
  /\ poll_requested \in BOOLEAN
  /\ poll_pid \in Pids \cup {0}
  /\ last \in Helpers \cup {0}
  /\ helper \in [Helpers -> HelperRecord]
  /\ pid_reused \in BOOLEAN
  /\ shown_by \in {"update", "poll"}
  /\ poll_shown \in Helpers \cup {0}
  /\ current \in BOOLEAN
  /\ served \in 0..MaxCalls

NoHelper ==
  [kind |-> "none", pid |-> 0, stage |-> "none", ok |-> FALSE,
   seen |-> "none", killed |-> FALSE, covers |-> 0]

\* A group whose first update was taken.
Init ==
  /\ lvm \in Contents
  /\ changes = 0
  /\ due = FALSE
  /\ in_table = TRUE
  /\ waiting = 0
  /\ refs = 1
  /\ info = lvm
  /\ shown = lvm
  /\ calls = 0
  /\ idles = 0
  /\ poll_timeout_id = FALSE
  /\ poll_requested = FALSE
  /\ poll_pid = 0
  /\ last = 0
  /\ helper = [h \in Helpers |-> NoHelper]
  /\ pid_reused = FALSE
  /\ shown_by = "update"
  /\ poll_shown = 0
  /\ served = 0
  /\ current = TRUE

-----------------------------------------------------------------------------
\* LVM and the processes.

MetadataChanges ==
  /\ changes < MaxChanges
  /\ lvm' \in Contents \ {lvm}
  /\ changes' = changes + 1
  /\ due' = TRUE
  /\ UNCHANGED <<in_table, waiting, refs, info, shown, calls, pollVars, last, helper,
                 pid_reused, history>>

\* The helper's "show": it exits with what it read, or fails, perhaps killed.
show_volume_group(h) ==
  /\ helper[h].stage = "running"
  /\ \/ helper' = [helper EXCEPT ![h].stage = "exited", ![h].ok = TRUE,
                                 ![h].seen = lvm]
     \/ helper' = [helper EXCEPT ![h].stage = "exited"]
  /\ UNCHANGED <<lvmVars, due, in_table, waiting, refs, info, shown, calls, pollVars,
                 last, pid_reused, history>>

PidsOf(stage) == {helper[h].pid : h \in {k \in Helpers : helper[k].stage = stage}}

\* A new process gets a pid that nobody has: one that no helper had, no matter
\* which, or that of a helper that was reaped.
FreePids ==
  LET fresh == Pids \ (PidsOf("running") \cup PidsOf("exited"))
  IN  (PidsOf("exited") \ PidsOf("running"))
        \cup (IF fresh = {} THEN {} ELSE {CHOOSE pid \in fresh : TRUE})

Spawns(kind, pid, others) ==
  /\ helper' = [others EXCEPT ![last + 1] =
                  [NoHelper EXCEPT !.kind = kind, !.pid = pid, !.stage = "running",
                                   !.covers = IF kind = "poll" THEN calls ELSE 0]]
  /\ pid_reused' = (pid_reused \/ pid \in PidsOf("exited"))

\* The answer of h is taken, and its record of no further interest.
Taken(h) ==
  helper' = [helper EXCEPT ![h] = [NoHelper EXCEPT !.kind = helper[h].kind,
                                                   !.stage = "taken"]]

\* kill (poll_pid, SIGINT) reaches whatever process has that pid; a helper may
\* fail in any case.
kill(pid) ==
  [h \in Helpers |-> IF /\ helper[h].kind = "poll"
                        /\ helper[h].stage = "running"
                        /\ helper[h].pid = pid
                     THEN [helper[h] EXCEPT !.killed = TRUE]
                     ELSE helper[h]]

-----------------------------------------------------------------------------
\* lvm_update_from_variant: the group is listed, and shown once more...
storage_volume_group_update ==
  /\ due
  /\ in_table
  /\ due' = FALSE
  /\ last' = last + 1
  /\ \E pid \in FreePids :
       Spawns("update", pid, helper)
  /\ refs' = refs + 1
  /\ current' = FALSE
  /\ UNCHANGED <<lvmVars, in_table, waiting, info, shown, calls, pollVars, shown_by,
                 poll_shown, served>>

\* ... or it is not: storage_volume_group_dispose, and the table's reference.
\* Neither stops a poll.
storage_volume_group_dispose ==
  /\ in_table
  /\ in_table' = FALSE
  /\ refs' = refs - 1
  /\ info' = "none"
  /\ due' = FALSE
  /\ UNCHANGED <<lvmVars, waiting, shown, calls, pollVars, last, helper, pid_reused,
                 history>>

\* GDBus finds the interface of a published group, and has the call authorized
\* in a thread; meanwhile it keeps a reference.
CallArrives ==
  /\ in_table
  /\ calls + waiting < MaxCalls
  /\ waiting' = waiting + 1
  /\ refs' = refs + 1
  /\ UNCHANGED <<lvmVars, due, in_table, info, shown, calls, pollVars, last, helper,
                 pid_reused, history>>

\* ... and refuses it.
CallRefused ==
  /\ waiting > 0
  /\ waiting' = waiting - 1
  /\ refs' = refs - 1
  /\ UNCHANGED <<lvmVars, due, in_table, info, shown, calls, pollVars, last, helper,
                 pid_reused, history>>

\* handle_poll and storage_volume_group_poll, perhaps of a group that was
\* removed since.  The reference of GDBus goes, that of poll_in_main comes.
handle_poll ==
  /\ waiting > 0
  /\ waiting' = waiting - 1
  /\ calls' = calls + 1
  /\ idles' = idles + 1
  /\ UNCHANGED <<lvmVars, due, in_table, refs, info, shown, poll_timeout_id,
                 poll_requested, poll_pid, last, helper, pid_reused, history>>

\* Mutant: the poll that is under way goes on.
poll_now_without_kill ==
  /\ poll_timeout_id' = TRUE
  /\ last' = last + 1
  /\ \/ \E pid \in FreePids :
          /\ Spawns("poll", pid, helper)
          /\ poll_pid' = pid
          /\ refs' = refs + 1
          /\ UNCHANGED served
     \/ /\ helper' = [helper EXCEPT ![last + 1].kind = "poll",
                                    ![last + 1].stage = "taken"]
        /\ poll_pid' = 0
        /\ served' = calls
        /\ UNCHANGED <<refs, pid_reused>>

\* Start the timer, end the poll that is under way, start a helper.  Each of
\* the first and the last takes a reference; the caller drops its own.  When
\* the spawn fails the callback is called with pid 0 before poll_pid is set:
\* whether or not it takes itself for the newest poll it only drops its
\* reference.
poll_now ==
  /\ poll_timeout_id' = TRUE
  /\ last' = last + 1
  /\ \/ \E pid \in FreePids :
          /\ Spawns("poll", pid, kill(poll_pid))
          /\ poll_pid' = pid
          /\ refs' = refs + 1
          /\ UNCHANGED served
     \/ /\ helper' = [kill(poll_pid) EXCEPT ![last + 1].kind = "poll",
                                            ![last + 1].stage = "taken"]
        /\ poll_pid' = 0
        /\ served' = calls
        /\ UNCHANGED <<refs, pid_reused>>

\* Mutant: a call that comes within the 5 s is forgotten.
poll_in_main_forgets ==
  /\ idles > 0
  /\ idles' = idles - 1
  /\ \/ /\ poll_timeout_id
        /\ refs' = refs - 1
        /\ UNCHANGED <<poll_timeout_id, poll_requested, poll_pid, last, helper,
                       pid_reused, served>>
     \/ /\ ~poll_timeout_id
        /\ poll_now
        /\ UNCHANGED poll_requested
  /\ UNCHANGED <<lvmVars, due, in_table, waiting, info, shown, calls, shown_by, poll_shown,
                 current>>

poll_in_main ==
  /\ idles > 0
  /\ idles' = idles - 1
  /\ \/ /\ poll_timeout_id
        /\ poll_requested' = TRUE
        /\ refs' = refs - 1
        /\ UNCHANGED <<poll_timeout_id, poll_pid, last, helper, pid_reused, served>>
     \/ /\ ~poll_timeout_id
        /\ poll_now
        /\ UNCHANGED poll_requested
  /\ UNCHANGED <<lvmVars, due, in_table, waiting, info, shown, calls, shown_by, poll_shown,
                 current>>

\* Mutant: the timer goes on after it dropped its reference.
poll_timeout_repeats ==
  /\ poll_timeout_id
  /\ \/ /\ poll_requested
        /\ poll_requested' = FALSE
        /\ poll_now
     \/ /\ ~poll_requested
        /\ refs' = refs - 1
        /\ UNCHANGED <<poll_timeout_id, poll_requested, poll_pid, last, helper,
                       pid_reused, served>>
  /\ UNCHANGED <<lvmVars, due, in_table, waiting, info, shown, calls, idles, shown_by,
                 poll_shown, current>>

poll_timeout ==
  /\ poll_timeout_id
  /\ \/ /\ poll_requested
        /\ poll_requested' = FALSE
        /\ poll_now
     \/ /\ ~poll_requested
        /\ poll_timeout_id' = FALSE
        /\ refs' = refs - 1
        /\ UNCHANGED <<poll_requested, poll_pid, last, helper, pid_reused, served>>
  /\ UNCHANGED <<lvmVars, due, in_table, waiting, info, shown, calls, idles, shown_by,
                 poll_shown, current>>

-----------------------------------------------------------------------------
\* The answers.  Child watches of one priority are dispatched in the order
\* they were attached, so of two helpers that had the same pid the older one,
\* which was reaped before the other was started, comes first.
Ready(h) ==
  /\ helper[h].stage = "exited"
  /\ \A k \in Helpers : helper[k].stage = "exited" /\ helper[k].pid = helper[h].pid
                          => k >= h

\* Mutant: the early return keeps its reference.
DropAnswer_leaks == UNCHANGED <<refs, shown, poll_pid, history>>

\* poll_with_variant, for an answer that is not the newest poll's.
DropAnswer == refs' = refs - 1 /\ UNCHANGED <<shown, poll_pid, history>>

PollFailed(h) ==
  /\ poll_pid' = 0
  /\ refs' = refs - 1
  /\ served' = IF helper[h].killed THEN served ELSE helper[h].covers
  /\ UNCHANGED <<shown, shown_by, poll_shown, current>>

\* The properties of the group, the progress of a job that empties a device
\* and the volumes that the group already knows; info stays as it is.
PollAnswered(h) ==
  /\ poll_pid' = 0
  /\ refs' = refs - 1
  /\ shown' = helper[h].seen
  /\ shown_by' = "poll"
  /\ poll_shown' = h
  /\ served' = helper[h].covers
  /\ UNCHANGED current

\* Mutant: the pid is not looked at.
IsNewest_always(h) == TRUE

IsNewest(h) == helper[h].pid = poll_pid

poll_with_variant(h) ==
  /\ helper[h].kind = "poll"
  /\ Ready(h)
  /\ Taken(h)
  /\ \/ ~IsNewest(h) /\ DropAnswer
     \/ IsNewest(h) /\ ~helper[h].ok /\ PollFailed(h)
     \/ IsNewest(h) /\ helper[h].ok /\ PollAnswered(h)
  /\ UNCHANGED <<lvmVars, due, in_table, waiting, info, calls, idles, poll_timeout_id,
                 poll_requested, last, pid_reused>>

\* Mutant: the answers are compared with the first one for ever.
InfoAfter_first(h) == IF info = "none" THEN helper[h].seen ELSE info

InfoAfter(h) == helper[h].seen

\* The answer of an update is shown if it differs from the last update's.
update_with_variant(h) ==
  LET changed == helper[h].ok /\ helper[h].seen # info
  IN  /\ helper[h].kind = "update"
      /\ Ready(h)
      /\ Taken(h)
      /\ refs' = refs - 1
      /\ info' = IF changed THEN InfoAfter(h) ELSE info
      /\ shown' = IF changed THEN helper[h].seen ELSE shown
      /\ shown_by' = IF changed THEN "update" ELSE shown_by
      /\ current' = (helper[h].ok /\ IsNewestOf(h, Updates))
      /\ UNCHANGED <<lvmVars, due, in_table, waiting, calls, pollVars, last, pid_reused,
                     poll_shown, served>>

-----------------------------------------------------------------------------
Next ==
  \/ MetadataChanges
  \/ storage_volume_group_update
  \/ storage_volume_group_dispose
  \/ CallArrives
  \/ CallRefused
  \/ handle_poll
  \/ poll_in_main
  \/ poll_timeout
  \/ \E h \in Helpers :
       show_volume_group(h) \/ poll_with_variant(h) \/ update_with_variant(h)

Spec == Init /\ [][Next]_vars

\* The main loop dispatches every idle call, timer and child watch that is
\* ready, and a helper ends (it waits for LVM's locks at most).
Fairness ==
  /\ WF_vars(poll_in_main)
  /\ WF_vars(poll_timeout)
  /\ \A h \in Helpers :
       /\ WF_vars(show_volume_group(h))
       /\ WF_vars(poll_with_variant(h))
       /\ WF_vars(update_with_variant(h))

FairSpec == Spec /\ Fairness

-----------------------------------------------------------------------------
\* Each early return of poll_with_variant, poll_in_main, poll_timeout and
\* update_with_variant drops the one reference its source had: the references
\* to the group are the table's and those of its calls, idle calls, timer and
\* helpers, so that it is freed when the last of them is gone and not before.
\* (A volume of the group keeps one more for ever, logicalvolume.c:843.)
RefsAreBalanced ==
  refs = Cardinality({h \in Helpers : helper[h].stage \in {"running", "exited"}})
         + idles + (IF poll_timeout_id THEN 1 ELSE 0)
         + (IF in_table THEN 1 ELSE 0) + waiting

\* At most one helper polls the group: an older one that still runs was
\* killed.  poll_now sends SIGINT to the process poll_pid: that is the pid of
\* the newest poll, and only until its answer is taken.  It runs, or it was
\* reaped and its callback is queued: in that window the pid may be anybody's,
\* and poll_now signals it all the same (volumegroup.c:705), but never later.
\* Only a pid that is used again can hide a running helper from poll_now.
OnePollRuns ==
  /\ poll_pid # 0 =>
       \E h \in Polls : /\ IsNewestOf(h, Polls)
                        /\ helper[h].pid = poll_pid
                        /\ helper[h].stage \in {"running", "exited"}
  /\ \A h \in Polls :
       helper[h].stage = "running" /\ ~helper[h].killed =>
         \/ IsNewestOf(h, Polls) /\ poll_pid = helper[h].pid
         \/ pid_reused

\* The answers of polls are shown in the order the polls were started in: one
\* that was superseded is never shown after a newer one, unless its pid was
\* given to a newer one before its answer was taken.
PollsAreShownInOrder == [][poll_shown' >= poll_shown \/ pid_reused]_vars

\* Nothing is under way.
Quiet == ~due /\ \A h \in Helpers : helper[h].stage \in {"none", "taken"}

\* While the group is there and nothing is under way, what is shown is what
\* LVM has if the newest update's answer was good and taken last, unless a
\* poll was shown last: update_with_variant does not know of polls, so that a
\* poll which read LVM before the newest update did may be shown after it, and
\* an update that brings back what self->info has is skipped although a poll
\* was shown since (volumegroup.c:495).
OnlyPollsMislead ==
  /\ Quiet
  /\ in_table
  /\ current
  /\ shown_by = "update"
  => shown = lvm

\* com.redhat.lvm2.xml:154, "Make sure that all properties of this volume
\* group ... are up-to-date": when the calls cease, a poll that was started
\* after the last of them is shown, or has failed: calls within the 5 s, a poll
\* that is killed for a newer one, a spawn that fails and the removal of the
\* group lose none.  While calls go on there is no such promise: a poll that
\* takes longer than the 5 s is killed for the next one (volumegroup.c:705).
CallsAreServedInTheEnd ==
  \A n \in 1..MaxCalls : <>[](calls = n) => <>(served = n \/ pid_reused)
=============================================================================
