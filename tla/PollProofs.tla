----------------------------- MODULE PollProofs -----------------------------
(***************************************************************************)
(* Proofs about Poll, for any contents, pids and number of changes and     *)
(* calls.                                                                  *)
(*                                                                         *)
(* The inductive invariant:                                                *)
(*   - BudgetInv: each helper used up a change or a call, which is why     *)
(*     there is always a number for the next one;                          *)
(*   - HelpersInv: the helpers are numbered in the order they were started,*)
(*     and two of them whose answer was not taken have different pids,     *)
(*     unless a pid was used again;                                        *)
(*   - RefsAreBalanced and OnePollRuns themselves;                         *)
(*   - ShownInv: while no update is due, the newest update's answer is what*)
(*     LVM has, self->info is the last answer of an update, and it is what *)
(*     is shown unless a poll came after it.                               *)
(***************************************************************************)
EXTENDS Poll, FiniteSetTheorems, TLAPS

-----------------------------------------------------------------------------
\* The record of a helper by its fields.
IsHelper(r) ==
  /\ DOMAIN r = {"kind", "pid", "stage", "ok", "seen", "killed", "covers"}
  /\ r = [f \in DOMAIN r |-> r[f]]
  /\ r.kind \in {"none", "update", "poll"}
  /\ r.pid \in Pids \cup {0}
  /\ r.stage \in {"none", "running", "exited", "taken"}
  /\ r.ok \in BOOLEAN
  /\ r.seen \in Contents \cup {"none"}
  /\ r.ok => r.seen \in Contents
  /\ r.stage = "running" => ~r.ok
  /\ r.killed \in BOOLEAN
  /\ r.covers \in 0..MaxCalls

Typed ==
  /\ lvm \in Contents
  /\ changes \in 0..MaxChanges
  /\ due \in BOOLEAN
  /\ in_table \in BOOLEAN
  /\ refs \in Nat
  /\ info \in Contents \cup {"none"}
  /\ shown \in Contents
  /\ calls \in 0..MaxCalls
  /\ waiting \in Nat
  /\ calls + waiting <= MaxCalls
  /\ idles \in 0..calls
  /\ poll_timeout_id \in BOOLEAN
  /\ poll_requested \in BOOLEAN
  /\ poll_pid \in Pids \cup {0}
  /\ last \in Helpers \cup {0}
  /\ helper = [h \in Helpers |-> helper[h]]
  /\ \A h \in Helpers : IsHelper(helper[h])
  /\ pid_reused \in BOOLEAN
  /\ shown_by \in {"update", "poll"}
  /\ poll_shown \in Polls \cup {0}
  /\ current \in BOOLEAN
  /\ served \in 0..MaxCalls

\* The helpers whose answer was not taken.
Live == {h \in Helpers : helper[h].stage \in {"running", "exited"}}

HelpersInv ==
  /\ \A h \in Helpers : /\ h <= last <=> helper[h].kind # "none"
                        /\ helper[h].kind = "none" => helper[h].stage = "none"
  /\ \A h \in Live : helper[h].pid \in Pids
  /\ \A h, k \in Live : helper[h].pid = helper[k].pid => h = k \/ pid_reused

BudgetInv ==
  last + (IF due THEN 1 ELSE 0) + idles + (IF poll_requested THEN 1 ELSE 0)
    <= changes + calls

ShownInv ==
  in_table =>
    /\ shown_by = "update" => shown = info
    /\ ~due => /\ current => info = lvm
               /\ \A h \in Updates :
                    /\ IsNewestOf(h, Updates)
                    /\ helper[h].stage = "exited"
                    /\ helper[h].ok
                    => helper[h].seen = lvm

IndInv ==
  /\ Typed
  /\ HelpersInv
  /\ BudgetInv
  /\ RefsAreBalanced
  /\ OnePollRuns
  /\ ShownInv

-----------------------------------------------------------------------------
\* The bounds are numbers, and a helper has one.
LEMMA Numbers ==
  /\ MaxChanges \in Nat
  /\ MaxCalls \in Nat
  /\ Helpers = 1..(MaxChanges + MaxCalls)
  /\ Helpers \subseteq Nat \ {0}
BY BoundsAssumption DEF Helpers

\* The helpers are finitely many.
LEMMA LiveFinite == IsFiniteSet(Live) /\ Cardinality(Live) \in Nat
<1>1. IsFiniteSet(Helpers)
  <2>1. MaxChanges + MaxCalls \in Int BY Numbers
  <2>2. QED BY <2>1, Numbers, FS_Interval
<1>2. Live \subseteq Helpers BY DEF Live
<1>3. QED BY <1>1, <1>2, FS_Subset, FS_CardinalityType

\* RefsAreBalanced by name.
LEMMA Balance ==
  RefsAreBalanced <=>
    refs = Cardinality(Live) + idles + (IF poll_timeout_id THEN 1 ELSE 0)
           + (IF in_table THEN 1 ELSE 0) + waiting
BY DEF RefsAreBalanced, Live

\* The record of a helper that was not started.
LEMMA NoHelperFields ==
  /\ IsHelper(NoHelper) /\ NoHelper.kind = "none" /\ NoHelper.stage = "none"
  /\ NoHelper.ok = FALSE /\ NoHelper.killed = FALSE
<1>1. 0 \in 0..MaxCalls BY Numbers
<1>2. QED BY <1>1 DEF NoHelper, IsHelper

\* The initial state.
LEMMA InitIndInv == Init => IndInv
<1> SUFFICES ASSUME Init PROVE IndInv
  OBVIOUS
<1>1. \A h \in Helpers : helper[h] = NoHelper BY DEF Init
<1>2. Live = {} /\ Polls = {} /\ Updates = {}
  BY <1>1, NoHelperFields DEF Live, Polls, Updates
<1>3. Typed
  <2>1. /\ changes \in 0..MaxChanges /\ calls \in 0..MaxCalls
        /\ idles \in 0..calls /\ served \in 0..MaxCalls
        /\ waiting \in Nat /\ calls + waiting <= MaxCalls
    BY Numbers DEF Init
  <2>2. \A h \in Helpers : IsHelper(helper[h]) BY <1>1, NoHelperFields
  <2>3. QED BY <2>1, <2>2 DEF Init, Typed
<1>4. HelpersInv
  <2>1. \A h \in Helpers : ~(h <= last) BY Numbers DEF Init
  <2>2. QED BY <1>1, <1>2, <2>1, NoHelperFields DEF HelpersInv
<1>5. BudgetInv BY DEF Init, BudgetInv
<1>6. RefsAreBalanced
  <2>1. Cardinality(Live) = 0 BY <1>2, FS_EmptySet
  <2>2. QED BY <2>1, Balance DEF Init
<1>7. OnePollRuns BY <1>2 DEF Init, OnePollRuns
<1>8. ShownInv BY <1>2 DEF Init, ShownInv
<1>9. QED BY <1>3, <1>4, <1>5, <1>6, <1>7, <1>8 DEF IndInv

-----------------------------------------------------------------------------
\* Steps that leave the helpers alone.

\* LVM changes, and an update is due.
LEMMA MetadataKeepsIndInv ==
  ASSUME IndInv, MetadataChanges
  PROVE  IndInv'
<1> USE DEF MetadataChanges, pollVars, history
<1>1. changes' = changes + 1 /\ changes' \in 0..MaxChanges
  BY Numbers DEF IndInv, Typed
<1>2. Typed' BY <1>1 DEF IndInv, Typed, Polls
<1>3. HelpersInv' /\ OnePollRuns'
  BY DEF IndInv, HelpersInv, OnePollRuns, Live, Polls, IsNewestOf
<1>4. BudgetInv'
  <2>1. /\ last \in Nat /\ idles \in Nat /\ changes \in Nat /\ calls \in Nat
    BY Numbers DEF IndInv, Typed
  <2>2. QED BY <1>1, <2>1 DEF IndInv, BudgetInv, Typed
<1>5. RefsAreBalanced' BY DEF IndInv, RefsAreBalanced
<1>6. ShownInv' BY DEF IndInv, ShownInv
<1>7. QED BY <1>2, <1>3, <1>4, <1>5, <1>6 DEF IndInv

\* The numbers in the count of references.
LEMMA CountTypes ==
  ASSUME Typed
  PROVE  /\ last \in Nat /\ idles \in Nat /\ changes \in Nat /\ calls \in Nat
         /\ refs \in Nat /\ Cardinality(Live) \in Nat /\ waiting \in Nat
BY Numbers, LiveFinite DEF Typed

\* The group is removed from the table.
LEMMA DisposeKeepsIndInv ==
  ASSUME IndInv, storage_volume_group_dispose
  PROVE  IndInv'
<1> USE DEF storage_volume_group_dispose, lvmVars, pollVars, history
<1>1. Live' = Live BY DEF Live
<1>2. refs' \in Nat /\ RefsAreBalanced'
  <2>1. refs = Cardinality(Live) + idles + (IF poll_timeout_id THEN 1 ELSE 0) + 1
               + waiting
    BY Balance DEF IndInv
  <2>2. refs' = Cardinality(Live) + idles + (IF poll_timeout_id THEN 1 ELSE 0) + 0
                + waiting
    BY <2>1, CountTypes DEF IndInv
  <2>3. refs' \in Nat BY <2>2, CountTypes DEF IndInv
  <2>4. QED BY <1>1, <2>2, <2>3 DEF RefsAreBalanced, Live
<1>3. Typed' BY <1>2 DEF IndInv, Typed, Polls
<1>4. HelpersInv' /\ OnePollRuns'
  BY DEF IndInv, HelpersInv, OnePollRuns, Live, Polls, IsNewestOf
<1>5. BudgetInv' BY CountTypes DEF IndInv, BudgetInv
<1>6. ShownInv' BY DEF ShownInv
<1>7. QED BY <1>2, <1>3, <1>4, <1>5, <1>6 DEF IndInv

\* A call of Poll comes in, is refused, or is handled.
LEMMA CallKeepsIndInv ==
  ASSUME IndInv, CallArrives \/ CallRefused \/ handle_poll
  PROVE  IndInv'
<1> USE DEF CallArrives, CallRefused, handle_poll, lvmVars, pollVars, history
<1>1. Live' = Live BY DEF Live
<1>2. refs' \in Nat /\ RefsAreBalanced'
  <2>1. refs' = Cardinality(Live) + idles' + (IF poll_timeout_id THEN 1 ELSE 0)
                + (IF in_table THEN 1 ELSE 0) + waiting'
    BY Balance, CountTypes DEF IndInv
  <2>2. refs' \in Nat /\ UNCHANGED <<in_table, poll_timeout_id>>
    BY <2>1, CountTypes DEF IndInv
  <2>3. QED BY <1>1, <2>1, <2>2 DEF RefsAreBalanced, Live
<1>3. /\ calls' \in 0..MaxCalls /\ idles' \in 0..calls'
      /\ waiting' \in Nat /\ calls' + waiting' <= MaxCalls
  <2>1. /\ calls \in Nat /\ idles \in 0..calls /\ waiting \in Nat
        /\ calls + waiting <= MaxCalls /\ MaxCalls \in Nat
    BY Numbers DEF IndInv, Typed
  <2>2. CASE CallArrives BY <2>1, <2>2
  <2>3. CASE CallRefused BY <2>1, <2>3
  <2>4. CASE handle_poll BY <2>1, <2>4
  <2>5. QED BY <2>2, <2>3, <2>4
<1>4. UNCHANGED <<lvmVars, due, in_table, info, shown, poll_timeout_id,
                  poll_requested, poll_pid, last, helper, pid_reused, history>>
  OBVIOUS
<1>5. Typed' BY <1>2, <1>3, <1>4 DEF IndInv, Typed, Polls
<1>6. HelpersInv' /\ OnePollRuns'
  BY <1>4 DEF IndInv, HelpersInv, OnePollRuns, Live, Polls, IsNewestOf
<1>7. BudgetInv' BY CountTypes DEF IndInv, BudgetInv
<1>8. ShownInv' BY <1>4 DEF IndInv, ShownInv, Updates, IsNewestOf
<1>9. QED BY <1>2, <1>5, <1>6, <1>7, <1>8 DEF IndInv

\* A call within the 5 s is left to the timer, or the timer ends.
LEMMA TimerKeepsIndInv ==
  ASSUME IndInv,
         \/ /\ idles > 0 /\ idles' = idles - 1
            /\ poll_requested' = TRUE /\ UNCHANGED poll_timeout_id
         \/ /\ poll_timeout_id /\ ~poll_timeout_id'
            /\ UNCHANGED <<idles, poll_requested>>
            /\ poll_timeout_id' \in BOOLEAN,
         refs' = refs - 1,
         UNCHANGED <<lvmVars, due, in_table, waiting, info, shown, calls, poll_pid, last,
                     helper, pid_reused, history>>
  PROVE  IndInv'
<1> USE DEF lvmVars, history
<1>1. Live' = Live BY DEF Live
<1>2. idles' \in 0..calls BY Numbers DEF IndInv, Typed
<1>3. refs' \in Nat /\ RefsAreBalanced'
  <2>1. refs' = Cardinality(Live) + idles' + (IF poll_timeout_id' THEN 1 ELSE 0)
                + (IF in_table THEN 1 ELSE 0) + waiting
    BY Balance, CountTypes DEF IndInv
  <2>2. idles' \in Nat /\ Cardinality(Live) \in Nat /\ waiting \in Nat
    BY <1>2, CountTypes, Numbers DEF IndInv, Typed
  <2>3. refs' \in Nat BY <2>1, <2>2
  <2>4. QED BY <1>1, <2>1, <2>3 DEF RefsAreBalanced, Live
<1>4. Typed'
  <2>1. poll_timeout_id' \in BOOLEAN /\ poll_requested' \in BOOLEAN
    BY DEF IndInv, Typed
  <2>2. refs' \in Nat /\ idles' \in 0..calls' BY <1>2, <1>3
  <2>3. Typed /\ Polls' = Polls BY DEF IndInv, Polls
  <2>4. QED BY <2>1, <2>2, <2>3 DEF Typed
<1>5. HelpersInv' /\ OnePollRuns'
  BY DEF IndInv, HelpersInv, OnePollRuns, Live, Polls, IsNewestOf
<1>6. BudgetInv' BY CountTypes DEF IndInv, BudgetInv
<1>7. ShownInv' BY DEF IndInv, ShownInv, Updates, IsNewestOf
<1>8. QED BY <1>3, <1>4, <1>5, <1>6, <1>7 DEF IndInv

-----------------------------------------------------------------------------
\* Two records of a helper that differ in "killed" at most.
Same(q, r) ==
  /\ q.kind = r.kind /\ q.pid = r.pid /\ q.stage = r.stage
  /\ q.ok = r.ok /\ q.seen = r.seen /\ q.covers = r.covers

\* Helper n is started: it runs with a free pid, or its spawn failed.
Starts(n) ==
  /\ n = last + 1
  /\ n \in Helpers
  /\ last' = n
  /\ helper' = [h \in Helpers |-> helper'[h]]
  /\ \A h \in Helpers \ {n} : IsHelper(helper'[h]) /\ Same(helper'[h], helper[h])
  /\ IsHelper(helper'[n])
  /\ helper'[n].kind \in {"update", "poll"}
  /\ \/ /\ helper'[n].stage = "running"
        /\ helper'[n].pid \in FreePids
        /\ pid_reused' = (pid_reused \/ helper'[n].pid \in PidsOf("exited"))
     \/ /\ helper'[n].stage = "taken"
        /\ pid_reused' = pid_reused

\* A free pid is nobody's, or that of a helper that was reaped.
LEMMA FreePidsFacts ==
  ASSUME IndInv, NEW pid \in FreePids
  PROVE  /\ pid \in Pids
         /\ pid # 0
         /\ \A h \in Live : helper[h].pid = pid => pid \in PidsOf("exited")
<1> DEFINE fresh == Pids \ (PidsOf("running") \cup PidsOf("exited"))
<1>1. PidsOf("exited") \subseteq Pids
  BY DEF PidsOf, Live, IndInv, HelpersInv
<1>2. pid \in (PidsOf("exited") \ PidsOf("running")) \/ pid \in fresh
  BY DEF FreePids
<1>3. \A h \in Live : helper[h].pid \in PidsOf("running") \cup PidsOf("exited")
  BY DEF Live, PidsOf
<1>4. QED BY <1>1, <1>2, <1>3, PidsAssumption

\* What a started helper does to the sets of helpers.
LEMMA StartedSets ==
  ASSUME IndInv, NEW n, Starts(n)
  PROVE  /\ \A h \in Helpers : helper[h].kind # "none" => h < n
         /\ n \notin Live /\ n \notin Polls /\ n \notin Updates
         /\ Live' = IF helper'[n].stage = "running" THEN Live \cup {n} ELSE Live
         /\ Polls' = IF helper'[n].kind = "poll" THEN Polls \cup {n} ELSE Polls
         /\ Updates' = IF helper'[n].kind = "update" THEN Updates \cup {n}
                                                     ELSE Updates
         /\ pid_reused => pid_reused'
<1>1. n = last + 1 /\ n \in Helpers /\ last \in Nat
  BY CountTypes DEF Starts, IndInv
<1>2. \A h \in Helpers : helper[h].kind # "none" => h < n
  BY <1>1, Numbers DEF IndInv, HelpersInv
<1>3. helper[n].kind = "none" /\ helper[n].stage = "none"
  <2>1. ~(n < n) BY <1>1, Numbers
  <2>2. QED BY <1>1, <1>2, <2>1 DEF IndInv, HelpersInv
<1>4. n \notin Live /\ n \notin Polls /\ n \notin Updates
  BY <1>3 DEF Live, Polls, Updates
<1>5. ASSUME NEW h \in Helpers \ {n}
      PROVE  helper'[h].stage = helper[h].stage /\ helper'[h].kind = helper[h].kind
  BY DEF Starts, Same
<1>6. Live' = IF helper'[n].stage = "running" THEN Live \cup {n} ELSE Live
  BY <1>1, <1>3, <1>5 DEF Live, Starts
<1>7. /\ Polls' = IF helper'[n].kind = "poll" THEN Polls \cup {n} ELSE Polls
      /\ Updates' = IF helper'[n].kind = "update" THEN Updates \cup {n}
                                                  ELSE Updates
  BY <1>1, <1>3, <1>5 DEF Polls, Updates, Starts
<1>8. pid_reused => pid_reused' BY DEF Starts
<1>9. QED BY <1>2, <1>4, <1>6, <1>7, <1>8

\* The numbering and the pids after a start.
LEMMA StartKeepsHelpersInv ==
  ASSUME IndInv, NEW n, Starts(n)
  PROVE  HelpersInv'
<1>1. n = last + 1 /\ n \in Helpers /\ last \in Nat /\ last' = n
  BY CountTypes DEF Starts, IndInv
<1>2. \A h \in Helpers \ {n} : Same(helper'[h], helper[h]) BY DEF Starts
<1>3. ASSUME NEW h \in Helpers
      PROVE  /\ h <= last' <=> helper'[h].kind # "none"
             /\ helper'[h].kind = "none" => helper'[h].stage = "none"
  <2>1. CASE h = n BY <1>1, <2>1, Numbers DEF Starts
  <2>2. CASE h # n
    <3>1. h <= n <=> h <= last BY <1>1, <2>2, Numbers
    <3>2. helper'[h].kind = helper[h].kind /\ helper'[h].stage = helper[h].stage
      BY <1>2, <2>2 DEF Same
    <3>3. QED BY <1>1, <3>1, <3>2 DEF IndInv, HelpersInv
  <2>3. QED BY <2>1, <2>2
<1>4. ASSUME NEW h \in Live', h # n
      PROVE  h \in Live /\ helper'[h].pid = helper[h].pid
  <2>1. h \in Helpers \ {n} /\ h \in Live BY <1>4, StartedSets DEF Live
  <2>2. QED BY <1>2, <2>1 DEF Same
<1>5. n \in Live' => helper'[n].stage = "running" BY StartedSets
<1>6. ASSUME NEW h \in Live' PROVE helper'[h].pid \in Pids
  <2>1. CASE h = n BY <1>5, <2>1, FreePidsFacts DEF Starts
  <2>2. CASE h # n BY <1>4, <2>2 DEF IndInv, HelpersInv
  <2>3. QED BY <2>1, <2>2
<1>7. ASSUME NEW h \in Live', n \in Live', h # n, helper'[h].pid = helper'[n].pid
      PROVE  pid_reused'
  <2>1. h \in Live /\ helper[h].pid = helper'[n].pid BY <1>4, <1>7
  <2>2. helper'[n].stage = "running" BY <1>5, <1>7
  <2>3. helper'[n].pid \in PidsOf("exited")
    BY <2>1, <2>2, FreePidsFacts DEF Starts
  <2>4. QED BY <2>2, <2>3 DEF Starts
<1>8. ASSUME NEW h \in Live', NEW k \in Live', helper'[h].pid = helper'[k].pid
      PROVE  h = k \/ pid_reused'
  <2>1. CASE h # n /\ k # n
    BY <1>4, <1>8, <2>1, StartedSets DEF IndInv, HelpersInv
  <2>2. CASE h = n \/ k = n BY <1>7, <1>8, <2>2
  <2>3. QED BY <2>1, <2>2
<1>9. QED BY <1>3, <1>6, <1>8 DEF HelpersInv

\* The record of a helper that was just started.
Spawned(kind, pid, c) ==
  [NoHelper EXCEPT !.kind = kind, !.pid = pid, !.stage = "running", !.covers = c]

\* It runs with the pid and for the calls so far.
LEMMA SpawnedFields ==
  ASSUME IndInv, NEW kind \in {"update", "poll"}, NEW pid \in FreePids,
         NEW c \in 0..MaxCalls
  PROVE  /\ IsHelper(Spawned(kind, pid, c))
         /\ Spawned(kind, pid, c).kind = kind
         /\ Spawned(kind, pid, c).pid = pid
         /\ Spawned(kind, pid, c).stage = "running"
<1> DEFINE r == Spawned(kind, pid, c)
<1>1. pid \in Pids BY FreePidsFacts
<1>2. /\ r.kind = kind /\ r.pid = pid /\ r.stage = "running"
      /\ r.killed = FALSE /\ r.ok = FALSE /\ r.covers = c /\ r.seen = "none"
      /\ DOMAIN r = DOMAIN NoHelper /\ r = [f \in DOMAIN r |-> r[f]]
  BY DEF NoHelper, Spawned
<1> HIDE DEF r
<1>3. IsHelper(r) BY <1>1, <1>2 DEF IsHelper, NoHelper
<1>4. QED BY <1>2, <1>3 DEF r

\* kill marks polls that run, and changes nothing else.
LEMMA KillFields ==
  ASSUME IndInv, NEW pid, NEW h \in Helpers
  PROVE  /\ IsHelper(kill(pid)[h])
         /\ Same(kill(pid)[h], helper[h])
         /\ helper[h].killed => kill(pid)[h].killed
         /\ /\ helper[h].kind = "poll"
            /\ helper[h].stage = "running"
            /\ helper[h].pid = pid
            => kill(pid)[h].killed
<1>1. IsHelper(helper[h]) BY DEF IndInv, Typed
<1>2. CASE kill(pid)[h] = helper[h] /\ ~(/\ helper[h].kind = "poll"
                                         /\ helper[h].stage = "running"
                                         /\ helper[h].pid = pid)
  BY <1>1, <1>2 DEF Same
<1>3. CASE kill(pid)[h] = [helper[h] EXCEPT !.killed = TRUE]
  <2> DEFINE q == [helper[h] EXCEPT !.killed = TRUE]
  <2>1. IsHelper(q) /\ Same(q, helper[h]) /\ q.killed
    BY <1>1 DEF IsHelper, Same
  <2> HIDE DEF q
  <2>2. kill(pid)[h] = q BY <1>3 DEF q
  <2>3. QED BY <2>1, <2>2
<1>4. QED BY <1>2, <1>3 DEF kill

\* There is always a number for the next helper.
LEMMA NextNumber ==
  ASSUME IndInv, due \/ idles > 0 \/ poll_requested
  PROVE  last + 1 \in Helpers
<1>1. /\ last \in Nat /\ idles \in Nat /\ changes \in 0..MaxChanges
      /\ calls \in 0..MaxCalls
  BY CountTypes DEF IndInv, Typed
<1>2. last + 1 <= changes + calls BY <1>1 DEF IndInv, BudgetInv
<1>3. QED BY <1>1, <1>2, Numbers

\* An update is started.
LEMMA UpdateKeepsIndInv ==
  ASSUME IndInv, storage_volume_group_update
  PROVE  IndInv'
<1> DEFINE n == last + 1
<1>1. n \in Helpers BY NextNumber DEF storage_volume_group_update
<1>2. PICK pid \in FreePids : Spawns("update", pid, helper)
  BY DEF storage_volume_group_update
<1> DEFINE r == [NoHelper EXCEPT !.kind = "update", !.pid = pid,
                                 !.stage = "running",
                                 !.covers = IF "update" = "poll" THEN calls ELSE 0]
<1>3. helper' = [helper EXCEPT ![n] = r]
        /\ pid_reused' = (pid_reused \/ pid \in PidsOf("exited"))
  BY <1>2 DEF Spawns
<1>4. IsHelper(r) /\ r.kind = "update" /\ r.pid = pid /\ r.stage = "running"
  <2>1. PICK c \in 0..MaxCalls : c = 0 BY Numbers
  <2>2. PICK kind \in {"update", "poll"} : kind = "update" OBVIOUS
  <2>3. r = Spawned(kind, pid, c) BY <2>1, <2>2 DEF Spawned
  <2> HIDE DEF r
  <2>4. /\ IsHelper(Spawned(kind, pid, c))
        /\ Spawned(kind, pid, c).kind = kind
        /\ Spawned(kind, pid, c).pid = pid
        /\ Spawned(kind, pid, c).stage = "running"
    BY SpawnedFields
  <2>5. QED BY <2>2, <2>3, <2>4
<1> HIDE DEF r
<1>5. \A h \in Helpers : helper'[h] = IF h = n THEN r ELSE helper[h]
  BY <1>1, <1>3 DEF IndInv, Typed
<1>6. Starts(n)
  <2>1. last' = n BY DEF storage_volume_group_update
  <2>2. helper' = [h \in Helpers |-> helper'[h]] BY <1>3 DEF IndInv, Typed
  <2>3. \A h \in Helpers \ {n} : IsHelper(helper'[h]) /\ Same(helper'[h], helper[h])
    BY <1>5 DEF IndInv, Typed, Same
  <2>4. helper'[n] = r BY <1>1, <1>5
  <2> HIDE DEF n
  <2>5. QED BY <1>1, <1>3, <1>4, <2>1, <2>2, <2>3, <2>4 DEF Starts, n
<1>7. /\ Live' = Live \cup {n} /\ n \notin Live /\ Polls' = Polls
      /\ Updates' = Updates \cup {n} /\ n \notin Polls
      /\ \A h \in Updates : h < n
      /\ pid_reused => pid_reused'
  BY <1>1, <1>4, <1>5, <1>6, StartedSets DEF Updates
<1>8. /\ due /\ in_table /\ due' = FALSE /\ last' = n /\ refs' = refs + 1
      /\ current' = FALSE
      /\ UNCHANGED <<lvm, changes, in_table, waiting, info, shown, calls, idles,
                     poll_timeout_id, poll_requested, poll_pid, shown_by,
                     poll_shown, served>>
  BY DEF storage_volume_group_update, lvmVars, pollVars
<1>9. RefsAreBalanced' /\ refs' \in Nat
  <2>1. Cardinality(Live') = Cardinality(Live) + 1
    BY <1>7, LiveFinite, FS_AddElement
  <2>2. refs' = Cardinality(Live') + idles + (IF poll_timeout_id THEN 1 ELSE 0)
                + (IF in_table THEN 1 ELSE 0) + waiting
    BY <1>8, <2>1, Balance, CountTypes DEF IndInv
  <2>3. refs' \in Nat BY <1>8, CountTypes DEF IndInv
  <2>4. QED BY <1>8, <2>2, <2>3 DEF RefsAreBalanced, Live
<1> HIDE DEF n
<1>10. Typed'
  <2>1. \A h \in Helpers : IsHelper(helper'[h])
    BY <1>4, <1>5 DEF IndInv, Typed
  <2>2. helper' = [h \in Helpers |-> helper'[h]] BY <1>6 DEF Starts
  <2>3. pid_reused' \in BOOLEAN BY <1>3 DEF IndInv, Typed
  <2>4. QED BY <1>1, <1>7, <1>8, <1>9, <2>1, <2>2, <2>3 DEF IndInv, Typed
<1>11. HelpersInv' BY <1>6, StartKeepsHelpersInv
<1>12. BudgetInv' BY <1>8, CountTypes DEF IndInv, BudgetInv, n
<1>13. OnePollRuns'
  <2>1. \A h \in Polls : helper'[h] = helper[h] BY <1>5, <1>7 DEF Polls
  <2>2. QED BY <1>7, <1>8, <2>1 DEF IndInv, OnePollRuns, IsNewestOf
<1>14. ShownInv'
  <2>1. \A h \in Updates : ~(n <= h) BY <1>1, <1>7, Numbers DEF Updates
  <2>2. \A h \in Updates : ~IsNewestOf(h, Updates') BY <1>7, <2>1 DEF IsNewestOf
  <2>3. helper'[n].stage # "exited" BY <1>1, <1>4, <1>5
  <2>4. QED BY <1>7, <1>8, <2>2, <2>3 DEF IndInv, ShownInv
<1>15. QED BY <1>9, <1>10, <1>11, <1>12, <1>13, <1>14 DEF IndInv

-----------------------------------------------------------------------------
\* What poll_now does to the helpers.
PollStarts(n) ==
  /\ Starts(n)
  /\ helper'[n].kind = "poll"
  /\ \/ /\ helper'[n].stage = "running"
        /\ poll_pid' = helper'[n].pid
        /\ refs' = refs + 1
        /\ served' = served
     \/ /\ helper'[n].stage = "taken"
        /\ poll_pid' = 0
        /\ refs' = refs
        /\ served' = calls
  /\ \A h \in Helpers \ {n} :
       /\ helper[h].killed => helper'[h].killed
       /\ /\ helper[h].kind = "poll"
          /\ helper[h].stage = "running"
          /\ helper[h].pid = poll_pid
          => helper'[h].killed

\* poll_now starts the next helper and kills the one that poll_pid names.
LEMMA PollNowStarts ==
  ASSUME IndInv, poll_now, last + 1 \in Helpers
  PROVE  PollStarts(last + 1)
<1> DEFINE n == last + 1
<1> DEFINE kills == kill(poll_pid)
<1>1. n \in Helpers /\ last' = n BY DEF poll_now
<1>2. kills = [h \in Helpers |-> kills[h]] BY DEF kill
<1>3. \A h \in Helpers :
        /\ IsHelper(kills[h])
        /\ Same(kills[h], helper[h])
        /\ helper[h].killed => kills[h].killed
        /\ /\ helper[h].kind = "poll"
           /\ helper[h].stage = "running"
           /\ helper[h].pid = poll_pid
           => kills[h].killed
  BY KillFields
<1>4. ASSUME NEW r, helper' = [kills EXCEPT ![n] = r], IsHelper(r), r.kind = "poll",
             \/ /\ r.stage = "running"
                /\ r.pid \in FreePids
                /\ pid_reused' = (pid_reused \/ r.pid \in PidsOf("exited"))
                /\ poll_pid' = r.pid
                /\ refs' = refs + 1
                /\ served' = served
             \/ /\ r.stage = "taken"
                /\ pid_reused' = pid_reused
                /\ poll_pid' = 0
                /\ refs' = refs
                /\ served' = calls
      PROVE  PollStarts(n)
  <2> HIDE DEF n, kills
  <2>1. helper' = [h \in Helpers |-> helper'[h]] BY <1>2, <1>4
  <2>2. helper'[n] = r BY <1>1, <1>2, <1>4
  <2>3. \A h \in Helpers \ {n} : helper'[h] = kills[h] BY <1>2, <1>4
  <2>4. \A h \in Helpers \ {n} : IsHelper(helper'[h]) /\ Same(helper'[h], helper[h])
    BY <1>3, <2>3
  <2>5. Starts(n)
    BY <1>1, <1>4, <2>1, <2>2, <2>4 DEF Starts, n
  <2>6. \A h \in Helpers \ {n} :
          /\ helper[h].killed => helper'[h].killed
          /\ /\ helper[h].kind = "poll"
             /\ helper[h].stage = "running"
             /\ helper[h].pid = poll_pid
             => helper'[h].killed
    BY <1>3, <2>3
  <2>7. QED BY <1>4, <2>2, <2>5, <2>6 DEF PollStarts
<1>5. CASE \E pid \in FreePids : /\ Spawns("poll", pid, kill(poll_pid))
                                 /\ poll_pid' = pid
                                 /\ refs' = refs + 1
                                 /\ UNCHANGED served
  <2>1. PICK pid \in FreePids : /\ Spawns("poll", pid, kill(poll_pid))
                                /\ poll_pid' = pid
                                /\ refs' = refs + 1
                                /\ UNCHANGED served
    BY <1>5
  <2>2. PICK kind \in {"update", "poll"} : kind = "poll" OBVIOUS
  <2> DEFINE r == [NoHelper EXCEPT !.kind = kind, !.pid = pid, !.stage = "running",
                                   !.covers = IF kind = "poll" THEN calls ELSE 0]
  <2>3. /\ helper' = [kills EXCEPT ![n] = r]
        /\ pid_reused' = (pid_reused \/ pid \in PidsOf("exited"))
    BY <2>1, <2>2 DEF Spawns
  <2>4. PICK c \in 0..MaxCalls : r = Spawned(kind, pid, c)
    BY <2>2 DEF IndInv, Typed, Spawned
  <2> HIDE DEF r, n, kills
  <2>5. IsHelper(r) /\ r.kind = kind /\ r.pid = pid /\ r.stage = "running"
    <3>1. /\ IsHelper(Spawned(kind, pid, c))
          /\ Spawned(kind, pid, c).kind = kind
          /\ Spawned(kind, pid, c).pid = pid
          /\ Spawned(kind, pid, c).stage = "running"
      BY SpawnedFields
    <3>2. QED BY <2>4, <3>1
  <2>6. r.kind = "poll" /\ r.pid \in FreePids /\ poll_pid' = r.pid
          /\ refs' = refs + 1 /\ served' = served
          /\ pid_reused' = (pid_reused \/ r.pid \in PidsOf("exited"))
    BY <2>1, <2>2, <2>3, <2>5
  <2>7. QED BY <1>4, <2>3, <2>5, <2>6 DEF n
<1>6. CASE /\ helper' = [kill(poll_pid) EXCEPT ![last + 1].kind = "poll",
                                               ![last + 1].stage = "taken"]
           /\ poll_pid' = 0
           /\ served' = calls
           /\ UNCHANGED <<refs, pid_reused>>
  <2> DEFINE q == kills[n]
  <2> DEFINE r == [q EXCEPT !.kind = "poll", !.stage = "taken"]
  <2>1. helper' = [kills EXCEPT ![n] = r] BY <1>1, <1>2, <1>6
  <2>2. IsHelper(q) BY <1>1, <1>3
  <2> HIDE DEF q
  <2>3. IsHelper(r) /\ r.kind = "poll" /\ r.stage = "taken" BY <2>2 DEF IsHelper
  <2> HIDE DEF r, n, kills
  <2>4. QED BY <1>4, <1>6, <2>1, <2>3 DEF n
<1>7. QED BY <1>5, <1>6 DEF poll_now

\* poll_now, called by poll_in_main or by poll_timeout.
LEMMA PollNowKeepsIndInv ==
  ASSUME IndInv, poll_now,
         \/ /\ idles > 0 /\ idles' = idles - 1
            /\ ~poll_timeout_id /\ UNCHANGED poll_requested
         \/ /\ poll_timeout_id /\ poll_requested
            /\ poll_requested' = FALSE /\ UNCHANGED idles,
         UNCHANGED <<lvmVars, due, in_table, waiting, info, shown, calls, shown_by,
                     poll_shown, current>>
  PROVE  IndInv'
<1> DEFINE n == last + 1
<1>1. n \in Helpers BY NextNumber
<1>2. PollStarts(n) BY <1>1, PollNowStarts
<1>3. Starts(n) /\ helper'[n].kind = "poll" BY <1>2 DEF PollStarts
<1>4. last' = n /\ last \in Nat /\ n = last + 1 BY <1>3, CountTypes DEF Starts, IndInv
<1> HIDE DEF n
<1>5. /\ Live' = IF helper'[n].stage = "running" THEN Live \cup {n} ELSE Live
      /\ Polls' = Polls \cup {n}
      /\ Updates' = Updates
      /\ n \notin Live /\ n \notin Polls /\ n \notin Updates
      /\ pid_reused => pid_reused'
  BY <1>3, StartedSets
<1>6. \A h \in Polls : h < n
  BY <1>3, StartedSets DEF Polls
<1>7. poll_timeout_id' = TRUE BY DEF poll_now
<1>8. RefsAreBalanced' /\ refs' \in Nat
  <2>1. refs' = Cardinality(Live') + idles' + 1 + (IF in_table THEN 1 ELSE 0) + waiting
    <3>1. refs = Cardinality(Live) + idles + (IF poll_timeout_id THEN 1 ELSE 0)
                 + (IF in_table THEN 1 ELSE 0) + waiting
      BY Balance DEF IndInv
    <3>2. idles' + 1 = idles + (IF poll_timeout_id THEN 1 ELSE 0)
      BY CountTypes DEF IndInv
    <3>3. CASE helper'[n].stage = "running" /\ refs' = refs + 1
      <4>1. Cardinality(Live') = Cardinality(Live) + 1
        BY <1>5, <3>3, LiveFinite, FS_AddElement
      <4>2. idles' \in Nat BY CountTypes DEF IndInv
      <4>3. QED BY <3>1, <3>2, <3>3, <4>1, <4>2, CountTypes DEF IndInv
    <3>4. CASE helper'[n].stage = "taken" /\ refs' = refs
      <4>1. Live' = Live BY <1>5, <3>4
      <4>2. idles' \in Nat BY CountTypes DEF IndInv
      <4>3. QED BY <3>1, <3>2, <3>4, <4>1, <4>2, CountTypes DEF IndInv
    <3>5. QED BY <1>2, <3>3, <3>4 DEF PollStarts
  <2>2. refs' \in Nat BY <1>2, CountTypes DEF IndInv, PollStarts
  <2>3. QED BY <1>7, <2>1, <2>2 DEF RefsAreBalanced, Live
<1>9. \A h \in Helpers : IsHelper(helper'[h]) BY <1>3 DEF Starts
<1>10. poll_pid' \in Pids \cup {0} /\ served' \in 0..MaxCalls
  <2>1. IsHelper(helper'[n]) BY <1>1, <1>9 DEF n
  <2>2. QED BY <1>2, <2>1 DEF PollStarts, IsHelper, IndInv, Typed
<1>11. Typed'
  <2>1. helper' = [h \in Helpers |-> helper'[h]] /\ pid_reused' \in BOOLEAN
    BY <1>3 DEF Starts, IndInv, Typed
  <2>2. idles' \in 0..calls BY Numbers DEF IndInv, Typed
  <2>3. last' \in Helpers BY <1>1, <1>4 DEF n
  <2>4. poll_requested' \in BOOLEAN BY DEF IndInv, Typed
  <2>5. QED BY <1>5, <1>7, <1>8, <1>9, <1>10, <2>1, <2>2, <2>3, <2>4
        DEF IndInv, Typed, lvmVars
<1>12. HelpersInv' BY <1>3, StartKeepsHelpersInv
<1>13. BudgetInv' BY <1>4, CountTypes DEF IndInv, BudgetInv, lvmVars
<1>14. OnePollRuns'
  <2>1. IsNewestOf(n, Polls')
    BY <1>1, <1>5, <1>6, Numbers DEF IsNewestOf, Polls, n
  <2>2. ASSUME poll_pid' # 0
        PROVE  /\ n \in Polls' /\ helper'[n].pid = poll_pid'
               /\ helper'[n].stage \in {"running", "exited"}
    BY <1>2, <1>5, <2>2 DEF PollStarts
  <2>3. ASSUME NEW h \in Polls', helper'[h].stage = "running", ~helper'[h].killed
        PROVE  \/ IsNewestOf(h, Polls') /\ poll_pid' = helper'[h].pid
               \/ pid_reused'
    <3>1. CASE h = n BY <1>2, <2>1, <2>3, <3>1 DEF PollStarts
    <3>2. CASE h # n
      <4>1. h \in Polls /\ h \in Helpers \ {n} BY <1>5, <3>2 DEF Polls
      <4>2. Same(helper'[h], helper[h]) BY <1>3, <4>1 DEF Starts
      <4>3. /\ helper[h].stage = "running" /\ ~helper[h].killed
            /\ helper[h].kind = "poll" /\ helper[h].pid # poll_pid
        BY <1>2, <2>3, <4>1, <4>2 DEF PollStarts, Same, Polls
      <4>4. pid_reused BY <4>1, <4>3 DEF IndInv, OnePollRuns
      <4>5. QED BY <1>5, <4>4
    <3>3. QED BY <3>1, <3>2
  <2>4. QED BY <2>1, <2>2, <2>3 DEF OnePollRuns
<1>15. ShownInv'
  <2>1. \A h \in Updates : Same(helper'[h], helper[h])
    BY <1>3, <1>5 DEF Starts, Updates
  <2>2. \A h \in Updates : /\ helper'[h].stage = helper[h].stage
                           /\ helper'[h].ok = helper[h].ok
                           /\ helper'[h].seen = helper[h].seen
    BY <2>1 DEF Same
  <2>3. QED BY <1>5, <2>2 DEF IndInv, ShownInv, lvmVars
<1>16. QED BY <1>8, <1>11, <1>12, <1>13, <1>14, <1>15 DEF IndInv

\* poll_in_main leaves the call to the timer or polls now.
LEMMA PollInMainKeepsIndInv ==
  ASSUME IndInv, poll_in_main
  PROVE  IndInv'
<1>1. CASE poll_timeout_id BY <1>1, TimerKeepsIndInv DEF poll_in_main, history
<1>2. CASE ~poll_timeout_id BY <1>2, PollNowKeepsIndInv DEF poll_in_main
<1>3. QED BY <1>1, <1>2

\* poll_timeout polls once more or ends the timer.
LEMMA PollTimeoutKeepsIndInv ==
  ASSUME IndInv, poll_timeout
  PROVE  IndInv'
<1>1. CASE poll_requested BY <1>1, PollNowKeepsIndInv DEF poll_timeout
<1>2. CASE ~poll_requested BY <1>2, TimerKeepsIndInv DEF poll_timeout, history
<1>3. QED BY <1>1, <1>2

-----------------------------------------------------------------------------
\* A helper exits.
LEMMA ShowKeepsIndInv ==
  ASSUME IndInv, NEW h \in Helpers, show_volume_group(h)
  PROVE  IndInv'
<1> DEFINE r == helper[h]
<1> DEFINE q == helper'[h]
<1>1. IsHelper(r) /\ r.stage = "running" /\ ~r.ok
  BY DEF IndInv, Typed, IsHelper, show_volume_group
<1>2. \/ q = [r EXCEPT !.stage = "exited", !.ok = TRUE, !.seen = lvm]
      \/ q = [r EXCEPT !.stage = "exited"]
  BY DEF IndInv, Typed, show_volume_group
<1>3. \A k \in Helpers : k # h => helper'[k] = helper[k]
  BY DEF IndInv, Typed, show_volume_group
<1>4. helper' = [k \in Helpers |-> helper'[k]]
  BY DEF IndInv, Typed, show_volume_group
<1>5. UNCHANGED <<lvm, changes, due, in_table, waiting, refs, info, shown, calls, idles,
                  poll_timeout_id, poll_requested, poll_pid, last, pid_reused,
                  shown_by, poll_shown, served, current>>
  BY DEF show_volume_group, lvmVars, pollVars, history
<1> HIDE DEF r, q
<1>6. lvm \in Contents BY DEF IndInv, Typed
<1>7. /\ IsHelper(q) /\ q.stage = "exited" /\ q.kind = r.kind /\ q.pid = r.pid
      /\ q.ok => q.seen = lvm
  <2>1. CASE q = [r EXCEPT !.stage = "exited", !.ok = TRUE, !.seen = lvm]
    BY <1>1, <1>6, <2>1 DEF IsHelper
  <2>2. CASE q = [r EXCEPT !.stage = "exited"]
    BY <1>1, <2>2 DEF IsHelper
  <2>3. QED BY <1>2, <2>1, <2>2
<1>8. \A k \in Helpers : /\ IsHelper(helper'[k])
                         /\ helper'[k].kind = helper[k].kind
                         /\ helper'[k].pid = helper[k].pid
  BY <1>3, <1>7 DEF q, r, IndInv, Typed
<1>9. \A k \in Helpers : /\ helper'[k].stage \in {"running", "exited"}
                            <=> helper[k].stage \in {"running", "exited"}
                         /\ helper'[k].stage = "none" <=> helper[k].stage = "none"
  BY <1>1, <1>3, <1>7 DEF q, r
<1>10. Live' = Live BY <1>9 DEF Live
<1>11. Polls' = Polls /\ Updates' = Updates BY <1>8 DEF Polls, Updates
<1>12. Typed' BY <1>4, <1>5, <1>8, <1>11 DEF IndInv, Typed
<1>13. HelpersInv'
  <2>1. \A k \in Live : helper'[k].pid = helper[k].pid BY <1>8 DEF Live
  <2>2. QED BY <1>5, <1>8, <1>9, <1>10, <2>1 DEF IndInv, HelpersInv
<1>14. BudgetInv' BY <1>5 DEF IndInv, BudgetInv
<1>15. RefsAreBalanced' BY <1>5, <1>10 DEF IndInv, RefsAreBalanced, Live
<1>16. OnePollRuns'
  <2>1. \A k \in Polls : helper'[k].pid = helper[k].pid
    BY <1>8 DEF Polls
  <2>2. \A k \in Polls : helper[k].stage \in {"running", "exited"}
                           => helper'[k].stage \in {"running", "exited"}
    BY <1>9 DEF Polls
  <2>3. \A k \in Polls : helper'[k].stage = "running" => helper'[k] = helper[k]
    BY <1>3, <1>7 DEF q, Polls
  <2>4. poll_pid' # 0 =>
          \E g \in Polls' : /\ IsNewestOf(g, Polls')
                            /\ helper'[g].pid = poll_pid'
                            /\ helper'[g].stage \in {"running", "exited"}
    BY <1>5, <1>11, <2>1, <2>2 DEF IndInv, OnePollRuns
  <2>5. \A g \in Polls' :
          helper'[g].stage = "running" /\ ~helper'[g].killed =>
            \/ IsNewestOf(g, Polls') /\ poll_pid' = helper'[g].pid
            \/ pid_reused'
    BY <1>5, <1>11, <2>1, <2>3 DEF IndInv, OnePollRuns
  <2>6. QED BY <2>4, <2>5 DEF OnePollRuns
<1>17. ShownInv'
  <2>1. \A k \in Updates : \/ helper'[k] = helper[k]
                           \/ helper'[k].ok => helper'[k].seen = lvm
    BY <1>3, <1>7 DEF q, Updates
  <2>2. QED BY <1>5, <1>11, <2>1 DEF IndInv, ShownInv
<1>18. QED BY <1>12, <1>13, <1>14, <1>15, <1>16, <1>17 DEF IndInv

\* What taking the answer of h does to the helpers.
IsTaken(h) ==
  /\ h \in Live
  /\ Live' = Live \ {h}
  /\ Polls' = Polls
  /\ Updates' = Updates
  /\ helper' = [k \in Helpers |-> helper'[k]]
  /\ \A k \in Helpers : IsHelper(helper'[k])
  /\ \A k \in Helpers : k # h => helper'[k] = helper[k]
  /\ helper'[h].stage = "taken"
  /\ helper'[h].kind = helper[h].kind

\* Taken as it is used by the two callbacks.
LEMMA TakenFacts ==
  ASSUME IndInv, NEW h \in Helpers, helper[h].stage = "exited", Taken(h)
  PROVE  IsTaken(h)
<1> DEFINE kind == helper[h].kind
<1> DEFINE t == [NoHelper EXCEPT !.kind = kind, !.stage = "taken"]
<1>1. kind \in {"none", "update", "poll"} BY DEF IndInv, Typed, IsHelper
<1>2. helper' = [helper EXCEPT ![h] = t] BY DEF Taken
<1> HIDE DEF kind
<1>3. t.kind = kind /\ t.stage = "taken" /\ IsHelper(t)
  BY <1>1, NoHelperFields DEF IsHelper
<1> HIDE DEF t
<1>4. helper' = [k \in Helpers |-> helper'[k]] BY <1>2 DEF IndInv, Typed
<1>5. helper'[h] = t BY <1>2 DEF IndInv, Typed
<1>6. \A k \in Helpers : k # h => helper'[k] = helper[k] BY <1>2 DEF IndInv, Typed
<1>7. \A k \in Helpers : IsHelper(helper'[k]) BY <1>3, <1>5, <1>6 DEF IndInv, Typed
<1>8. \A k \in Helpers : helper'[k].kind = helper[k].kind
  BY <1>3, <1>5, <1>6 DEF kind
<1>9. h \in Live /\ Live' = Live \ {h} BY <1>3, <1>5, <1>6 DEF Live
<1>10. Polls' = Polls /\ Updates' = Updates BY <1>8 DEF Polls, Updates
<1>11. QED BY <1>3, <1>4, <1>5, <1>6, <1>7, <1>8, <1>9, <1>10 DEF IsTaken

\* The parts of the invariant that only depend on whose answer was taken.
LEMMA TakenKeepsCounts ==
  ASSUME IndInv, NEW h \in Helpers, IsTaken(h), refs' = refs - 1,
         UNCHANGED <<lvm, changes, due, in_table, waiting, calls, idles, poll_timeout_id,
                     poll_requested, last, pid_reused>>
  PROVE  HelpersInv' /\ BudgetInv' /\ RefsAreBalanced' /\ refs' \in Nat
<1>1. HelpersInv'
  <2>1. \A k \in Helpers : helper'[k].kind = helper[k].kind BY DEF IsTaken
  <2>2. \A k \in Helpers : helper[k].stage = "none" => helper'[k].stage = "none"
    BY DEF IsTaken, Live
  <2>3. \A k \in Live' : k \in Live /\ helper'[k] = helper[k] BY DEF IsTaken, Live
  <2>4. QED BY <2>1, <2>2, <2>3 DEF IndInv, HelpersInv
<1>2. BudgetInv' BY DEF IndInv, BudgetInv
<1>3. RefsAreBalanced' /\ refs' \in Nat
  <2>1. Cardinality(Live') = Cardinality(Live) - 1
    BY LiveFinite, FS_RemoveElement DEF IsTaken
  <2>2. IsFiniteSet(Live') /\ Cardinality(Live') \in Nat
    BY LiveFinite, FS_RemoveElement, FS_CardinalityType DEF IsTaken
  <2>3. refs' = Cardinality(Live') + idles + (IF poll_timeout_id THEN 1 ELSE 0)
                + (IF in_table THEN 1 ELSE 0) + waiting
    BY <2>1, <2>2, Balance, CountTypes DEF IndInv
  <2>4. refs' \in Nat BY <2>2, <2>3, CountTypes DEF IndInv
  <2>5. QED BY <2>3, <2>4 DEF RefsAreBalanced, Live
<1>4. QED BY <1>1, <1>2, <1>3

\* The answer of a poll whose pid is in poll_pid is that of the newest poll,
\* unless a pid was used again.
LEMMA AnswerIsNewest ==
  ASSUME IndInv, NEW h \in Live, helper[h].pid = poll_pid
  PROVE  /\ poll_pid # 0
         /\ \A g \in Live : helper[g].pid = poll_pid => g = h \/ pid_reused
         /\ IsNewestOf(h, Polls) \/ pid_reused
<1>1. poll_pid # 0 BY PidsAssumption DEF IndInv, HelpersInv
<1>2. \A g \in Live : helper[g].pid = poll_pid => g = h \/ pid_reused
  BY DEF IndInv, HelpersInv
<1>3. PICK g \in Polls : /\ IsNewestOf(g, Polls)
                         /\ helper[g].pid = poll_pid
                         /\ helper[g].stage \in {"running", "exited"}
  BY <1>1 DEF IndInv, OnePollRuns
<1>4. g \in Live BY <1>3 DEF Polls, Live
<1>5. QED BY <1>1, <1>2, <1>3, <1>4

\* The answer of a poll is taken.
LEMMA PollAnswerKeepsIndInv ==
  ASSUME IndInv, NEW h \in Helpers, poll_with_variant(h)
  PROVE  IndInv'
<1>1. IsTaken(h) /\ h \in Polls /\ h \in Live
  BY TakenFacts DEF poll_with_variant, Ready, Polls, IsTaken
<1>2. UNCHANGED <<lvm, changes, due, in_table, waiting, info, calls, idles, poll_timeout_id,
                  poll_requested, last, pid_reused>>
  BY DEF poll_with_variant, lvmVars
<1>3. refs' = refs - 1
  BY DEF poll_with_variant, DropAnswer, PollFailed, PollAnswered
<1>4. HelpersInv' /\ BudgetInv' /\ RefsAreBalanced' /\ refs' \in Nat
  BY <1>1, <1>2, <1>3, TakenKeepsCounts
<1>5. IsHelper(helper[h]) BY DEF IndInv, Typed
<1>6. /\ shown' \in Contents
      /\ shown_by' \in {"update", "poll"}
      /\ poll_shown' \in Polls \cup {0}
      /\ served' \in 0..MaxCalls
      /\ current' = current
      /\ poll_pid' \in {poll_pid, 0}
      /\ (shown' = shown /\ shown_by' = shown_by) \/ shown_by' = "poll"
  <2>1. CASE DropAnswer BY <2>1 DEF IndInv, Typed, DropAnswer, history
  <2>2. CASE PollFailed(h) BY <1>5, <2>2 DEF IndInv, Typed, PollFailed, IsHelper
  <2>3. CASE PollAnswered(h) /\ helper[h].ok
    BY <1>1, <1>5, <2>3 DEF PollAnswered, IsHelper
  <2>4. QED BY <2>1, <2>2, <2>3 DEF poll_with_variant
<1>7. Typed'
  <2>1. poll_pid' \in Pids \cup {0} BY <1>6 DEF IndInv, Typed
  <2>2. QED BY <1>1, <1>2, <1>4, <1>6, <2>1 DEF IndInv, Typed, IsTaken
<1>8. OnePollRuns'
  <2>1. \/ helper[h].pid # poll_pid /\ poll_pid' = poll_pid
        \/ helper[h].pid = poll_pid /\ poll_pid' = 0
    BY DEF poll_with_variant, IsNewest, DropAnswer, PollFailed, PollAnswered
  <2>2. \A g \in Polls : g # h => helper'[g] = helper[g] BY <1>1 DEF IsTaken, Polls
  <2>3. poll_pid' # 0 =>
          \E g \in Polls' : /\ IsNewestOf(g, Polls')
                            /\ helper'[g].pid = poll_pid'
                            /\ helper'[g].stage \in {"running", "exited"}
    BY <1>1, <2>1, <2>2 DEF IndInv, OnePollRuns, IsTaken
  <2>4. ASSUME NEW g \in Polls', helper'[g].stage = "running", ~helper'[g].killed
        PROVE  \/ IsNewestOf(g, Polls') /\ poll_pid' = helper'[g].pid
               \/ pid_reused'
    <3>1. g \in Polls /\ g # h /\ Polls' = Polls BY <1>1, <2>4 DEF IsTaken
    <3>2. helper'[g] = helper[g] BY <2>2, <3>1
    <3>3. CASE helper[h].pid # poll_pid /\ poll_pid' = poll_pid
      BY <1>2, <2>4, <3>1, <3>2, <3>3 DEF IndInv, OnePollRuns
    <3>4. CASE helper[h].pid = poll_pid
      <4>1. g \in Live BY <2>4, <3>1, <3>2 DEF Live, Polls
      <4>2. helper[g].pid = poll_pid \/ pid_reused
        BY <2>4, <3>1, <3>2 DEF IndInv, OnePollRuns
      <4>3. pid_reused BY <1>1, <3>1, <3>4, <4>1, <4>2, AnswerIsNewest
      <4>4. QED BY <1>2, <4>3
    <3>5. QED BY <2>1, <3>3, <3>4
  <2>5. QED BY <2>3, <2>4 DEF OnePollRuns
<1>9. ShownInv'
  <2>1. h \notin Updates BY <1>1 DEF Polls, Updates
  <2>2. \A g \in Updates : helper'[g] = helper[g]
    BY <1>1, <2>1 DEF IsTaken, Updates
  <2>3. Updates' = Updates BY <1>1 DEF IsTaken
  <2>4. QED BY <1>2, <1>6, <2>2, <2>3 DEF IndInv, ShownInv
<1>10. QED BY <1>4, <1>7, <1>8, <1>9 DEF IndInv

\* The answer of an update is taken.
LEMMA UpdateAnswerKeepsIndInv ==
  ASSUME IndInv, NEW h \in Helpers, update_with_variant(h)
  PROVE  IndInv'
<1>1. IsTaken(h) /\ h \in Updates /\ helper[h].stage = "exited"
  BY TakenFacts DEF update_with_variant, Ready, Updates, IsTaken
<1>2. UNCHANGED <<lvm, changes, due, in_table, waiting, calls, idles, poll_timeout_id,
                  poll_requested, poll_pid, last, pid_reused, poll_shown, served>>
  BY DEF update_with_variant, lvmVars, pollVars
<1>3. refs' = refs - 1 BY DEF update_with_variant
<1>4. HelpersInv' /\ BudgetInv' /\ RefsAreBalanced' /\ refs' \in Nat
  BY <1>1, <1>2, <1>3, TakenKeepsCounts
<1> DEFINE r == helper[h]
<1>5. IsHelper(r) BY DEF IndInv, Typed
<1>6. /\ current' = (r.ok /\ IsNewestOf(h, Updates))
      /\ r.ok => info' = r.seen
      /\ \/ info' = info /\ shown' = shown /\ shown_by' = shown_by
         \/ r.ok /\ info' = r.seen /\ shown' = r.seen /\ shown_by' = "update"
  BY DEF update_with_variant, InfoAfter
<1>7. r.ok \in BOOLEAN /\ (r.ok => r.seen \in Contents) BY <1>5 DEF IsHelper
<1> HIDE DEF r
<1>8. /\ shown' \in Contents
      /\ info' \in Contents \cup {"none"}
      /\ shown_by' \in {"update", "poll"}
      /\ current' \in BOOLEAN
  <2>1. IsNewestOf(h, Updates) \in BOOLEAN BY DEF IsNewestOf
  <2>2. QED BY <1>6, <1>7, <2>1 DEF IndInv, Typed
<1>9. Typed' BY <1>1, <1>2, <1>4, <1>8 DEF IndInv, Typed, IsTaken
<1>10. OnePollRuns'
  <2>1. h \notin Polls BY <1>1 DEF Polls, Updates
  <2>2. \A g \in Polls : helper'[g] = helper[g] BY <1>1, <2>1 DEF IsTaken, Polls
  <2>3. Polls' = Polls BY <1>1 DEF IsTaken
  <2>4. QED BY <1>2, <2>2, <2>3 DEF IndInv, OnePollRuns
<1>11. ShownInv'
  <2>1. \A g \in Updates : helper'[g].stage = "exited" => helper'[g] = helper[g]
    BY <1>1 DEF IsTaken, Updates
  <2>2. Updates' = Updates BY <1>1 DEF IsTaken
  <2>3. SUFFICES ASSUME in_table PROVE ShownInv' BY <1>2 DEF ShownInv
  <2>4. shown_by' = "update" => shown' = info' BY <1>6, <2>3 DEF IndInv, ShownInv
  <2>5. ~due /\ current' => info' = lvm
    BY <1>1, <1>6, <2>3 DEF IndInv, ShownInv, r
  <2>6. QED BY <1>2, <2>1, <2>2, <2>3, <2>4, <2>5 DEF IndInv, ShownInv
<1>12. QED BY <1>4, <1>9, <1>10, <1>11 DEF IndInv

-----------------------------------------------------------------------------
\* Every step keeps the invariant.
LEMMA NextIndInv == IndInv /\ [Next]_vars => IndInv'
<1> SUFFICES ASSUME IndInv, [Next]_vars PROVE IndInv'
  OBVIOUS
<1>1. CASE MetadataChanges BY <1>1, MetadataKeepsIndInv
<1>2. CASE storage_volume_group_update BY <1>2, UpdateKeepsIndInv
<1>3. CASE storage_volume_group_dispose BY <1>3, DisposeKeepsIndInv
<1>4. CASE CallArrives \/ CallRefused \/ handle_poll BY <1>4, CallKeepsIndInv
<1>5. CASE poll_in_main BY <1>5, PollInMainKeepsIndInv
<1>6. CASE poll_timeout BY <1>6, PollTimeoutKeepsIndInv
<1>7. ASSUME NEW h \in Helpers, show_volume_group(h) PROVE IndInv'
  BY <1>7, ShowKeepsIndInv
<1>8. ASSUME NEW h \in Helpers, poll_with_variant(h) PROVE IndInv'
  BY <1>8, PollAnswerKeepsIndInv
<1>9. ASSUME NEW h \in Helpers, update_with_variant(h) PROVE IndInv'
  BY <1>9, UpdateAnswerKeepsIndInv
<1>10. CASE UNCHANGED vars
  BY <1>10 DEF vars, lvmVars, pollVars, history, IndInv, Typed, HelpersInv,
     BudgetInv, RefsAreBalanced, OnePollRuns, ShownInv, Live, Polls, Updates,
     IsNewestOf
<1>11. QED BY <1>1, <1>2, <1>3, <1>4, <1>5, <1>6, <1>7, <1>8, <1>9, <1>10 DEF Next

\* The inductive invariant holds.
THEOREM IndInvHolds == Spec => []IndInv
BY InitIndInv, NextIndInv, PTL DEF Spec

\* Each variable keeps its type: no poll is started for which there is no
\* number, and the reference count does not become negative.
THEOREM TypeCorrect == Spec => []TypeOK
<1>1. ASSUME NEW r, IsHelper(r) PROVE r \in HelperRecord
  <2>1. r = [kind |-> r.kind, pid |-> r.pid, stage |-> r.stage, ok |-> r.ok,
             seen |-> r.seen, killed |-> r.killed, covers |-> r.covers]
    BY <1>1 DEF IsHelper
  <2>2. QED BY <1>1, <2>1 DEF IsHelper, HelperRecord
<1>2. IndInv => TypeOK
  <2> SUFFICES ASSUME IndInv PROVE TypeOK
    OBVIOUS
  <2>1. helper \in [Helpers -> HelperRecord]
    BY <1>1 DEF IndInv, Typed
  <2>2. poll_shown \in Helpers \cup {0} BY DEF IndInv, Typed, Polls
  <2>3. idles \in 0..MaxCalls /\ waiting \in 0..MaxCalls
    BY Numbers DEF IndInv, Typed
  <2>4. QED BY <2>1, <2>2, <2>3 DEF IndInv, Typed, TypeOK
<1>3. QED BY <1>2, IndInvHolds, PTL

\* Each source of the main loop that can reach the group has one reference to
\* it, and each early return of volumegroup.c drops one.
THEOREM ReferencesBalance == Spec => []RefsAreBalanced
<1>1. IndInv => RefsAreBalanced BY DEF IndInv
<1>2. QED BY <1>1, IndInvHolds, PTL

\* poll_now signals the pid of the newest poll, whose answer was not taken, and
\* no other helper goes on polling, unless a pid was used again.
THEOREM OnlyOnePollRuns == Spec => []OnePollRuns
<1>1. IndInv => OnePollRuns BY DEF IndInv
<1>2. QED BY <1>1, IndInvHolds, PTL

\* Only a poll that is shown out of turn keeps the newest update from being
\* what is shown.
THEOREM UpdatesAreShown == Spec => []OnlyPollsMislead
<1>1. IndInv => OnlyPollsMislead BY DEF IndInv, ShownInv, OnlyPollsMislead, Quiet
<1>2. QED BY <1>1, IndInvHolds, PTL

\* The comparison with poll_pid in poll_with_variant keeps the polls in the
\* order they were started in, unless a pid was used again.
THEOREM PollsStayInOrder == Spec => PollsAreShownInOrder
<1>1. ASSUME IndInv, Next PROVE poll_shown' >= poll_shown \/ pid_reused
  <2>1. poll_shown \in Polls \cup {0} /\ poll_shown \in Nat
    BY <1>1, Numbers DEF IndInv, Typed, Polls
  <2>2. CASE UNCHANGED poll_shown BY <2>1, <2>2
  <2>3. ASSUME NEW h \in Helpers, poll_with_variant(h), poll_shown' # poll_shown
        PROVE  poll_shown' >= poll_shown \/ pid_reused
    <3>1. IsNewest(h) /\ poll_shown' = h
      BY <2>3 DEF poll_with_variant, DropAnswer, PollFailed, PollAnswered, history
    <3>2. h \in Live BY <2>3 DEF poll_with_variant, Ready, Live
    <3>3. IsNewestOf(h, Polls) \/ pid_reused
      BY <1>1, <3>1, <3>2, AnswerIsNewest DEF IsNewest
    <3>4. QED BY <2>1, <3>1, <3>3, Numbers DEF IsNewestOf
  <2>4. QED BY <1>1, <2>2, <2>3
        DEF Next, MetadataChanges, storage_volume_group_update,
            storage_volume_group_dispose, CallArrives, CallRefused, handle_poll, poll_in_main,
            poll_timeout, show_volume_group, update_with_variant, history
<1>2. IndInv /\ [Next]_vars => [poll_shown' >= poll_shown \/ pid_reused]_vars
  BY <1>1
<1>3. QED BY <1>2, IndInvHolds, PTL DEF Spec, PollsAreShownInOrder

-----------------------------------------------------------------------------
\* The safety half of CallsAreServedInTheEnd: no call of Poll is forgotten.

\* A poll whose answer is still to come, which will be told from others, and
\* which was not sent SIGINT.
WillServe(h) ==
  /\ helper[h].stage \in {"running", "exited"}
  /\ helper[h].pid = poll_pid
  /\ ~helper[h].killed

\* While a call is not served something under way will serve it: a queued
\* poll_in_main, the timer with the request noted, or a poll that was started
\* after the call and is the one whose answer counts.
NoCallIsForgotten ==
  \/ served = calls
  \/ idles > 0
  \/ poll_timeout_id /\ poll_requested
  \/ \E h \in Polls : WillServe(h) /\ helper[h].covers = calls
  \/ pid_reused

\* What is needed besides: a request is noted only while the timer runs, and
\* the answer that counts is not older than one that came.
CallsInv ==
  /\ served <= calls
  /\ poll_requested => poll_timeout_id
  /\ \A h \in Helpers : helper[h].covers <= calls
  /\ \A h \in Polls : h \in Live /\ helper[h].pid = poll_pid =>
                        (~helper[h].killed /\ helper[h].covers >= served) \/ pid_reused
  /\ NoCallIsForgotten

\* NoCallIsForgotten with Live.
LEMMA WillServeIsLive ==
  ASSUME NEW h \in Helpers
  PROVE  WillServe(h) <=> h \in Live /\ helper[h].pid = poll_pid /\ ~helper[h].killed
BY DEF WillServe, Live

\* The initial state.
LEMMA InitCallsInv == Init => CallsInv
<1> SUFFICES ASSUME Init PROVE CallsInv
  OBVIOUS
<1>1. \A h \in Helpers : helper[h] = NoHelper BY DEF Init
<1>2. \A h \in Helpers : helper[h].covers = 0 /\ helper[h].stage = "none"
  BY <1>1 DEF NoHelper
<1>3. QED BY <1>2 DEF Init, CallsInv, NoCallIsForgotten, Live

\* A step that leaves the calls, the sources and the polls alone.
PollsKept ==
  /\ UNCHANGED <<calls, served, idles, poll_timeout_id, poll_requested, poll_pid>>
  /\ pid_reused => pid_reused'
  /\ Polls' = Polls
  /\ \A h \in Helpers : helper'[h].covers <= calls
  /\ \A h \in Polls : /\ h \in Live' <=> h \in Live
                      /\ helper'[h].pid = helper[h].pid
                      /\ helper'[h].killed = helper[h].killed
                      /\ helper'[h].covers = helper[h].covers

LEMMA PollsKeptCallsInv ==
  ASSUME CallsInv, PollsKept
  PROVE  CallsInv'
<1>1. Polls \subseteq Helpers BY DEF Polls
<1>2. \A h \in Polls : h \in Live' <=> helper'[h].stage \in {"running", "exited"}
  BY <1>1 DEF Live
<1>3. NoCallIsForgotten'
  <2>1. ASSUME NEW h \in Polls, WillServe(h), helper[h].covers = calls
        PROVE  h \in Polls' /\ WillServe(h)' /\ helper'[h].covers = calls'
    <3>1. h \in Live' BY <1>1, <2>1, WillServeIsLive DEF PollsKept
    <3>2. QED BY <1>1, <1>2, <2>1, <3>1 DEF PollsKept, WillServe
  <2>2. QED BY <2>1 DEF CallsInv, NoCallIsForgotten, PollsKept
<1>4. QED BY <1>3 DEF CallsInv, PollsKept

\* What poll_now makes of the calls that a helper covers.
LEMMA PollNowCovers ==
  ASSUME IndInv, poll_now, NEW n \in Helpers, n = last + 1
  PROVE  /\ \A h \in Helpers \ {n} : helper'[h].covers = helper[h].covers
         /\ \/ helper'[n].stage = "running" /\ helper'[n].covers = calls /\ ~helper'[n].killed
            \/ helper'[n].stage = "taken" /\ helper'[n].covers = helper[n].covers
<1> DEFINE kills == kill(poll_pid)
<1>1. kills = [h \in Helpers |-> kills[h]] BY DEF kill
<1>2. \A h \in Helpers : IsHelper(kills[h]) /\ kills[h].covers = helper[h].covers
  BY KillFields DEF Same
<1>3. ASSUME NEW r, helper' = [kills EXCEPT ![n] = r]
      PROVE  /\ helper'[n] = r
             /\ \A h \in Helpers \ {n} : helper'[h].covers = helper[h].covers
  <2> HIDE DEF kills
  <2>1. QED BY <1>1, <1>2, <1>3
<1>4. CASE \E pid \in FreePids : Spawns("poll", pid, kill(poll_pid))
  <2>1. PICK pid \in FreePids : Spawns("poll", pid, kill(poll_pid)) BY <1>4
  <2> DEFINE r == [NoHelper EXCEPT !.kind = "poll", !.pid = pid, !.stage = "running",
                                   !.covers = calls]
  <2>2. helper' = [kills EXCEPT ![n] = r] BY <2>1 DEF Spawns
  <2>3. r.stage = "running" /\ r.covers = calls /\ ~r.killed BY DEF NoHelper
  <2> HIDE DEF r, kills
  <2>4. QED BY <1>3, <2>2, <2>3
<1>5. CASE helper' = [kill(poll_pid) EXCEPT ![last + 1].kind = "poll",
                                            ![last + 1].stage = "taken"]
  <2>1. PICK q : q = kills[n] OBVIOUS
  <2> DEFINE r == [q EXCEPT !.kind = "poll", !.stage = "taken"]
  <2>2. helper' = [kills EXCEPT ![n] = r] BY <1>1, <1>5, <2>1
  <2>3. IsHelper(q) /\ q.covers = helper[n].covers BY <1>2, <2>1
  <2>4. r.stage = "taken" /\ r.covers = q.covers BY <2>3 DEF IsHelper
  <2> HIDE DEF r, kills
  <2>5. QED BY <1>3, <2>2, <2>3, <2>4
<1>6. QED BY <1>4, <1>5 DEF poll_now

\* After poll_now the new poll will serve all calls, or its failure did.
LEMMA PollNowCallsInv ==
  ASSUME IndInv, CallsInv, poll_now, last + 1 \in Helpers,
         UNCHANGED calls, poll_requested' = FALSE \/ UNCHANGED poll_requested
  PROVE  CallsInv'
<1>1. PICK n \in Helpers : n = last + 1 OBVIOUS
<1>2. PollStarts(n) BY <1>1, PollNowStarts
<1>3. /\ \A h \in Helpers \ {n} : helper'[h].covers = helper[h].covers
      /\ \/ helper'[n].stage = "running" /\ helper'[n].covers = calls /\ ~helper'[n].killed
         \/ helper'[n].stage = "taken" /\ helper'[n].covers = helper[n].covers
  BY <1>1, PollNowCovers
<1>4. /\ calls \in Nat /\ served \in Nat /\ served <= calls
  BY Numbers DEF IndInv, Typed, CallsInv
<1>5. served' <= calls' /\ served' \in Nat BY <1>2, <1>4 DEF PollStarts
<1>6. poll_requested' => poll_timeout_id' BY DEF poll_now
<1>7. \A h \in Helpers : helper'[h].covers <= calls'
  BY <1>3, <1>4 DEF CallsInv
<1>8. Live' = (IF helper'[n].stage = "running" THEN Live \cup {n} ELSE Live)
      /\ n \notin Live
  BY <1>2, StartedSets DEF PollStarts
<1>9. n \in Polls' BY <1>2 DEF PollStarts, Polls
<1>10. CASE helper'[n].stage = "running"
  <2>1. poll_pid' = helper'[n].pid /\ served' = served BY <1>2, <1>10 DEF PollStarts
  <2>2. helper'[n].covers = calls /\ ~helper'[n].killed BY <1>3, <1>10
  <2>3. WillServe(n)' BY <1>10, <2>1, <2>2 DEF WillServe
  <2>4. NoCallIsForgotten' BY <1>9, <2>2, <2>3 DEF NoCallIsForgotten
  <2>5. ASSUME NEW h \in Polls', h \in Live', helper'[h].pid = poll_pid'
        PROVE  (~helper'[h].killed /\ helper'[h].covers >= served') \/ pid_reused'
    <3>1. h \in Helpers BY <2>5 DEF Polls
    <3>2. CASE h = n BY <1>4, <2>1, <2>2, <3>2
    <3>3. CASE h # n
      <4>1. h \in Live /\ helper[h].pid = helper'[n].pid
        BY <1>2, <1>8, <2>1, <2>5, <3>1, <3>3 DEF PollStarts, Starts, Same
      <4>2. helper'[n].pid \in FreePids
            /\ pid_reused' = (pid_reused \/ helper'[n].pid \in PidsOf("exited"))
        BY <1>2, <1>10 DEF PollStarts, Starts
      <4>3. QED BY <4>1, <4>2, FreePidsFacts
    <3>4. QED BY <3>2, <3>3
  <2>6. QED BY <1>5, <1>6, <1>7, <2>4, <2>5 DEF CallsInv
<1>11. CASE helper'[n].stage = "taken"
  <2>1. poll_pid' = 0 /\ served' = calls BY <1>2, <1>11 DEF PollStarts
  <2>2. NoCallIsForgotten' BY <2>1 DEF NoCallIsForgotten
  <2>3. ASSUME NEW h \in Live' PROVE helper'[h].pid # 0
    <3>1. h \in Live /\ h \in Helpers \ {n} BY <1>8, <1>11, <2>3 DEF Live
    <3>2. helper'[h].pid = helper[h].pid BY <1>2, <3>1 DEF PollStarts, Starts, Same
    <3>3. QED BY <3>1, <3>2, PidsAssumption DEF IndInv, HelpersInv
  <2>4. QED BY <1>5, <1>6, <1>7, <2>1, <2>2, <2>3 DEF CallsInv
<1>12. QED BY <1>3, <1>10, <1>11

\* poll_in_main notes the request for the timer or polls now.
LEMMA PollInMainCallsInv ==
  ASSUME IndInv, CallsInv, poll_in_main
  PROVE  CallsInv'
<1>1. CASE poll_timeout_id
  <2>1. /\ UNCHANGED <<calls, served, poll_timeout_id, poll_pid, helper, pid_reused>>
        /\ poll_requested' = TRUE
    BY <1>1 DEF poll_in_main
  <2>2. QED BY <1>1, <2>1 DEF CallsInv, NoCallIsForgotten, Polls, Live
<1>2. CASE ~poll_timeout_id
  <2>1. poll_now /\ UNCHANGED <<calls, poll_requested>> /\ idles > 0
    BY <1>2 DEF poll_in_main
  <2>2. QED BY <2>1, NextNumber, PollNowCallsInv
<1>3. QED BY <1>1, <1>2

\* poll_timeout polls if there was a request.
LEMMA PollTimeoutCallsInv ==
  ASSUME IndInv, CallsInv, poll_timeout
  PROVE  CallsInv'
<1>1. CASE poll_requested
  <2>1. poll_now /\ UNCHANGED calls /\ poll_requested' = FALSE
    BY <1>1 DEF poll_timeout
  <2>2. QED BY <1>1, <2>1, NextNumber, PollNowCallsInv
<1>2. CASE ~poll_requested
  <2>1. UNCHANGED <<calls, served, idles, poll_requested, poll_pid, helper, pid_reused>>
    BY <1>2 DEF poll_timeout
  <2>2. Polls' = Polls /\ Live' = Live /\ \A h : WillServe(h)' = WillServe(h)
    BY <2>1 DEF Polls, Live, WillServe
  <2>3. NoCallIsForgotten' BY <1>2, <2>1, <2>2 DEF CallsInv, NoCallIsForgotten
  <2>4. QED BY <1>2, <2>1, <2>2, <2>3 DEF CallsInv
<1>3. QED BY <1>1, <1>2

\* The answer of a poll serves its calls if it counts.
LEMMA PollAnswerCallsInv ==
  ASSUME IndInv, CallsInv, NEW h \in Helpers, poll_with_variant(h)
  PROVE  /\ CallsInv'
         /\ served' >= served \/ pid_reused
<1>1. IsTaken(h) /\ h \in Polls /\ h \in Live
  BY TakenFacts DEF poll_with_variant, Ready, Polls, IsTaken
<1>2. UNCHANGED <<calls, idles, poll_timeout_id, poll_requested, pid_reused>>
  BY DEF poll_with_variant
<1>3. /\ calls \in Nat /\ served \in Nat /\ served <= calls
  BY Numbers DEF IndInv, Typed, CallsInv
<1>4. \A k \in Helpers : helper'[k].covers <= calls'
  <2>1. helper'[h].covers = 0
    BY DEF poll_with_variant, Taken, NoHelper, IndInv, Typed
  <2>2. QED BY <1>1, <1>2, <1>3, <2>1 DEF IsTaken, CallsInv
<1>5. helper[h].covers \in Nat /\ helper[h].covers <= calls
  BY Numbers DEF IndInv, Typed, IsHelper, CallsInv
<1>6. CASE ~IsNewest(h)
  <2>1. UNCHANGED <<served, poll_pid>>
    BY <1>6 DEF poll_with_variant, DropAnswer, history
  <2>2. \A k \in Polls : k \in Live' => k \in Live /\ helper'[k] = helper[k]
    BY <1>1 DEF IsTaken, Live
  <2>3. ASSUME NEW k \in Polls, WillServe(k) PROVE WillServe(k)' /\ helper'[k] = helper[k]
    <3>1. k # h BY <1>6, <2>3 DEF IsNewest, WillServe
    <3>2. helper'[k] = helper[k] BY <1>1, <3>1 DEF IsTaken, Polls
    <3>3. QED BY <2>1, <2>3, <3>2 DEF WillServe
  <2>4. NoCallIsForgotten'
    BY <1>1, <1>2, <2>1, <2>3 DEF CallsInv, NoCallIsForgotten, IsTaken
  <2>5. CallsInv' BY <1>1, <1>2, <1>4, <2>1, <2>2, <2>4 DEF CallsInv, IsTaken
  <2>6. QED BY <1>3, <2>1, <2>5
<1>7. CASE IsNewest(h)
  <2>1. poll_pid' = 0 /\ served' \in {served, helper[h].covers}
        /\ (helper[h].killed \/ served' = helper[h].covers)
    BY <1>7 DEF poll_with_variant, PollFailed, PollAnswered
  <2>2. (~helper[h].killed /\ helper[h].covers >= served) \/ pid_reused
    BY <1>1, <1>7 DEF CallsInv, IsNewest
  <2>3. served' <= calls' /\ (served' >= served \/ pid_reused)
    BY <1>2, <1>3, <1>5, <2>1, <2>2
  <2>4. \A k \in Live' : helper'[k].pid # 0
    <3>1. \A k \in Live' : k \in Live /\ helper'[k] = helper[k] BY <1>1 DEF IsTaken, Live
    <3>2. QED BY <3>1, PidsAssumption DEF IndInv, HelpersInv
  <2>5. NoCallIsForgotten'
    <3>1. SUFFICES ASSUME ~pid_reused, idles = 0, ~(poll_timeout_id /\ poll_requested)
                   PROVE  served' = calls
      BY <1>2 DEF NoCallIsForgotten, IndInv, Typed
    <3>2. served' = helper[h].covers /\ helper[h].covers >= served BY <2>1, <2>2, <3>1
    <3>3. CASE served = calls BY <1>3, <1>5, <3>2, <3>3
    <3>4. CASE \E k \in Polls : WillServe(k) /\ helper[k].covers = calls
      <4>1. PICK k \in Polls : WillServe(k) /\ helper[k].covers = calls BY <3>4
      <4>2. k \in Live /\ helper[k].pid = helper[h].pid
        BY <1>7, <4>1, WillServeIsLive DEF IsNewest, Polls
      <4>3. k = h BY <1>1, <3>1, <4>2 DEF IndInv, HelpersInv
      <4>4. QED BY <3>2, <4>1, <4>3
    <3>5. idles <= 0 BY <3>1
    <3>6. QED BY <3>1, <3>3, <3>4, <3>5 DEF CallsInv, NoCallIsForgotten
  <2>6. CallsInv' BY <1>2, <1>4, <2>1, <2>3, <2>4, <2>5 DEF CallsInv
  <2>7. QED BY <2>3, <2>6
<1>8. QED BY <1>6, <1>7

\* The updates leave the polls alone.
LEMMA UpdateStartPollsKept ==
  ASSUME IndInv, CallsInv, storage_volume_group_update
  PROVE  PollsKept
<1>1. PICK n \in Helpers : n = last + 1 BY NextNumber DEF storage_volume_group_update
<1>2. PICK pid \in FreePids : Spawns("update", pid, helper)
  BY DEF storage_volume_group_update
<1>3. n \notin Polls
  BY <1>1, CountTypes DEF IndInv, HelpersInv, Polls
<1>4. PICK r : r = [NoHelper EXCEPT !.kind = "update", !.pid = pid, !.stage = "running",
                                    !.covers = 0]
  OBVIOUS
<1>5. r.kind = "update" /\ r.covers = 0 BY <1>4 DEF NoHelper
<1>6. helper' = [helper EXCEPT ![n] = r] BY <1>1, <1>2, <1>4 DEF Spawns
<1>7. helper'[n] = r /\ \A h \in Helpers \ {n} : helper'[h] = helper[h]
  BY <1>6 DEF IndInv, Typed
<1>8. Polls' = Polls BY <1>3, <1>5, <1>7 DEF Polls
<1>9. \A h \in Helpers : helper'[h].covers <= calls
  <2>1. 0 <= calls BY CountTypes DEF IndInv
  <2>2. QED BY <1>5, <1>7, <2>1 DEF CallsInv
<1>10. \A h \in Polls : helper'[h] = helper[h] BY <1>3, <1>7 DEF Polls
<1>11. \A h \in Polls : h \in Live' <=> h \in Live BY <1>10 DEF Live
<1>12. pid_reused => pid_reused' BY <1>2 DEF Spawns
<1>13. QED
  BY <1>8, <1>9, <1>10, <1>11, <1>12 DEF PollsKept, storage_volume_group_update, pollVars

LEMMA UpdateAnswerPollsKept ==
  ASSUME IndInv, CallsInv, NEW h \in Helpers, update_with_variant(h)
  PROVE  PollsKept
<1>1. IsTaken(h) /\ h \notin Polls
  BY TakenFacts DEF update_with_variant, Ready, Polls
<1>2. helper'[h].covers = 0
  BY DEF update_with_variant, Taken, NoHelper, IndInv, Typed
<1>3. \A k \in Helpers : helper'[k].covers <= calls
  <2>1. 0 <= calls BY CountTypes DEF IndInv
  <2>2. QED BY <1>1, <1>2, <2>1 DEF CallsInv, IsTaken
<1>4. \A k \in Polls : helper'[k] = helper[k] BY <1>1 DEF IsTaken, Polls
<1>5. \A k \in Polls : k \in Live' <=> k \in Live BY <1>4 DEF Live
<1>6. QED
  BY <1>1, <1>3, <1>4, <1>5 DEF PollsKept, update_with_variant, pollVars, IsTaken

\* A helper that exits is as live as before.
LEMMA ShowPollsKept ==
  ASSUME IndInv, CallsInv, NEW h \in Helpers, show_volume_group(h)
  PROVE  PollsKept
<1>1. PICK r : r = helper[h] OBVIOUS
<1>2. IsHelper(r) /\ r.stage = "running" BY <1>1 DEF IndInv, Typed, show_volume_group
<1>3. PICK q : q = helper'[h] OBVIOUS
<1>4. /\ q.kind = r.kind /\ q.pid = r.pid /\ q.killed = r.killed /\ q.covers = r.covers
      /\ q.stage = "exited"
  <2>1. \/ q = [r EXCEPT !.stage = "exited", !.ok = TRUE, !.seen = lvm]
        \/ q = [r EXCEPT !.stage = "exited"]
    BY <1>1, <1>3 DEF show_volume_group, IndInv, Typed
  <2>2. QED BY <1>2, <2>1 DEF IsHelper
<1>5. \A k \in Helpers : k # h => helper'[k] = helper[k]
  BY DEF show_volume_group, IndInv, Typed
<1>6. \A k \in Helpers : /\ helper'[k].kind = helper[k].kind
                         /\ helper'[k].pid = helper[k].pid
                         /\ helper'[k].killed = helper[k].killed
                         /\ helper'[k].covers = helper[k].covers
  BY <1>1, <1>3, <1>4, <1>5
<1>7. Polls' = Polls BY <1>6 DEF Polls
<1>8. Live' = Live BY <1>1, <1>2, <1>3, <1>4, <1>5 DEF Live
<1>9. \A k \in Helpers : helper'[k].covers <= calls BY <1>6 DEF CallsInv
<1>10. QED
  BY <1>6, <1>7, <1>8, <1>9 DEF PollsKept, Polls, show_volume_group, pollVars, history

\* Every step keeps the calls in mind.
LEMMA NextCallsInv == IndInv /\ CallsInv /\ [Next]_vars => CallsInv'
<1> SUFFICES ASSUME IndInv, CallsInv, [Next]_vars PROVE CallsInv'
  OBVIOUS
<1>1. CASE UNCHANGED <<calls, pollVars, helper, pid_reused, served>>
  <2>1. Polls' = Polls /\ Live' = Live BY <1>1 DEF Polls, Live
  <2>2. PollsKept BY <1>1, <2>1 DEF PollsKept, pollVars, CallsInv
  <2>3. QED BY <2>2, PollsKeptCallsInv
<1>2. CASE MetadataChanges BY <1>1, <1>2 DEF MetadataChanges, history
<1>3. CASE storage_volume_group_update BY <1>3, UpdateStartPollsKept, PollsKeptCallsInv
<1>4. CASE storage_volume_group_dispose
  BY <1>1, <1>4 DEF storage_volume_group_dispose, history
<1>5. CASE handle_poll
  <2>1. /\ calls' = calls + 1 /\ idles' = idles + 1
        /\ UNCHANGED <<served, poll_timeout_id, poll_requested, poll_pid, helper,
                       pid_reused>>
    BY <1>5 DEF handle_poll, history
  <2>2. calls \in Nat /\ idles \in Nat /\ served \in Nat /\ served <= calls
    BY CountTypes, Numbers DEF IndInv, Typed, CallsInv
  <2>3. \A h \in Helpers : helper[h].covers \in Nat /\ helper[h].covers <= calls
    BY Numbers DEF IndInv, Typed, IsHelper, CallsInv
  <2>4. Polls' = Polls /\ Live' = Live BY <2>1 DEF Polls, Live
  <2>5. NoCallIsForgotten' BY <2>1, <2>2 DEF NoCallIsForgotten
  <2>6. served' <= calls' BY <2>1, <2>2
  <2>7. \A h \in Helpers : helper'[h].covers <= calls' BY <2>1, <2>2, <2>3
  <2>8. QED BY <2>1, <2>4, <2>5, <2>6, <2>7 DEF CallsInv
<1>6. CASE poll_in_main BY <1>6, PollInMainCallsInv
<1>7. CASE poll_timeout BY <1>7, PollTimeoutCallsInv
<1>8. ASSUME NEW h \in Helpers, show_volume_group(h) PROVE CallsInv'
  BY <1>8, ShowPollsKept, PollsKeptCallsInv
<1>9. ASSUME NEW h \in Helpers, poll_with_variant(h) PROVE CallsInv'
  BY <1>9, PollAnswerCallsInv
<1>10. ASSUME NEW h \in Helpers, update_with_variant(h) PROVE CallsInv'
  BY <1>10, UpdateAnswerPollsKept, PollsKeptCallsInv
<1>11. CASE UNCHANGED vars BY <1>1, <1>11 DEF vars, history
<1>12. CASE CallArrives \/ CallRefused
  BY <1>1, <1>12 DEF CallArrives, CallRefused, history
<1>13. QED
  BY <1>2, <1>3, <1>4, <1>5, <1>6, <1>7, <1>8, <1>9, <1>10, <1>11, <1>12 DEF Next

\* At every moment a call of Poll that was not served has something under way
\* that will serve it, unless a pid was used again: CallsAreServedInTheEnd needs
\* no more than that the calls cease and what is under way ends.
THEOREM CallsAreRemembered == Spec => []NoCallIsForgotten
<1>1. Init => CallsInv BY InitCallsInv
<1>2. IndInv /\ CallsInv /\ [Next]_vars => CallsInv' BY NextCallsInv
<1>3. CallsInv => NoCallIsForgotten BY DEF CallsInv
<1>4. QED BY <1>1, <1>2, <1>3, IndInvHolds, PTL DEF Spec

\* A call that was served stays so: no answer of an older poll, and no failure,
\* takes it back, unless a pid was used again.
THEOREM ServedStaysServed == Spec => [][served' >= served \/ pid_reused]_vars
<1>1. ASSUME IndInv, CallsInv, Next PROVE served' >= served \/ pid_reused
  <2>1. served \in Nat /\ calls \in Nat /\ served <= calls
    BY <1>1, Numbers DEF IndInv, Typed, CallsInv
  <2>2. CASE UNCHANGED served BY <2>1, <2>2
  <2>3. CASE served' = calls BY <2>1, <2>3
  <2>4. ASSUME NEW h \in Helpers, poll_with_variant(h)
        PROVE  served' >= served \/ pid_reused
    BY <1>1, <2>4, PollAnswerCallsInv
  <2>5. QED BY <1>1, <2>2, <2>3, <2>4
        DEF Next, MetadataChanges, storage_volume_group_update,
            storage_volume_group_dispose, CallArrives, CallRefused,
            handle_poll, poll_in_main, poll_now, poll_timeout, show_volume_group, update_with_variant, history
<1>2. IndInv /\ CallsInv /\ [Next]_vars => [served' >= served \/ pid_reused]_vars
  BY <1>1
<1>3. Init => CallsInv BY InitCallsInv
<1>4. IndInv /\ CallsInv /\ [Next]_vars => CallsInv' BY NextCallsInv
<1>5. QED BY <1>2, <1>3, <1>4, IndInvHolds, PTL DEF Spec
=============================================================================
