----------------------------- MODULE LvmUpdate -----------------------------
(***************************************************************************)
(* How the daemon follows LVM: StorageManager's updates (manager.c), the   *)
(* StorageVolumeGroup objects they create, fill and remove (volumegroup.c) *)
(* and the physical-volume interface of the block overlays (block.c).      *)
(*                                                                         *)
(* One update runs "storaged-lvm-helper list", then one "storaged-lvm-     *)
(* helper show" per name.  A helper is a process of its own: it reads LVM  *)
(* at some moment after it was spawned, and the main loop takes its answer *)
(* at some moment after that, so answers of several updates interleave and *)
(* may be taken in any order.  A spawn that fails is an answer "failed".   *)
(*                                                                         *)
(* A group object is named by the update that created it and its volume    *)
(* group's name: an update creates at most one object per name.            *)
(***************************************************************************)
EXTENDS Naturals, FiniteSets

CONSTANTS
  VGs,          \* names of volume groups
  Blocks,       \* block devices that may be physical volumes
  MaxChanges,   \* bound on the changes of the LVM metadata
  HelperFails,  \* may a helper fail although its volume group exists?
  HasVolumes,   \* HasVolumes[v]: may v have visible logical volumes (TRUE is a
                \* member), may it have none (FALSE is a member)?
  Called,       \* names whose objects polls and calls of clients may hold
  build_object_path  \* the object path of each name; names may share one

ASSUME SetsFinite == IsFiniteSet(VGs) /\ IsFiniteSet(Blocks)
ASSUME CalledAssumption == Called \subseteq VGs

\* storage_util_build_object_path is not one-to-one (util.c:48).
Paths == {build_object_path[v] : v \in VGs}

ASSUME PathsAreNoStates == Paths \cap {"absent", "none", "null"} = {}
ASSUME BoundsAssumption == MaxChanges \in Nat /\ HelperFails \in BOOLEAN
ASSUME VolumesAssumption == HasVolumes \in [VGs -> (SUBSET BOOLEAN) \ {{}}]

\* Coldplug, the warmplug it triggers, and one update per uevent.
Updates == 1 .. (MaxChanges + 2)
Groups  == Updates \X VGs

VARIABLES
  vgs,        \* LVM: the volume groups that exist
  pvs,        \* LVM: the devices of each volume group
  changes,    \* how often they changed
  uevents,    \* uevents of those changes that are not delivered yet
  timer,      \* lvm_delayed_update_id is set
  last,       \* updates started so far; the newest one
  update,     \* update[u]: struct UpdateData of manager.c, and its list helper
  show,       \* the show helpers whose answer was not taken yet
  table,      \* name_to_volume_group: the creator of v's object, 0 if none
  group,      \* group[g]: the object StorageVolumeGroup
  block,      \* block[b]: the path of the group the overlay of b points at
  ready,      \* the GTask of coldplug returned: on_manager_ready was called
  listed_by   \* history: the update whose list was taken last

lvm    == <<vgs, pvs, changes>>
vars   == <<lvm, uevents, timer, last, update, show, table, group, block,
            ready, listed_by>>

\* "freed" is g_free (data).  An update whose list failed is "lost": the
\* callback returns before it does anything.  "dropped" is a history of the
\* shows of the update that ended without a call of lvm_vg_update_done.
UpdateRecord ==
  [stage : {"unused", "listing", "listed", "unlisted", "lost", "showing",
            "freed"},
   ignore_locks : BOOLEAN, task : BOOLEAN, names : SUBSET VGs,
   pending : Nat, dropped : Nat]

\* "published" says that the object has its path; "known" that info is set,
\* "info" is its list of physical volumes; "kept" that a StorageLogicalVolume
\* was created for the group: it holds a reference to the group that is never
\* dropped; "pinned" that a poll or a call of a client holds one.  "by" is a
\* history of the update whose answer was taken last.
GroupRecord ==
  [need_publish : BOOLEAN, published : BOOLEAN, known : BOOLEAN,
   info : SUBSET Blocks, kept : BOOLEAN, pinned : BOOLEAN,
   by : Updates \cup {0}]

ShowRecord ==
  [update : Updates, group : Groups, stage : {"asked", "answered", "failed"},
   pvs : SUBSET Blocks]

\* A block overlay is absent until udisks announces the device, has no
\* physical-volume interface ("none"), or has one whose volume group is an
\* object path or NULL ("null").
BlockState == {"absent", "none", "null"} \cup Paths

TypeOK ==
  /\ vgs \subseteq VGs
  /\ pvs \in [VGs -> SUBSET Blocks]
  /\ changes \in 0..MaxChanges
  /\ uevents \in 0..MaxChanges
  /\ timer \in BOOLEAN
  /\ last \in Updates
  /\ update \in [Updates -> UpdateRecord]
  /\ show \subseteq ShowRecord
  /\ table \in [VGs -> Updates \cup {0}]
  /\ group \in [Groups -> GroupRecord]
  /\ block \in [Blocks -> BlockState]
  /\ ready \in BOOLEAN
  /\ listed_by \in Updates \cup {0}

-----------------------------------------------------------------------------
\* storage_volume_group_init; it also stands for an object not yet created.
NewGroup ==
  [need_publish |-> TRUE, published |-> FALSE, known |-> FALSE,
   info |-> {}, kept |-> FALSE, pinned |-> FALSE, by |-> 0]

NoUpdate ==
  [stage |-> "unused", ignore_locks |-> FALSE, task |-> FALSE, names |-> {},
   pending |-> 0, dropped |-> 0]

\* lvm_update: a new struct UpdateData, and its list helper.
lvm_update(ignore_locks, task) ==
  [NoUpdate EXCEPT !.stage = "listing", !.ignore_locks = ignore_locks,
                   !.task = task]

\* Coldplug: storage_manager_init_async starts the first update, with the
\* overlays of the devices udisks already has in place.
Init ==
  /\ vgs \in SUBSET VGs
  /\ pvs \in [VGs -> SUBSET Blocks]
  /\ \A v \in VGs \ vgs : pvs[v] = {}
  /\ \A v, w \in vgs : v # w => pvs[v] \cap pvs[w] = {}
  /\ changes = 0
  /\ uevents = 0
  /\ timer = FALSE
  /\ last = 1
  /\ update = [u \in Updates |-> IF u = 1 THEN lvm_update(TRUE, TRUE)
                                          ELSE NoUpdate]
  /\ show = {}
  /\ table = [v \in VGs |-> 0]
  /\ group = [g \in Groups |-> NewGroup]
  /\ block \in [Blocks -> {"absent", "none"}]
  /\ ready = FALSE
  /\ listed_by = 0

-----------------------------------------------------------------------------
\* LVM and its helpers (helper.c).

\* LVM's metadata changes: a group is created, removed, or its devices
\* change.  A device belongs to one group at most.  udev announces it.
MetadataChanges(v, exists, devices) ==
  /\ changes < MaxChanges
  /\ <<exists, devices>> # <<v \in vgs, pvs[v]>>
  /\ ~exists => devices = {}
  /\ \A w \in VGs \ {v} : pvs[w] \cap devices = {}
  /\ vgs' = IF exists THEN vgs \cup {v} ELSE vgs \ {v}
  /\ pvs' = [pvs EXCEPT ![v] = devices]
  /\ changes' = changes + 1
  /\ uevents' = uevents + 1
  /\ UNCHANGED <<timer, last, update, show, table, group, block, ready,
                 listed_by>>

list_volume_groups(u) ==
  /\ update[u].stage = "listing"
  /\ \/ update' = [update EXCEPT ![u].stage = "listed", ![u].names = vgs]
     \/ HelperFails /\ update' = [update EXCEPT ![u].stage = "unlisted"]
  /\ UNCHANGED <<lvm, uevents, timer, last, show, table, group, block, ready,
                 listed_by>>

\* Under -f the helper takes no lock and may find anything; it exits with an
\* error when the group cannot be opened.
show_volume_group(s) ==
  LET v == s.group[2]
      Answered(devices) ==
        show' = (show \ {s}) \cup
                {[s EXCEPT !.stage = "answered", !.pvs = devices]}
  IN  /\ s.stage = "asked"
      /\ \/ v \in vgs /\ Answered(pvs[v])
         \/ v \in vgs /\ update[s.update].ignore_locks
                      /\ \E devices \in SUBSET Blocks : Answered(devices)
         \/ /\ v \notin vgs \/ HelperFails
            /\ show' = (show \ {s}) \cup {[s EXCEPT !.stage = "failed"]}
      /\ UNCHANGED <<lvm, uevents, timer, last, update, table, group, block,
                     ready, listed_by>>

-----------------------------------------------------------------------------
\* What the handlers do to one object.

\* storage_volume_group_get_object_path: NULL unless the object is exported.
object_path(r, v) == IF r.published THEN build_object_path[v] ELSE "null"

\* Mutant: the interface that is already there keeps its path.
publish_beside(g) == group

\* storage_daemon_publish of g, if it was not published before: the interface
\* that has the path is replaced by g's and has no path any more.
publish(g) ==
  [h \in Groups |->
     IF /\ h # g
        /\ group[g].need_publish
        /\ build_object_path[h[2]] = build_object_path[g[2]]
     THEN [group[h] EXCEPT !.published = FALSE]
     ELSE group[h]]

\* Mutant: the object is unpublished first, so that it has no path any more
\* when the blocks are compared with it.
unlinked_late(r, v) == "null"

\* The path storage_volume_group_dispose has when it updates the blocks: it
\* unpublishes the object after that.
path_when_unlinked(r, v) == object_path(r, v)

\* Mutant: a removed group may still be published.
disposed_publishable(r) ==
  [r EXCEPT !.known = FALSE, !.info = {}, !.published = FALSE, !.by = 0]

disposed(r) ==
  [r EXCEPT !.need_publish = FALSE, !.known = FALSE, !.info = {},
            !.published = FALSE, !.by = 0]

\* Mutant: a device that is not listed any more keeps its link.
update_all_blocks_adds(r, v, links) ==
  [b \in Blocks |-> IF links[b] # "absent" /\ b \in r.info
                    THEN object_path(r, v) ELSE links[b]]

\* update_all_blocks, after the group's info was set: the device of every
\* listed physical volume points at the group, any other device that still
\* does loses the interface.
update_all_blocks(r, v, links) ==
  LET path == object_path(r, v)
  IN  [b \in Blocks |->
         IF links[b] = "absent" THEN "absent"
         ELSE IF b \in r.info THEN path
         ELSE IF links[b] = path THEN "none"
         ELSE links[b]]

\* storage_volume_group_dispose of the objects in "gone": their info is empty
\* by then.
unlink_blocks(paths, links) ==
  [b \in Blocks |-> IF links[b] \in paths THEN "none" ELSE links[b]]

\* Mutant: one show calls it twice.
lvm_vg_update_done_twice(d) ==
  [d EXCEPT !.pending = d.pending - 2,
            !.stage = IF d.pending = 2 THEN "freed" ELSE d.stage]

\* Mutant: the count reaches zero one answer too early.
lvm_vg_update_done_early(d) ==
  [d EXCEPT !.pending = d.pending - 1,
            !.stage = IF d.pending <= 2 THEN "freed" ELSE d.stage]

\* lvm_vg_update_done: the last one calls lvm_update_done, which frees it.
lvm_vg_update_done(d) ==
  [d EXCEPT !.pending = d.pending - 1,
            !.stage = IF d.pending = 1 THEN "freed" ELSE d.stage]

\* Mutant: the task is only returned by a warmplug.
lvm_update_done_warm(d) ==
  /\ timer' = (timer \/ (d.stage = "freed" /\ d.ignore_locks))
  /\ ready' = (ready \/ (d.stage = "freed" /\ d.task /\ ~d.ignore_locks))

\* lvm_update_done, when d was just freed: trigger the warmplug, return the
\* task.  (trigger_delayed_lvm_update leaves a timer that is set alone.)
lvm_update_done(d) ==
  /\ timer' = (timer \/ (d.stage = "freed" /\ d.ignore_locks))
  /\ ready' = (ready \/ (d.stage = "freed" /\ d.task))

-----------------------------------------------------------------------------
\* Mutant: an event that comes while an update is under way is forgotten.
on_uevent_busy ==
  /\ uevents > 0
  /\ uevents' = uevents - 1
  /\ timer' = (timer \/ show = {})
  /\ UNCHANGED <<lvm, last, update, show, table, group, block, ready,
                 listed_by>>

\* on_uevent, for a device handle_block_uevent_for_lvm finds relevant:
\* trigger_delayed_lvm_update.
on_uevent ==
  /\ uevents > 0
  /\ uevents' = uevents - 1
  /\ timer' = TRUE
  /\ UNCHANGED <<lvm, last, update, show, table, group, block, ready,
                 listed_by>>

delayed_lvm_update ==
  /\ timer
  /\ last < MaxChanges + 2
  /\ last' = last + 1
  /\ update' = [update EXCEPT ![last + 1] = lvm_update(FALSE, FALSE)]
  /\ timer' = FALSE
  /\ UNCHANGED <<lvm, uevents, show, table, group, block, ready, listed_by>>

\* lvm_update_from_variant with an error.
lvm_update_list_failed(u) ==
  /\ update[u].stage = "unlisted"
  /\ update' = [update EXCEPT ![u].stage = "lost"]
  /\ UNCHANGED <<lvm, uevents, timer, last, show, table, group, block, ready,
                 listed_by>>

\* Objects of groups that are not in the list are disposed and lose the
\* table's reference; if nothing holds another one they are disposed again,
\* now without a path.  Then every listed group is shown.
lvm_update_from_variant(u) ==
  LET names  == update[u].names
      gone   == {<<table[v], v>> : v \in {w \in VGs \ names : table[w] # 0}}
      held   == {g \in gone : \/ group[g].kept \/ group[g].pinned
                              \/ \E s \in show : s.group = g}
      paths  == {path_when_unlinked(group[g], g[2]) : g \in gone}
                  \cup {"null" : g \in gone \ held}
      object == [v \in names |-> IF table[v] = 0 THEN u ELSE table[v]]
      d      == [update[u] EXCEPT
                   !.stage = IF names = {} THEN "freed" ELSE "showing",
                   !.names = {},
                   !.pending = Cardinality(names)]
  IN  /\ update[u].stage = "listed"
      /\ update' = [update EXCEPT ![u] = d]
      /\ table' = [v \in VGs |-> IF v \in names THEN object[v] ELSE 0]
      /\ group' = [g \in Groups |-> IF g \in gone THEN disposed(group[g])
                                                  ELSE group[g]]
      /\ block' = unlink_blocks(paths, block)
      /\ show' = show \cup {[update |-> u, group |-> <<object[v], v>>,
                             stage |-> "asked", pvs |-> {}] : v \in names}
      /\ lvm_update_done(d)
      /\ listed_by' = u
      /\ UNCHANGED <<lvm, uevents, last>>

\* The answer of a show.  A group that was never published is published
\* whatever the answer; an error or an unchanged info ends the handler before
\* done() is called.  Dropping the last reference disposes the object; "lvs"
\* says whether the answer lists a visible logical volume.
update_with_variant(s, lvs) ==
  LET g       == s.group
      v       == g[2]
      u       == s.update
      ok      == s.stage = "answered"
      public  == [group[g] EXCEPT
                    !.need_publish = FALSE,
                    !.published = group[g].published \/ group[g].need_publish,
                    !.by = IF ok THEN u ELSE group[g].by]
      changed == ok /\ ~(public.known /\ public.info = s.pvs)
      filled  == IF changed
                 THEN [public EXCEPT !.known = TRUE, !.info = s.pvs,
                                     !.kept = public.kept \/ lvs]
                 ELSE public
      links   == IF changed THEN update_all_blocks(filled, v, block) ELSE block
      held    == \/ table[v] = g[1]
                 \/ filled.kept \/ filled.pinned
                 \/ \E t \in show \ {s} : t.group = g
      d       == IF changed THEN lvm_vg_update_done(update[u])
                 ELSE [update[u] EXCEPT !.dropped = update[u].dropped + 1]
  IN  /\ s.stage \in {"answered", "failed"}
      /\ lvs \in HasVolumes[v]
      /\ show' = show \ {s}
      /\ group' = [publish(g) EXCEPT ![g] = IF held THEN filled
                                                    ELSE disposed(filled)]
      /\ block' = IF held THEN links
                  ELSE unlink_blocks({path_when_unlinked(filled, v)}, links)
      /\ update' = [update EXCEPT ![u] = d]
      /\ lvm_update_done(d)
      /\ UNCHANGED <<lvm, uevents, last, table, listed_by>>

-----------------------------------------------------------------------------
\* A poll or a call takes a reference: of an object that is in the table, or of
\* one whose logical volume is called (storage_volume_group_poll, and wait_thing
\* of a CompleteClosure).
hold(g) ==
  /\ g[2] \in Called
  /\ ~group[g].pinned
  /\ table[g[2]] = g[1] \/ group[g].kept
  /\ group' = [group EXCEPT ![g].pinned = TRUE]
  /\ UNCHANGED <<lvm, uevents, timer, last, update, show, table, block, ready,
                 listed_by>>

\* The polls and calls have ended.  A removed object is disposed with the last
\* reference.
release(g) ==
  LET free == [group[g] EXCEPT !.pinned = FALSE]
      held == table[g[2]] = g[1] \/ free.kept \/ \E s \in show : s.group = g
  IN  /\ group[g].pinned
      /\ group' = [group EXCEPT ![g] = IF held THEN free ELSE disposed(free)]
      /\ block' = IF held THEN block
                  ELSE unlink_blocks({path_when_unlinked(free, g[2])}, block)
      /\ UNCHANGED <<lvm, uevents, timer, last, update, show, table, ready,
                     listed_by>>

\* A new overlay is updated from every group in the table; the order of the
\* hash table decides when two of them claim the device.
on_udisks_interface_added(b) ==
  LET claims == {v \in VGs : table[v] # 0 /\ b \in group[<<table[v], v>>].info}
  IN  /\ block[b] = "absent"
      /\ IF claims = {} THEN block' = [block EXCEPT ![b] = "none"]
         ELSE \E v \in claims :
                block' = [block EXCEPT ![b] =
                            object_path(group[<<table[v], v>>], v)]
      /\ UNCHANGED <<lvm, uevents, timer, last, update, show, table, group,
                     ready, listed_by>>

on_udisks_interface_removed(b) ==
  /\ block[b] # "absent"
  /\ block' = [block EXCEPT ![b] = "absent"]
  /\ UNCHANGED <<lvm, uevents, timer, last, update, show, table, group, ready,
                 listed_by>>

HelperNext ==
  \/ \E u \in Updates : list_volume_groups(u)
  \/ \E s \in show : show_volume_group(s)

MainLoopNext ==
  \/ on_uevent
  \/ delayed_lvm_update
  \/ \E u \in Updates : lvm_update_list_failed(u) \/ lvm_update_from_variant(u)
  \/ \E s \in show, lvs \in BOOLEAN : update_with_variant(s, lvs)
  \/ \E g \in Groups : hold(g) \/ release(g)

Next ==
  \/ \E v \in VGs, exists \in BOOLEAN, devices \in SUBSET Blocks :
       MetadataChanges(v, exists, devices)
  \/ HelperNext
  \/ MainLoopNext
  \/ \E b \in Blocks :
       on_udisks_interface_added(b) \/ on_udisks_interface_removed(b)

Spec == Init /\ [][Next]_vars

\* A helper runs to its end, and the main loop dispatches every source that
\* is ready: a child that exited, a timeout, a uevent.
ShowOf(u, v) == {s \in show : s.update = u /\ s.group[2] = v}

Fairness ==
  /\ WF_vars(on_uevent)
  /\ WF_vars(delayed_lvm_update)
  /\ \A u \in Updates :
       /\ WF_vars(list_volume_groups(u))
       /\ WF_vars(lvm_update_list_failed(u) \/ lvm_update_from_variant(u))
       /\ \A v \in VGs :
            /\ WF_vars(\E s \in ShowOf(u, v) : show_volume_group(s))
            /\ WF_vars(\E s \in ShowOf(u, v), lvs \in BOOLEAN :
                         update_with_variant(s, lvs))

FairSpec == Spec /\ Fairness

-----------------------------------------------------------------------------
ShowsOf(u) == {s \in show : s.update = u}

\* struct UpdateData outlives every show that will call lvm_vg_update_done on
\* it, and its pending_vg_updates counts exactly the shows that are under way
\* or ended early (manager.c:115-117, 183-188; volumegroup.c:479-501).
UpdateOutlivesShows ==
  \A u \in Updates :
    /\ ShowsOf(u) # {} => update[u].stage = "showing"
    /\ update[u].stage = "showing" =>
         update[u].pending = Cardinality(ShowsOf(u)) + update[u].dropped

\* Another name has the path of v.
Shared(v) == \E w \in VGs : w # v /\ build_object_path[w] = build_object_path[v]

\* Only the object in the table is published, so that a removed volume group
\* cannot come back when a late answer for it is taken (need_publish of
\* storage_volume_group_dispose), and no two published objects have one path.
PublishedIsInTable ==
  /\ \A g \in Groups : group[g].published => table[g[2]] = g[1]
  /\ \A g, h \in Groups :
       /\ group[g].published /\ group[h].published
       /\ build_object_path[g[2]] = build_object_path[h[2]]
       => g = h

\* A physical-volume interface that has a path names a published volume group
\* that lists the device: no update, removal or new device leaves a link to a
\* group that is gone (the order within storage_volume_group_dispose).  The one
\* exception is a group that took the path of another name over and has had no
\* good answer yet: the links of the other still name it.
\* A link without a path comes from a group without one that lists the device
\* (volumegroup.c:576 says "Make sure above is published before updating blocks
\* to point at volume group"): one whose path was taken over by another name,
\* or a removed one whose last answer was taken after its removal and which its
\* logical volumes, another show, a poll or a call still hold.
LinkedGroupListsDevice ==
  \A b \in Blocks :
    /\ block[b] \in Paths =>
         \E v \in VGs : LET r == group[<<table[v], v>>]
                        IN  /\ build_object_path[v] = block[b]
                            /\ table[v] # 0
                            /\ r.published
                            /\ b \in r.info \/ (Shared(v) /\ ~r.known)
    /\ block[b] = "null" =>
         \E g \in Groups : /\ ~group[g].published
                           /\ b \in group[g].info
                           /\ IF table[g[2]] = g[1] THEN Shared(g[2])
                              ELSE \/ group[g].kept \/ group[g].pinned
                                   \/ \E s \in show : s.group = g

\* Nothing is under way.
Quiet ==
  /\ uevents = 0
  /\ ~timer
  /\ show = {}
  /\ \A u \in Updates : update[u].stage \notin {"listing", "listed", "unlisted"}

\* When nothing is under way and the answers taken last are those of the
\* newest update, the table is what LVM has: no change is missed, however the
\* events, the 100 ms timer and the helpers interleave, and what coldplug read
\* without locks is corrected.  A group is published unless its path is also
\* that of another name: a path that was taken over is never asked for again.
CurrentWhenQuiet ==
  /\ Quiet
  /\ listed_by = last
  /\ \A v \in VGs : table[v] # 0 => group[<<table[v], v>>].by = last
  => \A v \in VGs :
       /\ (table[v] # 0) = (v \in vgs)
       /\ v \in vgs => LET r == group[<<table[v], v>>]
                       IN  /\ r.published \/ Shared(v)
                           /\ r.known /\ r.info = pvs[v]

\* Coldplug ends, and with it the wait of on_manager_ready, unless its list
\* failed or one of its shows ended early.
ColdplugEnds ==
  <>(ready \/ update[1].stage = "lost" \/ update[1].dropped > 0)

\* Every answer of coldplug was taken, and one of them was good.
ColdplugIsOver ==
  /\ update[1].stage \in {"showing", "freed"}
  /\ ShowsOf(1) = {}
  /\ \E g \in Groups : group[g].by = 1

\* manager.c:94: "Do a warmplug right away because we might have gotten
\* invalid data when ignoring locking during coldplug."  Once coldplug has
\* read what it could without locks, a second update follows.
WarmplugFollowsColdplug == ColdplugIsOver ~> (last > 1)
=============================================================================
