------------------------------ MODULE Volumes ------------------------------
(***************************************************************************)
(* The logical volumes of one volume group: the objects                    *)
(* StorageLogicalVolume that the answers of the helper create, update and  *)
(* dispose (volumegroup.c, logicalvolume.c), the object paths they are     *)
(* published at (util.c, daemon.c), and the logical-volume interface of    *)
(* the block overlays (block.c).                                           *)
(*                                                                         *)
(* The volume group may be removed and made again, so that there may be    *)
(* several objects StorageVolumeGroup of its name; one of them at most is  *)
(* in the manager's table.  An object is named by the update that created  *)
(* it.  How several updates and their lists overlap is LvmUpdate's, how    *)
(* polls follow each other is Poll's subject: here a list is read when its *)
(* answer is taken, and one poll is under way at a time.                   *)
(***************************************************************************)
EXTENDS Naturals, FiniteSets, SequencesExt

CONSTANTS
  Names,        \* names of logical volumes, as sequences of characters
  Reserved,     \* those that storage_util_lvm_name_is_reserved finds
  PoolOf,       \* PoolOf[n]: pool_lv of n, or origin, <<>> if it has none
  Lists,        \* what the group may have, in the order the helper lists it
  Blocks,       \* block devices
  MaxChanges,   \* bound on the changes of the LVM metadata
  MaxUpdates,   \* bound on the manager's updates
  MaxPolls,     \* bound on the polls
  MaxRenames    \* bound on the changes of a device's udev properties

ASSUME NamesAssumption ==
  /\ IsFiniteSet(Names)
  /\ \A n \in Names : n \in Seq(STRING) /\ n # <<>>
  /\ Reserved \subseteq Names
  /\ PoolOf \in [Names -> (Names \ Reserved) \cup {<<>>}]
  /\ \A n \in Names : PoolOf[n] # n
\* A volume comes with its pool, before or after it.
ASSUME ListsAssumption ==
  /\ <<>> \in Lists
  /\ \A l \in Lists :
       /\ l \in Seq(Names)
       /\ IsInjective(l)
       /\ \A i \in DOMAIN l : PoolOf[l[i]] \in ToSet(l) \cup {<<>>}
ASSUME BoundsAssumption ==
  /\ IsFiniteSet(Blocks)
  /\ MaxChanges \in Nat /\ MaxUpdates \in Nat \ {0}
  /\ MaxPolls \in Nat /\ MaxRenames \in Nat

\* The characters LVM allows in a name and D-Bus does not in a path, "%02x".
Hex == [c \in {"+", "-", "."} |-> CASE c = "+" -> <<"2", "b">>
                                    [] c = "-" -> <<"2", "d">>
                                    [] c = "." -> <<"2", "e">>]

\* "_" stays as it is, although it also starts an escape.
safe_append_to_object_path(s) ==
  FlattenSeq([i \in DOMAIN s |->
                IF s[i] \in DOMAIN Hex THEN <<"_">> \o Hex[s[i]] ELSE <<s[i]>>])

\* The last part of the path; the group's own path comes before it.
build_object_path == [n \in Names |-> <<"/", safe_append_to_object_path(n)>>]

Paths  == {build_object_path[n] : n \in Names}
Groups == 1 .. MaxUpdates

\* What a property that holds an object path may be besides a path.  Absent:
\* there is no object that has the property; Unset: the path is NULL; Root is
\* "/" (for a block, that it has no interface), and Other the name of a device
\* that udev has in no volume group, or in one of another name.
Absent == <<"absent">>
Unset  == <<"null">>
Root   == <<"/">>
Other  == <<"other">>
NoOne  == <<0, <<>>>>

DeviceNames == (Names \ Reserved) \cup {Other}

lv_is_visible(n) == n \notin Reserved

VARIABLES
  vg,         \* LVM: the volume group exists
  lvs,        \* LVM: its logical volumes
  changes,    \* how often that changed
  last,       \* updates so far
  show,       \* show[u]: the show helper of update u
  poll,       \* the helper of a poll
  polls,      \* polls so far
  table,      \* name_to_volume_group: the object of the group, 0 if none
  group,      \* group[g]: the object StorageVolumeGroup
  exported,   \* exported[p]: the object and the volume published at path p
  dm,         \* udev: DM_LV_NAME of a device, Other if DM_VG_NAME is not ours
  renames,    \* how often that changed
  block,      \* block[b]: the volume the overlay of b points at
  by          \* history: the object that updated the overlay last, and the
              \* name udev had for the device by then

lvmVars  == <<vg, lvs, changes>>
udevVars == <<dm, renames>>
vars     == <<lvmVars, last, show, poll, polls, table, group, exported,
              udevVars, block, by>>

\* "known" says that info is set; "link" is the table logical_volumes, the
\* property ThinPool of each volume that is in it.  "kept" says that a
\* StorageLogicalVolume was created: it holds a reference to the group that is
\* never dropped.
GroupRecord ==
  [need_publish : BOOLEAN, published : BOOLEAN, known : BOOLEAN, info : Lists,
   kept : BOOLEAN, link : [Names -> Paths \cup {Absent, Unset, Root}]]

HelperRecord ==
  [stage : {"none", "asked", "answered", "failed"}, group : Groups \cup {0},
   info : Lists]

TypeOK ==
  /\ vg \in BOOLEAN /\ lvs \in Lists /\ changes \in 0..MaxChanges
  /\ last \in 0..MaxUpdates
  /\ show \in [Groups -> HelperRecord]
  /\ poll \in HelperRecord /\ polls \in 0..MaxPolls
  /\ \A h \in {poll} \cup {show[u] : u \in Groups} :
       (h.stage = "none") = (h.group = 0)
  /\ table \in Groups \cup {0}
  /\ group \in [Groups -> GroupRecord]
  /\ exported \in [Paths -> (Groups \X Names) \cup {NoOne}]
  /\ dm \in [Blocks -> DeviceNames] /\ renames \in 0..MaxRenames
  /\ block \in [Blocks -> Paths \cup {Absent, Unset, Root}]
  /\ by \in [Blocks -> (Groups \X DeviceNames) \cup {NoOne}]

NoHelper == [stage |-> "none", group |-> 0, info |-> <<>>]

\* storage_volume_group_init; it also stands for an object not yet created.
NewGroup ==
  [need_publish |-> TRUE, published |-> FALSE, known |-> FALSE, info |-> <<>>,
   kept |-> FALSE, link |-> [n \in Names |-> Absent]]

Init ==
  /\ vg \in BOOLEAN
  /\ lvs \in Lists
  /\ ~vg => lvs = <<>>
  /\ changes = 0
  /\ last = 0
  /\ show = [u \in Groups |-> NoHelper]
  /\ poll = NoHelper /\ polls = 0
  /\ table = 0
  /\ group = [g \in Groups |-> NewGroup]
  /\ exported = [p \in Paths |-> NoOne]
  /\ dm \in [Blocks -> DeviceNames] /\ renames = 0
  /\ block = [b \in Blocks |-> Absent]
  /\ by = [b \in Blocks |-> NoOne]

-----------------------------------------------------------------------------
\* LVM, its helper and udev.

MetadataChanges(exists, list) ==
  /\ changes < MaxChanges
  /\ <<exists, list>> # <<vg, lvs>>
  /\ ~exists => list = <<>>
  /\ vg' = exists
  /\ lvs' = list
  /\ changes' = changes + 1
  /\ UNCHANGED <<last, show, poll, polls, table, group, exported, udevVars,
                 block, by>>

\* The helper's answer: the group as it is when LVM is read, or an error.
Answers(h) ==
  {[h EXCEPT !.stage = "failed"]}
    \cup {[h EXCEPT !.stage = "answered", !.info = l] : l \in IF vg THEN {lvs} ELSE {}}

show_volume_group(u) ==
  /\ show[u].stage = "asked"
  /\ \E h \in Answers(show[u]) : show' = [show EXCEPT ![u] = h]
  /\ UNCHANGED <<lvmVars, last, poll, polls, table, group, exported, udevVars,
                 block, by>>

show_for_poll ==
  /\ poll.stage = "asked"
  /\ poll' \in Answers(poll)
  /\ UNCHANGED <<lvmVars, last, show, polls, table, group, exported, udevVars,
                 block, by>>

\* The device is renamed, or is activated for another logical volume.
DeviceRenamed(b, n) ==
  /\ renames < MaxRenames
  /\ n # dm[b]
  /\ dm' = [dm EXCEPT ![b] = n]
  /\ renames' = renames + 1
  /\ UNCHANGED <<lvmVars, last, show, poll, polls, table, group, exported,
                 block, by>>

-----------------------------------------------------------------------------
\* Publishing.

\* The path of volume n of object g, NULL unless it is published.
object_path(exp, g, n) ==
  IF exp[build_object_path[n]] = <<g, n>> THEN build_object_path[n] ELSE Unset

\* storage_daemon_publish, not uniquely: an object that is at the path already
\* gets the interface, in place of the one of that name it may have had, which
\* has no path from then on.
storage_daemon_publish(exp, g, n) == [exp EXCEPT ![build_object_path[n]] = <<g, n>>]

\* A volume that has no path leaves alone what is published there, and the
\* interface is removed by identity.
storage_daemon_unpublish(exp, g, n) ==
  IF object_path(exp, g, n) = Unset THEN exp
  ELSE [exp EXCEPT ![build_object_path[n]] = NoOne]

\* The volumes "gone" of object g are disposed.  Each removes its own interface
\* only, so that the order, which is the hash table's, does not matter.
storage_logical_volume_dispose(exp, g, gone) ==
  [p \in Paths |->
     IF \E n \in gone : storage_daemon_unpublish(exp, g, n)[p] = NoOne
     THEN NoOne ELSE exp[p]]

-----------------------------------------------------------------------------
\* Volumes.  "st" is what the loop over the list changes: the table of the
\* group and the published paths.

InTable(link) == {n \in Names : link[n] # Absent}

\* The property ThinPool, and Origin, which is found in the same way.
pool_objpath(st, g, n) ==
  IF PoolOf[n] = <<>> \/ PoolOf[n] \notin InTable(st.link) THEN Root
  ELSE object_path(st.exported, g, PoolOf[n])

\* Mutant: the volumes of a group that was removed are published.
needs_publish_always(st, public, n) == st.link[n] = Absent

\* needs_publish is set in a new volume only.  The path of a group that is not
\* published is NULL, so that storage_daemon_publish refuses its volumes, and
\* needs_publish is not set again.
needs_publish(st, public, n) == st.link[n] = Absent /\ public

\* Mutant: a volume that has been shown keeps its links.
storage_logical_volume_update_once(st, g, public, n) ==
  [link     |-> IF st.link[n] # Absent THEN st.link
                ELSE [st.link EXCEPT ![n] = pool_objpath(st, g, n)],
   exported |-> IF needs_publish(st, public, n)
                THEN storage_daemon_publish(st.exported, g, n) ELSE st.exported]

\* A new volume is inserted into the table after its update.
storage_logical_volume_update(st, g, public, n) ==
  [link     |-> [st.link EXCEPT ![n] = pool_objpath(st, g, n)],
   exported |-> IF needs_publish(st, public, n)
                THEN storage_daemon_publish(st.exported, g, n) ELSE st.exported]

\* The loops over the list of an answer, which skip the names not in "taken".
update_listed(st, g, public, list, taken) ==
  LET after[i \in 0..Len(list)] ==
        IF i = 0 THEN st
        ELSE IF list[i] \notin taken THEN after[i - 1]
        ELSE storage_logical_volume_update(after[i - 1], g, public, list[i])
  IN  after[Len(list)]

\* update_with_variant: update the visible volumes, then dispose those that are
\* not listed.
update_volumes(st, g, public, list) ==
  LET shown == update_listed(st, g, public, list, {n \in Names : lv_is_visible(n)})
      gone  == InTable(shown.link) \ ToSet(list)
  IN  [link     |-> [n \in Names |-> IF n \in gone THEN Absent ELSE shown.link[n]],
       exported |-> storage_logical_volume_dispose(shown.exported, g, gone)]

\* storage_volume_group_update_block and storage_block_update_lv: the group
\* looks at the devices that udev has under its name only.
storage_block_update_lv(links, g, link, exp) ==
  [b \in Blocks |->
     IF links[b] = Absent \/ dm[b] = Other THEN links[b]
     ELSE IF dm[b] \notin InTable(link) THEN Root
     ELSE object_path(exp, g, dm[b])]

\* Mutant: the blocks are updated before the volumes are.
update_all_blocks_first(g) ==
  /\ block' = storage_block_update_lv(block, g, group[g].link, exported)
  /\ by' = [b \in Blocks |-> IF block[b] = Absent THEN by[b] ELSE <<g, dm[b]>>]

\* update_all_blocks, at the end of update_with_variant and within
\* storage_volume_group_dispose.
update_all_blocks(g) ==
  /\ block' = storage_block_update_lv(block, g, group'[g].link, exported')
  /\ by' = [b \in Blocks |-> IF block[b] = Absent THEN by[b] ELSE <<g, dm[b]>>]

\* What storage_volume_group_dispose leaves of an object.
disposed(r) ==
  [r EXCEPT !.need_publish = FALSE, !.published = FALSE, !.known = FALSE,
            !.info = <<>>, !.link = [n \in Names |-> Absent]]

storage_volume_group_dispose(g) ==
  /\ group' = [group EXCEPT ![g] = disposed(group[g])]
  /\ exported' = storage_logical_volume_dispose(exported, g, InTable(group[g].link))
  /\ update_all_blocks(g)

-----------------------------------------------------------------------------
\* The manager.  Its list has the group, and an object for it is made unless
\* there is one; its show is started.
lvm_update_lists ==
  /\ last < MaxUpdates
  /\ vg
  /\ last' = last + 1
  /\ table' = IF table = 0 THEN last + 1 ELSE table
  /\ show' = [show EXCEPT ![last + 1] = [NoHelper EXCEPT !.stage = "asked",
                                                         !.group = table']]
  /\ UNCHANGED <<lvmVars, poll, polls, group, exported, udevVars, block, by>>

\* Its list does not have the group: the object is disposed.  (If nothing
\* else holds it that happens twice, which makes no difference here.)
lvm_update_lacks ==
  /\ last < MaxUpdates
  /\ ~vg
  /\ last' = last + 1
  /\ IF table = 0 THEN UNCHANGED <<group, exported, block, by>>
                  ELSE storage_volume_group_dispose(table)
  /\ table' = 0
  /\ UNCHANGED <<lvmVars, show, poll, polls, udevVars>>

\* poll_now, for the object in the table.
poll_now ==
  /\ polls < MaxPolls
  /\ table # 0
  /\ poll.stage = "none"
  /\ poll' = [NoHelper EXCEPT !.stage = "asked", !.group = table]
  /\ polls' = polls + 1
  /\ UNCHANGED <<lvmVars, last, show, table, group, exported, udevVars, block,
                 by>>

\* Is there another reference to g than the one of the answer just taken?
Held(g) ==
  \/ table = g
  \/ group[g].kept
  \/ poll'.group = g
  \/ \E u \in Groups : show'[u].group = g

\* update_with_variant publishes a group that is new, whatever the answer is.
published_once(r) ==
  [r EXCEPT !.need_publish = FALSE, !.published = @ \/ r.need_publish]

\* The handler ends early; the group is disposed when that drops the last
\* reference.
AnswerDropped(g) ==
  IF Held(g)
  THEN /\ group' = [group EXCEPT ![g] = published_once(group[g])]
       /\ UNCHANGED <<exported, block, by>>
  ELSE storage_volume_group_dispose(g)

\* update_with_variant, with an error or with the info that the group has.
update_dropped(u) ==
  LET g == show[u].group
  IN  /\ \/ show[u].stage = "failed"
         \/ show[u].stage = "answered" /\ group[g].known /\ group[g].info = show[u].info
      /\ show' = [show EXCEPT ![u] = NoHelper]
      /\ UNCHANGED poll
      /\ AnswerDropped(g)
      /\ UNCHANGED <<lvmVars, last, polls, table, udevVars>>

\* update_with_variant, with a new info.  An object that was removed takes it
\* all the same; its volumes keep it from then on.
update_with_variant(u) ==
  LET g      == show[u].group
      info   == show[u].info
      public == group[g].published \/ group[g].need_publish
      st     == update_volumes([link |-> group[g].link, exported |-> exported],
                               g, public, info)
      kept   == group[g].kept \/ InTable(st.link) # {}
  IN  /\ show[u].stage = "answered"
      /\ ~(group[g].known /\ group[g].info = info)
      /\ show' = [show EXCEPT ![u] = NoHelper]
      /\ UNCHANGED poll
      /\ IF Held(g) \/ kept
         THEN /\ group' = [group EXCEPT ![g] =
                             [need_publish |-> FALSE, published |-> public,
                              known |-> TRUE, info |-> info, kept |-> kept,
                              link |-> st.link]]
              /\ exported' = st.exported
              /\ update_all_blocks(g)
         ELSE storage_volume_group_dispose(g)
      /\ UNCHANGED <<lvmVars, last, polls, table, udevVars>>

\* poll_with_variant: the volumes that the group has are updated, none is made
\* or disposed; the blocks and info stay.
poll_with_variant ==
  LET g  == poll.group
      st == update_listed([link |-> group[g].link, exported |-> exported], g,
                          group[g].published, poll.info, InTable(group[g].link))
  IN  /\ poll.stage \in {"answered", "failed"}
      /\ poll' = NoHelper
      /\ UNCHANGED show
      /\ IF ~Held(g) THEN storage_volume_group_dispose(g)
         ELSE /\ group' = IF poll.stage = "failed" THEN group
                          ELSE [group EXCEPT ![g].link = st.link]
              /\ UNCHANGED <<exported, block, by>>
      /\ UNCHANGED <<lvmVars, last, polls, table, udevVars>>

-----------------------------------------------------------------------------
\* A new overlay is updated from the group in the table.
on_udisks_interface_added(b) ==
  /\ block[b] = Absent
  /\ LET new == [block EXCEPT ![b] = Root]
     IN  IF table = 0
         THEN block' = new /\ UNCHANGED by
         ELSE /\ block' = [block EXCEPT ![b] =
                             storage_block_update_lv(new, table, group[table].link,
                                                     exported)[b]]
              /\ by' = [by EXCEPT ![b] = <<table, dm[b]>>]
  /\ UNCHANGED <<lvmVars, last, show, poll, polls, table, group, exported,
                 udevVars>>

on_udisks_interface_removed(b) ==
  /\ block[b] # Absent
  /\ block' = [block EXCEPT ![b] = Absent]
  /\ by' = [by EXCEPT ![b] = NoOne]
  /\ UNCHANGED <<lvmVars, last, show, poll, polls, table, group, exported,
                 udevVars>>

Next ==
  \/ \E exists \in BOOLEAN, list \in Lists : MetadataChanges(exists, list)
  \/ \E b \in Blocks, n \in DeviceNames : DeviceRenamed(b, n)
  \/ lvm_update_lists \/ lvm_update_lacks
  \/ \E u \in Groups :
       show_volume_group(u) \/ update_dropped(u) \/ update_with_variant(u)
  \/ poll_now \/ show_for_poll \/ poll_with_variant
  \/ \E b \in Blocks :
       on_udisks_interface_added(b) \/ on_udisks_interface_removed(b)

Spec == Init /\ [][Next]_vars

-----------------------------------------------------------------------------
Clash(m, n) == m # n /\ build_object_path[m] = build_object_path[n]

\* What is published is a volume in the table of the group that is in the
\* manager's table: nothing of a removed volume or group stays or comes back,
\* whatever answers are still under way.  And every volume of that group is
\* published, except that one whose name is escaped like another's may have
\* lost its path to it, for good (util.c:63, needs_publish).
OnlyClashingNamesAreHidden ==
  /\ \A p \in Paths : exported[p] # NoOne =>
       LET g == exported[p][1]  n == exported[p][2]
       IN  g = table /\ n \in InTable(group[g].link)
  /\ table # 0 =>
       \A n \in InTable(group[table].link) :
         object_path(exported, table, n) # Unset \/ \E m \in Names : Clash(m, n)

ListedBefore(list, m, n) ==
  \E i, j \in DOMAIN list : i < j /\ list[i] = m /\ list[j] = n

\* A volume's link to its pool leads to the pool, or to a volume whose name is
\* escaped like the pool's; it is "/" although the pool is there only if the
\* pool is listed after it (logicalvolume.c:311: the first answer with both
\* finds no pool in the table, and answers without a change are skipped).
LinksLeadToThePool ==
  table # 0 =>
    \A n \in InTable(group[table].link) :
      LET link == group[table].link[n]  pool == PoolOf[n]
      IN  /\ link \in Paths =>
               \E m \in {pool} \cup {k \in Names : Clash(k, pool)} :
                 exported[link] = <<table, m>>
          /\ link = Root => ~ListedBefore(group[table].info, pool, n)
          /\ link = Unset => \E m \in Names : Clash(m, pool)

\* An overlay that the group in the table updated last, under the name that
\* udev has for the device now, points at the volume of that name exactly when
\* there is one: volumes that come, go, clash or are polled afterwards leave no
\* stale link.  (The same group may be made again while an answer for its old
\* object is under way: that object takes the link away, and it stays away
\* until the group changes; and a name that udev learns after the update is
\* looked at when the group changes next.)
BlockShowsItsVolume ==
  \A b \in Blocks :
    block[b] # Absent /\ table # 0 /\ by[b] = <<table, dm[b]>> /\ dm[b] # Other =>
      block[b] = IF dm[b] \in InTable(group[table].link)
                 THEN object_path(exported, table, dm[b]) ELSE Root
=============================================================================
