-------------------------- MODULE LvmUpdateProofs --------------------------
(***************************************************************************)
(* Proofs about LvmUpdate, for any volume groups, block devices and number *)
(* of changes.                                                             *)
(*                                                                         *)
(* The inductive invariant has one part per question:                      *)
(*   - UpdateInv: nothing exists of an update whose list was not taken, and*)
(*     the count of one that was is its shows and those that ended early;  *)
(*   - GroupInv, ShowInv: an object that a show may publish is the one in  *)
(*     the table, because a removed one lost need_publish;                 *)
(*   - LinkInv: LinkedGroupListsDevice, with its witnesses by name;        *)
(*   - WarmInv: while no event and no timer is pending, what was read for  *)
(*     the newest update is what LVM has;                                  *)
(*   - ColdInv: before a second update there is no such state, for the     *)
(*     count of coldplug reached zero, and the timer is set, or a show of  *)
(*     it failed and its group has no answer.                              *)
(***************************************************************************)
EXTENDS LvmUpdate, FiniteSetTheorems, TLAPS

-----------------------------------------------------------------------------
\* The records by their fields.
IsUpdate(d) ==
  /\ DOMAIN d = {"stage", "ignore_locks", "task", "names", "pending", "dropped"}
  /\ d = [f \in DOMAIN d |-> d[f]]
  /\ d.stage \in {"unused", "listing", "listed", "unlisted", "lost", "showing",
                  "freed"}
  /\ d.ignore_locks \in BOOLEAN
  /\ d.task \in BOOLEAN
  /\ d.names \subseteq VGs
  /\ d.pending \in Nat
  /\ d.dropped \in Nat

IsGroup(r) ==
  /\ DOMAIN r = {"need_publish", "published", "known", "info", "kept",
                "pinned", "by"}
  /\ r = [f \in DOMAIN r |-> r[f]]
  /\ r.need_publish \in BOOLEAN
  /\ r.published \in BOOLEAN
  /\ r.known \in BOOLEAN
  /\ r.info \subseteq Blocks
  /\ r.kept \in BOOLEAN
  /\ r.pinned \in BOOLEAN
  /\ r.by \in Updates \cup {0}

IsShow(s) ==
  /\ DOMAIN s = {"update", "group", "stage", "pvs"}
  /\ s = [f \in DOMAIN s |-> s[f]]
  /\ s.update \in Updates
  /\ s.group \in Groups
  /\ s.stage \in {"asked", "answered", "failed"}
  /\ s.pvs \subseteq Blocks

Typed ==
  /\ vgs \subseteq VGs
  /\ pvs \in [VGs -> SUBSET Blocks]
  /\ changes \in 0..MaxChanges
  /\ uevents \in 0..changes
  /\ timer \in BOOLEAN
  /\ last \in Updates
  /\ update = [u \in Updates |-> update[u]]
  /\ \A u \in Updates : IsUpdate(update[u])
  /\ IsFiniteSet(show)
  /\ \A s \in show : IsShow(s)
  /\ table \in [VGs -> Updates \cup {0}]
  /\ group = [g \in Groups |-> group[g]]
  /\ \A g \in Groups : IsGroup(group[g])
  /\ block \in [Blocks -> BlockState]
  /\ ready \in BOOLEAN
  /\ listed_by \in Updates \cup {0}

\* The list of the update was taken.
Taken(d) == d.stage \in {"showing", "freed"}

\* Nothing exists of an update whose list was not taken.
Untouched(u) ==
  /\ update[u].dropped = 0
  /\ listed_by # u
  /\ \A v \in VGs : /\ table[v] # u /\ group[<<u, v>>].need_publish
                     /\ ~group[<<u, v>>].kept /\ ~group[<<u, v>>].pinned
  /\ \A g \in Groups : group[g].by # u
  /\ \A s \in show : s.update # u /\ s.group[1] # u

UpdateInv ==
  \A u \in Updates :
    /\ u > last => update[u].stage = "unused"
    /\ update[u].ignore_locks <=> u = 1
    /\ ~Taken(update[u]) => Untouched(u)
    /\ update[u].stage = "freed" => ShowsOf(u) = {}
    /\ update[u].stage = "showing" =>
         /\ update[u].pending = Cardinality(ShowsOf(u)) + update[u].dropped
         /\ update[u].pending > 0

\* An object that may be published was never published or filled, and one that
\* may not any more is published, off the table, or lost its path to another
\* name.
GroupInv ==
  /\ \A g \in Groups :
       /\ group[g].published => table[g[2]] = g[1]
       /\ table[g[2]] = g[1] =>
            group[g].need_publish \/ group[g].published \/ Shared(g[2])
       /\ group[g].need_publish =>
            ~group[g].published /\ ~group[g].known /\ group[g].info = {}
              /\ group[g].by = 0
  /\ \A g, h \in Groups :
       group[g].published /\ group[h].published
         /\ build_object_path[g[2]] = build_object_path[h[2]] => g = h

\* The group of v is what a link of b to the path p names.
Named(gr, tb, b, p, v) ==
  /\ build_object_path[v] = p
  /\ tb[v] # 0
  /\ gr[<<tb[v], v>>].published
  /\ b \in gr[<<tb[v], v>>].info \/ (Shared(v) /\ ~gr[<<tb[v], v>>].known)

\* The group g is what a link of b without a path comes from.
Nameless(gr, tb, sh, b, g) ==
  /\ ~gr[g].published
  /\ b \in gr[g].info
  /\ tb[g[2]] = g[1] => Shared(g[2])
  /\ tb[g[2]] # g[1] => gr[g].kept \/ gr[g].pinned \/ \E s \in sh : s.group = g

Linked(gr, tb, sh, bl) ==
  \A b \in Blocks :
    /\ bl[b] \in Paths => \E v \in VGs : Named(gr, tb, b, bl[b], v)
    /\ bl[b] = "null" => \E g \in Groups : Nameless(gr, tb, sh, b, g)

LinkInv == Linked(group, table, show, block)

\* One show per update and name, and it cannot publish a removed object.
ShowInv ==
  /\ \A s \in show : \/ table[s.group[2]] = s.group[1]
                     \/ ~group[s.group].need_publish
  /\ \A s, t \in show :
       s.update = t.update /\ s.group[2] = t.group[2] => s = t

\* No event is on its way and no update is due.
Settled == uevents = 0 /\ ~timer

WarmInv ==
  last > 1 /\ Settled =>
    /\ update[last].stage = "listed" => update[last].names = vgs
    /\ listed_by = last => \A v \in VGs : table[v] # 0 <=> v \in vgs
    /\ \A s \in show : s.update = last /\ s.stage = "answered" =>
                         s.pvs = pvs[s.group[2]]
    /\ \A g \in Groups : group[g].by = last =>
                           group[g].known /\ group[g].info = pvs[g[2]]

ColdInv ==
  last = 1 =>
    /\ update[1].stage = "freed" => timer
    /\ \A s \in show : table[s.group[2]] = s.group[1]
                         /\ group[s.group].need_publish
    /\ update[1].dropped > 0 =>
         \E v \in VGs : /\ table[v] # 0
                        /\ group[<<table[v], v>>].by = 0
                        /\ \A s \in show : s.group[2] # v

IndInv ==
  /\ Typed
  /\ UpdateInv
  /\ GroupInv
  /\ ShowInv
  /\ LinkInv
  /\ WarmInv
  /\ ColdInv

-----------------------------------------------------------------------------
\* The update numbers are positive.
LEMMA Numbers ==
  /\ Updates \subseteq Nat \ {0}
  /\ 1 \in Updates
  /\ \A u \in Updates : u <= MaxChanges + 2
  /\ MaxChanges \in Nat
BY BoundsAssumption DEF Updates

\* A group is a pair of the update that created it and a name.
LEMMA Pairs ==
  /\ \A g \in Groups : g[1] \in Updates /\ g[2] \in VGs /\ g = <<g[1], g[2]>>
  /\ \A u \in Updates, v \in VGs : <<u, v>> \in Groups
BY DEF Groups

\* The shows of an update are finitely many.
LEMMA ShowsFinite ==
  ASSUME IsFiniteSet(show), NEW u
  PROVE  IsFiniteSet(ShowsOf(u)) /\ Cardinality(ShowsOf(u)) \in Nat
<1>1. ShowsOf(u) \subseteq show BY DEF ShowsOf
<1>2. IsFiniteSet(ShowsOf(u)) BY <1>1, FS_Subset
<1>3. QED BY <1>2, FS_CardinalityType

\* What the records of a new group and of a new update are.
LEMMA NewRecords ==
  /\ IsGroup(NewGroup) /\ NewGroup.need_publish /\ ~NewGroup.published
  /\ ~NewGroup.known /\ NewGroup.info = {} /\ NewGroup.by = 0
  /\ ~NewGroup.kept /\ ~NewGroup.pinned
  /\ IsUpdate(NoUpdate) /\ NoUpdate.stage = "unused" /\ ~NoUpdate.ignore_locks
  /\ NoUpdate.dropped = 0
<1>1. 0 \in Nat OBVIOUS
<1>2. IsGroup(NewGroup) BY DEF IsGroup, NewGroup
<1>3. IsUpdate(NoUpdate) BY <1>1 DEF IsUpdate, NoUpdate
<1>4. QED BY <1>2, <1>3 DEF NewGroup, NoUpdate

\* An update that was just started.
LEMMA StartedUpdate ==
  ASSUME NEW ignore_locks \in BOOLEAN, NEW task \in BOOLEAN
  PROVE  LET d == lvm_update(ignore_locks, task)
         IN  /\ IsUpdate(d) /\ d.stage = "listing" /\ d.dropped = 0
             /\ d.ignore_locks = ignore_locks
<1> DEFINE d == lvm_update(ignore_locks, task)
<1> USE NewRecords DEF IsUpdate
<1>1. IsUpdate(d) BY DEF lvm_update
<1>2. d.stage = "listing" /\ d.ignore_locks = ignore_locks /\ d.dropped = 0
  BY DEF lvm_update
<1>3. QED BY <1>1, <1>2

\* The initial state: coldplug was started.
LEMMA InitIndInv == Init => IndInv
<1> SUFFICES ASSUME Init PROVE IndInv
  OBVIOUS
<1> USE DEF Init
<1>1. \A g \in Groups : group[g] = NewGroup OBVIOUS
<1>2. \A u \in Updates : update[u] = IF u = 1 THEN lvm_update(TRUE, TRUE)
                                              ELSE NoUpdate
  OBVIOUS
<1>3. \A u \in Updates : /\ IsUpdate(update[u]) /\ update[u].dropped = 0
                         /\ update[u].stage = IF u = 1 THEN "listing" ELSE "unused"
                         /\ update[u].ignore_locks <=> u = 1
  <2> TAKE u \in Updates
  <2>1. CASE u = 1 BY <1>2, <2>1, StartedUpdate
  <2>2. CASE u # 1 BY <1>2, <2>2, NewRecords
  <2>3. QED BY <2>1, <2>2
<1>4. Typed
  <2>1. IsFiniteSet(show) BY FS_EmptySet
  <2>2. \A g \in Groups : IsGroup(group[g]) BY <1>1, NewRecords
  <2>3. block \in [Blocks -> BlockState] BY DEF BlockState
  <2>4. /\ vgs \subseteq VGs /\ changes \in 0..MaxChanges /\ uevents \in 0..changes
        /\ last \in Updates /\ table \in [VGs -> Updates \cup {0}]
    BY Numbers
  <2>5. QED BY <1>3, <2>1, <2>2, <2>3, <2>4 DEF Typed
<1>5. UpdateInv
  <2> SUFFICES ASSUME NEW u \in Updates
               PROVE  /\ u > last => update[u].stage = "unused"
                      /\ update[u].ignore_locks <=> u = 1
                      /\ Untouched(u)
                      /\ ~Taken(update[u])
    BY <1>3 DEF UpdateInv, Taken
  <2>1. \A v \in VGs : /\ group[<<u, v>>].need_publish
                       /\ ~group[<<u, v>>].kept /\ ~group[<<u, v>>].pinned
    BY <1>1, Pairs, NewRecords
  <2>2. \A g \in Groups : group[g].by # u BY <1>1, NewRecords, Numbers
  <2>3. Untouched(u) BY <1>3, <2>1, <2>2, Numbers DEF Untouched
  <2>4. ~Taken(update[u]) BY <1>3 DEF Taken
  <2>5. u > last => update[u].stage = "unused"
    <3>1. u \in Nat /\ last = 1 BY Numbers
    <3>2. u > last => u # 1 BY <3>1
    <3>3. QED BY <1>3, <3>2
  <2>6. QED BY <1>3, <2>3, <2>4, <2>5
<1>6. GroupInv
  <2>1. \A g \in Groups : table[g[2]] # g[1] BY Pairs, Numbers
  <2>2. QED BY <1>1, <2>1, NewRecords DEF GroupInv
<1>7. ShowInv BY DEF ShowInv
<1>8. LinkInv BY PathsAreNoStates DEF LinkInv, Linked
<1>9. WarmInv BY DEF WarmInv
<1>10. ColdInv
  <2>1. update[1].stage = "listing" /\ update[1].dropped = 0 BY <1>3, Numbers
  <2>2. show = {} OBVIOUS
  <2> HIDE DEF Init
  <2>3. ~(update[1].dropped > 0) BY <2>1
  <2>4. QED BY <2>1, <2>2, <2>3 DEF ColdInv
<1>11. QED BY <1>4, <1>5, <1>6, <1>7, <1>8, <1>9, <1>10 DEF IndInv

-----------------------------------------------------------------------------
\* A step that leaves the updates, their shows and the groups as they are.
LEMMA UpdateFrame ==
  ASSUME UpdateInv, UNCHANGED <<last, update, show, table, group, listed_by>>
  PROVE  UpdateInv'
<1> SUFFICES ASSUME NEW u \in Updates
             PROVE  /\ u > last' => update'[u].stage = "unused"
                    /\ update'[u].ignore_locks <=> u = 1
                    /\ ~Taken(update'[u]) => Untouched(u)'
                    /\ update'[u].stage = "freed" => ShowsOf(u)' = {}
                    /\ update'[u].stage = "showing" =>
                         /\ update'[u].pending = Cardinality(ShowsOf(u)') + update'[u].dropped
                         /\ update'[u].pending > 0
  BY DEF UpdateInv
<1>1. update'[u] = update[u] /\ last' = last OBVIOUS
<1>2. ShowsOf(u)' = ShowsOf(u) BY DEF ShowsOf
<1>3. Untouched(u) => Untouched(u)' BY <1>2 DEF Untouched
<1>4. QED BY <1>1, <1>2, <1>3 DEF UpdateInv

\* A change of LVM is followed by an event that is on its way.
LEMMA MetadataKeepsIndInv ==
  ASSUME IndInv, NEW v \in VGs, NEW exists \in BOOLEAN,
         NEW devices \in SUBSET Blocks, MetadataChanges(v, exists, devices)
  PROVE  IndInv'
<1> USE DEF MetadataChanges, lvm
<1>1. Typed'
  <2>1. changes' \in 0..MaxChanges /\ uevents' \in 0..changes'
    BY Numbers DEF IndInv, Typed
  <2>2. QED BY <2>1 DEF IndInv, Typed
<1>2. uevents' # 0 BY Numbers DEF IndInv, Typed
<1>3. UpdateInv'
  BY UpdateFrame DEF IndInv
<1>4. GroupInv' /\ ShowInv' BY DEF IndInv, GroupInv, ShowInv
<1>5. LinkInv' BY DEF IndInv, LinkInv
<1>6. WarmInv' BY <1>2 DEF WarmInv, Settled
<1>7. ColdInv' BY DEF IndInv, ColdInv
<1>8. QED BY <1>1, <1>3, <1>4, <1>5, <1>6, <1>7 DEF IndInv

\* An event sets the timer.
LEMMA UeventKeepsIndInv ==
  ASSUME IndInv, on_uevent
  PROVE  IndInv'
<1> USE DEF on_uevent, lvm
<1>1. Typed'
  <2>1. changes \in 0..MaxChanges /\ uevents \in 0..changes
    BY DEF IndInv, Typed
  <2>2. uevents > 0 /\ uevents' = uevents - 1 /\ changes' = changes OBVIOUS
  <2>3. uevents' \in 0..changes' BY <2>1, <2>2, Numbers
  <2>4. QED BY <2>3 DEF IndInv, Typed
<1>2. UpdateInv' BY UpdateFrame DEF IndInv
<1>3. GroupInv' /\ ShowInv' BY DEF IndInv, GroupInv, ShowInv
<1>4. LinkInv' BY DEF IndInv, LinkInv
<1>5. WarmInv' BY DEF WarmInv, Settled
<1>6. ColdInv' BY DEF IndInv, ColdInv
<1>7. QED BY <1>1, <1>2, <1>3, <1>4, <1>5, <1>6 DEF IndInv

\* The timer starts the next update, of which nothing was read yet.
LEMMA DelayedKeepsIndInv ==
  ASSUME IndInv, delayed_lvm_update
  PROVE  IndInv'
<1> DEFINE n == last + 1
           d == lvm_update(FALSE, FALSE)
<1>1. last \in Updates /\ n \in Updates /\ n # 1 /\ n > 1 /\ n > last
  BY BoundsAssumption DEF IndInv, Typed, delayed_lvm_update, Updates
<1>2. /\ IsUpdate(d) /\ d.stage = "listing" /\ d.dropped = 0 /\ ~d.ignore_locks
  BY StartedUpdate
<1>3. /\ last' = n /\ update' = [update EXCEPT ![n] = d] /\ timer' = FALSE
      /\ UNCHANGED <<lvm, uevents, show, table, group, block, ready, listed_by>>
  BY DEF delayed_lvm_update
<1>4. Untouched(n)
  <2>1. ~Taken(update[n]) BY <1>1 DEF IndInv, UpdateInv, Taken
  <2>2. QED BY <1>1, <2>1 DEF IndInv, UpdateInv
<1> HIDE DEF n, d
<1>5. \A u \in Updates : update'[u] = IF u = n THEN d ELSE update[u]
  BY <1>3 DEF IndInv, Typed
<1>6. update' = [u \in Updates |-> update'[u]] BY <1>3 DEF IndInv, Typed
<1>7. Typed' BY <1>1, <1>2, <1>3, <1>5, <1>6 DEF IndInv, Typed, lvm
<1>8. UpdateInv'
  <2> SUFFICES ASSUME NEW u \in Updates
               PROVE  /\ u > last' => update'[u].stage = "unused"
                      /\ update'[u].ignore_locks <=> u = 1
                      /\ ~Taken(update'[u]) => Untouched(u)'
                      /\ update'[u].stage = "freed" => ShowsOf(u)' = {}
                      /\ update'[u].stage = "showing" =>
                           /\ update'[u].pending
                                = Cardinality(ShowsOf(u)') + update'[u].dropped
                           /\ update'[u].pending > 0
    BY DEF UpdateInv
  <2>1. ShowsOf(u)' = ShowsOf(u) BY <1>3 DEF ShowsOf
  <2>2. CASE u = n
    <3>1. Untouched(u)'
      BY <1>2, <1>3, <1>4, <1>5, <2>2 DEF Untouched
    <3>2. QED BY <1>1, <1>2, <1>3, <1>5, <2>2, <3>1, Numbers
  <2>3. CASE u # n
    <3>1. update'[u] = update[u] BY <1>5, <2>3
    <3>2. Untouched(u) => Untouched(u)' BY <1>3, <3>1 DEF Untouched
    <3>3. u > n => u > last BY <1>1, Numbers DEF n
    <3>4. QED BY <1>3, <2>1, <3>1, <3>2, <3>3 DEF IndInv, UpdateInv
  <2>4. QED BY <2>2, <2>3
<1>9. GroupInv' /\ ShowInv' BY <1>3 DEF IndInv, GroupInv, ShowInv
<1>10. LinkInv' BY <1>3 DEF IndInv, LinkInv
<1>11. WarmInv'
  BY <1>1, <1>2, <1>3, <1>4, <1>5 DEF WarmInv, Untouched
<1>12. ColdInv' BY <1>1, <1>3 DEF ColdInv
<1>13. QED BY <1>7, <1>8, <1>9, <1>10, <1>11, <1>12 DEF IndInv

\* An update whose list was not taken goes on: its helper ends, or the list
\* is an error.
LEMMA ListingKeepsIndInv ==
  ASSUME IndInv, NEW u \in Updates, NEW d,
         update' = [update EXCEPT ![u] = d],
         IsUpdate(d), update[u].stage # "unused",
         d.ignore_locks = update[u].ignore_locks, d.dropped = update[u].dropped,
         ~Taken(d), ~Taken(update[u]),
         d.stage = "listed" => d.names = vgs,
         UNCHANGED <<lvm, uevents, timer, last, show, table, group, block, ready,
                     listed_by>>
  PROVE  IndInv'
<1>1. \A w \in Updates : update'[w] = IF w = u THEN d ELSE update[w]
  BY DEF IndInv, Typed
<1>2. update' = [w \in Updates |-> update'[w]] BY DEF IndInv, Typed
<1>3. Typed' BY <1>1, <1>2 DEF IndInv, Typed, lvm
<1>4. UpdateInv'
  <2> SUFFICES ASSUME NEW w \in Updates
               PROVE  /\ w > last' => update'[w].stage = "unused"
                      /\ update'[w].ignore_locks <=> w = 1
                      /\ ~Taken(update'[w]) => Untouched(w)'
                      /\ update'[w].stage = "freed" => ShowsOf(w)' = {}
                      /\ update'[w].stage = "showing" =>
                           /\ update'[w].pending
                                = Cardinality(ShowsOf(w)') + update'[w].dropped
                           /\ update'[w].pending > 0
    BY DEF UpdateInv
  <2>1. ShowsOf(w)' = ShowsOf(w) BY DEF ShowsOf
  <2>2. Untouched(w) => Untouched(w)' BY <1>1 DEF Untouched
  <2>3. CASE w = u
    <3>1. d.stage \notin {"showing", "freed"} BY DEF Taken
    <3>2. Untouched(u) BY DEF IndInv, UpdateInv
    <3>3. ~(u > last) BY DEF IndInv, UpdateInv
    <3>4. d.ignore_locks <=> u = 1 BY DEF IndInv, UpdateInv
    <3>5. QED BY <1>1, <2>2, <2>3, <3>1, <3>2, <3>3, <3>4
  <2>4. CASE w # u
    BY <1>1, <2>1, <2>2, <2>4 DEF IndInv, UpdateInv
  <2>5. QED BY <2>3, <2>4
<1>5. GroupInv' /\ ShowInv' BY DEF IndInv, GroupInv, ShowInv
<1>6. LinkInv' BY DEF IndInv, LinkInv
<1>7. WarmInv' BY <1>1 DEF IndInv, Typed, WarmInv, Settled, lvm
<1>8. ColdInv' BY <1>1, Numbers DEF IndInv, ColdInv, Taken
<1>9. QED BY <1>3, <1>4, <1>5, <1>6, <1>7, <1>8 DEF IndInv

\* The list helper ends, and lists what LVM has or fails.
LEMMA ListKeepsIndInv ==
  ASSUME IndInv, NEW u \in Updates,
         list_volume_groups(u) \/ lvm_update_list_failed(u)
  PROVE  IndInv'
<1>1. IsUpdate(update[u]) /\ update = [w \in Updates |-> update[w]]
        /\ vgs \subseteq VGs
  BY DEF IndInv, Typed
<1>2. ASSUME NEW stage \in {"unlisted", "lost"},
             update' = [update EXCEPT ![u].stage = stage],
             update[u].stage \in {"listing", "unlisted"},
             UNCHANGED <<lvm, uevents, timer, last, show, table, group, block,
                         ready, listed_by>>
      PROVE  IndInv'
  <2> DEFINE d == [update[u] EXCEPT !.stage = stage]
  <2>1. /\ IsUpdate(d) /\ d.stage = stage /\ d.dropped = update[u].dropped
        /\ d.ignore_locks = update[u].ignore_locks
        /\ d.task = update[u].task
    BY <1>1 DEF IsUpdate
  <2>2. update' = [update EXCEPT ![u] = d] BY <1>1, <1>2
  <2> HIDE DEF d
  <2>3. ~Taken(d) /\ ~Taken(update[u]) BY <1>2, <2>1 DEF Taken
  <2>4. QED BY <1>2, <2>1, <2>2, <2>3, ListingKeepsIndInv
<1>3. ASSUME update' = [update EXCEPT ![u].stage = "listed", ![u].names = vgs],
             update[u].stage = "listing",
             UNCHANGED <<lvm, uevents, timer, last, show, table, group, block,
                         ready, listed_by>>
      PROVE  IndInv'
  <2> DEFINE d == [update[u] EXCEPT !.stage = "listed", !.names = vgs]
  <2>1. /\ IsUpdate(d) /\ d.stage = "listed" /\ d.dropped = update[u].dropped
        /\ d.ignore_locks = update[u].ignore_locks /\ d.names = vgs
    BY <1>1 DEF IsUpdate
  <2>2. update' = [update EXCEPT ![u] = d] BY <1>1, <1>3
  <2> HIDE DEF d
  <2>3. ~Taken(d) /\ ~Taken(update[u]) BY <1>3, <2>1 DEF Taken
  <2>4. QED BY <1>3, <2>1, <2>2, <2>3, ListingKeepsIndInv
<1>4. QED BY <1>2, <1>3 DEF list_volume_groups, lvm_update_list_failed

-----------------------------------------------------------------------------
\* A show helper ends: its show is replaced by one with the answer.
LEMMA ShowKeepsIndInv ==
  ASSUME IndInv, NEW s \in show, show_volume_group(s)
  PROVE  IndInv'
<1> USE DEF lvm
<1>1. IsShow(s) /\ s.group[2] \in VGs /\ s.group \in Groups /\ s.update \in Updates
  BY Pairs DEF IndInv, Typed, IsShow
<1>2. PICK t : /\ show' = (show \ {s}) \cup {t}
               /\ IsShow(t) /\ t.update = s.update /\ t.group = s.group
               /\ t.stage = "answered" =>
                    t.pvs = pvs[s.group[2]] \/ update[s.update].ignore_locks
  <2>1. ASSUME NEW devices \in SUBSET Blocks,
               NEW t, t = [s EXCEPT !.stage = "answered", !.pvs = devices]
        PROVE  /\ IsShow(t) /\ t.update = s.update /\ t.group = s.group
               /\ t.pvs = devices
    BY <1>1, <2>1 DEF IsShow
  <2>2. ASSUME NEW t, t = [s EXCEPT !.stage = "failed"]
        PROVE  /\ IsShow(t) /\ t.update = s.update /\ t.group = s.group
               /\ t.stage # "answered"
    BY <1>1, <2>2 DEF IsShow
  <2>3. pvs[s.group[2]] \in SUBSET Blocks BY <1>1 DEF IndInv, Typed
  <2>4. CASE show' = (show \ {s}) \cup {[s EXCEPT !.stage = "answered",
                                                  !.pvs = pvs[s.group[2]]]}
    BY <2>1, <2>3, <2>4
  <2>5. CASE /\ update[s.update].ignore_locks
             /\ \E devices \in SUBSET Blocks :
                  show' = (show \ {s}) \cup {[s EXCEPT !.stage = "answered",
                                                       !.pvs = devices]}
    BY <2>1, <2>5
  <2>6. CASE show' = (show \ {s}) \cup {[s EXCEPT !.stage = "failed"]}
    BY <2>2, <2>6
  <2>7. QED BY <2>4, <2>5, <2>6 DEF show_volume_group
<1>3. UNCHANGED <<vgs, pvs, changes, uevents, timer, last, update, table, group,
                  block, ready, listed_by>>
  BY DEF show_volume_group
<1>4. Typed'
  <2>1. IsFiniteSet(show') BY <1>2, FS_RemoveElement, FS_AddElement
                              DEF IndInv, Typed
  <2>2. \A x \in show' : IsShow(x) BY <1>2 DEF IndInv, Typed
  <2>3. QED BY <1>3, <2>1, <2>2 DEF IndInv, Typed
<1>5. \A x \in show' : \E y \in show : /\ x.update = y.update /\ x.group = y.group
                                       /\ (x = y /\ y # s) \/ (x = t /\ y = s)
  BY <1>2
<1>6. ASSUME NEW u \in Updates
      PROVE  /\ Cardinality(ShowsOf(u)') = Cardinality(ShowsOf(u))
             /\ ShowsOf(u) = {} => ShowsOf(u)' = {}
  <2>1. IsFiniteSet(ShowsOf(u)) /\ IsFiniteSet(show)
    BY ShowsFinite DEF IndInv, Typed
  <2>2. CASE u # s.update
    <3>1. ShowsOf(u)' = ShowsOf(u) BY <1>2, <2>2 DEF ShowsOf
    <3>2. QED BY <3>1
  <2>3. CASE u = s.update
    <3> DEFINE R == ShowsOf(u) \ {s}
    <3>1. s \in ShowsOf(u) /\ ShowsOf(u)' = R \cup {t}
      BY <1>2, <2>3 DEF ShowsOf
    <3>2. t \notin R
      <4>1. SUFFICES ASSUME t \in show, t # s PROVE FALSE
        BY DEF ShowsOf
      <4>2. QED BY <1>2, <4>1 DEF IndInv, ShowInv
    <3>3. /\ IsFiniteSet(R) /\ Cardinality(R) = Cardinality(ShowsOf(u)) - 1
      BY <2>1, <3>1, FS_RemoveElement
    <3>4. Cardinality(R \cup {t}) = Cardinality(R) + 1
      BY <3>2, <3>3, FS_AddElement
    <3>5. Cardinality(ShowsOf(u)) \in Nat BY <2>1, FS_CardinalityType
    <3> HIDE DEF R
    <3>6. QED BY <3>1, <3>3, <3>4, <3>5
  <2>4. QED BY <2>2, <2>3
<1>7. UpdateInv'
  <2>1. ASSUME NEW u \in Updates, Untouched(u) PROVE Untouched(u)'
    BY <1>3, <1>5, <2>1 DEF Untouched
  <2>2. QED BY <1>3, <1>6, <2>1 DEF IndInv, UpdateInv
<1>8. GroupInv' BY <1>3 DEF IndInv, GroupInv
<1>9. ShowInv'
  <2>1. \A x \in show' : \/ table'[x.group[2]] = x.group[1]
                         \/ ~group'[x.group].need_publish
    BY <1>3, <1>5 DEF IndInv, ShowInv
  <2>2. ASSUME NEW x \in show', NEW y \in show', x.update = y.update,
               x.group[2] = y.group[2]
        PROVE  x = y
    <3>1. PICK a \in show : /\ x.update = a.update /\ x.group = a.group
                            /\ (x = a /\ a # s) \/ (x = t /\ a = s)
      BY <1>5
    <3>2. PICK b \in show : /\ y.update = b.update /\ y.group = b.group
                            /\ (y = b /\ b # s) \/ (y = t /\ b = s)
      BY <1>5
    <3>3. a = b BY <2>2, <3>1, <3>2 DEF IndInv, ShowInv
    <3>4. QED BY <3>1, <3>2, <3>3
  <2>3. QED BY <2>1, <2>2 DEF ShowInv
<1>10. LinkInv'
  <2>1. \A g : (\E x \in show : x.group = g) => (\E x \in show' : x.group = g)
    BY <1>2
  <2>2. \A b, g : Nameless(group, table, show, b, g) =>
                   Nameless(group, table, show', b, g)
    BY <2>1 DEF Nameless
  <2>3. Linked(group, table, show', block) BY <2>2 DEF IndInv, LinkInv, Linked
  <2>4. QED BY <1>3, <2>3 DEF LinkInv
<1>11. WarmInv'
  <2>1. ASSUME last > 1, Settled, NEW x \in show', x.update = last,
               x.stage = "answered"
        PROVE  x.pvs = pvs[x.group[2]]
    <3>1. CASE x = t
      <4>1. ~update[s.update].ignore_locks
        BY <1>1, <1>2, <2>1, <3>1 DEF IndInv, UpdateInv
      <4>2. QED BY <1>2, <2>1, <3>1, <4>1
    <3>2. CASE x # t BY <1>2, <2>1, <3>2 DEF IndInv, WarmInv
    <3>3. QED BY <3>1, <3>2
  <2>2. QED BY <1>3, <2>1 DEF IndInv, WarmInv, Settled
<1>12. ColdInv'
  <2>1. ASSUME NEW v, \A x \in show : x.group[2] # v
        PROVE  \A x \in show' : x.group[2] # v
    BY <1>5, <2>1
  <2>2. ASSUME last = 1
        PROVE  \A x \in show' : table[x.group[2]] = x.group[1]
                                  /\ group[x.group].need_publish
    BY <1>5, <2>2 DEF IndInv, ColdInv
  <2>3. QED BY <1>3, <2>1, <2>2 DEF IndInv, ColdInv
<1>13. QED
  BY <1>4, <1>7, <1>8, <1>9, <1>10, <1>11, <1>12 DEF IndInv

-----------------------------------------------------------------------------
\* Only the links change.
LEMMA LinksKeepIndInv ==
  ASSUME IndInv, block' \in [Blocks -> BlockState], LinkInv',
         UNCHANGED <<lvm, uevents, timer, last, update, show, table, group, ready,
                     listed_by>>
  PROVE  IndInv'
<1> USE DEF lvm
<1>1. Typed' BY DEF IndInv, Typed
<1>2. UpdateInv' BY UpdateFrame DEF IndInv
<1>3. GroupInv' /\ ShowInv' BY DEF IndInv, GroupInv, ShowInv
<1>4. WarmInv' BY DEF IndInv, WarmInv, Settled
<1>5. ColdInv' BY DEF IndInv, ColdInv
<1>6. QED BY <1>1, <1>2, <1>3, <1>4, <1>5 DEF IndInv

\* A path is none of the other states of an overlay.
LEMMA PathOfName ==
  ASSUME NEW v \in VGs
  PROVE  /\ build_object_path[v] \in Paths
         /\ build_object_path[v] \notin {"absent", "none", "null"}
BY PathsAreNoStates DEF Paths

\* A group in the table that lists a device names it, or has lost its path.
LEMMA ListedIsLinked ==
  ASSUME IndInv, NEW v \in VGs, table[v] # 0, NEW b \in Blocks,
         b \in group[<<table[v], v>>].info,
         NEW p, p = object_path(group[<<table[v], v>>], v)
  PROVE  /\ p \in Paths \cup {"null"}
         /\ p \in Paths => Named(group, table, b, p, v)
         /\ p = "null" => Nameless(group, table, show, b, <<table[v], v>>)
<1> DEFINE g == <<table[v], v>>
<1>1. g \in Groups /\ g[1] = table[v] /\ g[2] = v BY Pairs DEF IndInv, Typed
<1>2. IsGroup(group[g]) BY <1>1 DEF IndInv, Typed
<1>3. CASE group[g].published
  <2>1. p = build_object_path[v] BY <1>3 DEF object_path
  <2>2. p \in Paths /\ p # "null" BY <2>1, PathOfName
  <2>3. QED BY <1>3, <2>1, <2>2 DEF Named
<1>4. CASE ~group[g].published
  <2>1. p = "null" /\ p \notin Paths BY <1>4, PathsAreNoStates DEF object_path
  <2>2. ~group[g].need_publish BY <1>1 DEF IndInv, GroupInv
  <2>3. Shared(v) BY <1>1, <1>4, <2>2 DEF IndInv, GroupInv
  <2>4. Nameless(group, table, show, b, g) BY <1>1, <1>4, <2>3 DEF Nameless
  <2>5. QED BY <2>1, <2>4
<1>5. QED BY <1>2, <1>3, <1>4 DEF IsGroup

\* A device is announced and gets its link, or is withdrawn.
LEMMA OverlayKeepsIndInv ==
  ASSUME IndInv, NEW b \in Blocks,
         on_udisks_interface_added(b) \/ on_udisks_interface_removed(b)
  PROVE  IndInv'
<1>1. block \in [Blocks -> BlockState] BY DEF IndInv, Typed
<1>2. UNCHANGED <<lvm, uevents, timer, last, update, show, table, group, ready,
                  listed_by>>
  BY DEF on_udisks_interface_added, on_udisks_interface_removed
<1>3. PICK p : /\ block' = [block EXCEPT ![b] = p]
               /\ \/ p \in {"absent", "none"}
                  \/ \E v \in VGs : /\ table[v] # 0
                                    /\ b \in group[<<table[v], v>>].info
                                    /\ p = object_path(group[<<table[v], v>>], v)
  BY DEF on_udisks_interface_added, on_udisks_interface_removed
<1>4. /\ p \in BlockState
      /\ p \in Paths => \E v \in VGs : Named(group, table, b, p, v)
      /\ p = "null" => \E g \in Groups : Nameless(group, table, show, b, g)
  <2>1. CASE p \in {"absent", "none"} BY <2>1, PathsAreNoStates DEF BlockState
  <2>2. ASSUME NEW v \in VGs, table[v] # 0, b \in group[<<table[v], v>>].info,
               p = object_path(group[<<table[v], v>>], v)
        PROVE  <1>4!1 /\ <1>4!2 /\ <1>4!3
    <3>1. <<table[v], v>> \in Groups BY <2>2, Pairs DEF IndInv, Typed
    <3>2. QED BY <2>2, <3>1, ListedIsLinked DEF BlockState
  <2>3. QED BY <1>3, <2>1, <2>2
<1>5. block' \in [Blocks -> BlockState] BY <1>1, <1>3, <1>4
<1>6. \A c \in Blocks : block'[c] = IF c = b THEN p ELSE block[c] BY <1>1, <1>3
<1>7. Linked(group, table, show, block') BY <1>4, <1>6 DEF IndInv, LinkInv, Linked
<1>8. LinkInv' BY <1>2, <1>7 DEF LinkInv
<1>9. QED BY <1>2, <1>5, <1>8, LinksKeepIndInv

-----------------------------------------------------------------------------
\* lvm_update_from_variant, its parts by name.
Gone(u) == {g \in Groups : table[g[2]] = g[1] /\ g[2] \notin update[u].names}

ObjectOf(u, v) == IF table[v] = 0 THEN u ELSE table[v]

NewShow(u, v) == [update |-> u, group |-> <<ObjectOf(u, v), v>>,
                  stage |-> "asked", pvs |-> {}]

NewShows(u) == {NewShow(u, v) : v \in update[u].names}

\* What the list of u leads to; d is the update's record after that.
TakesList(u, d) ==
  /\ update[u].stage = "listed"
  /\ update' = [update EXCEPT ![u] = d]
  /\ IsUpdate(d)
  /\ d.stage = IF update[u].names = {} THEN "freed" ELSE "showing"
  /\ d.pending = Cardinality(update[u].names)
  /\ d.dropped = update[u].dropped
  /\ d.ignore_locks = update[u].ignore_locks
  /\ d.task = update[u].task
  /\ table' = [v \in VGs |-> IF v \in update[u].names THEN ObjectOf(u, v) ELSE 0]
  /\ group' = [g \in Groups |-> IF g \in Gone(u) THEN disposed(group[g])
                                                 ELSE group[g]]
  /\ show' = show \cup NewShows(u)
  /\ lvm_update_done(d)
  /\ listed_by' = u
  /\ UNCHANGED <<vgs, pvs, changes, uevents, last>>

\* Disposing of a group leaves nothing to publish.
LEMMA DisposedFields ==
  ASSUME NEW r, IsGroup(r)
  PROVE  LET q == disposed(r)
         IN  /\ IsGroup(q) /\ ~q.need_publish /\ ~q.published /\ ~q.known
             /\ q.info = {} /\ q.by = 0 /\ q.kept = r.kept
             /\ q.pinned = r.pinned
<1> DEFINE q == disposed(r)
<1> USE DEF IsGroup, disposed
<1>1. IsGroup(q) OBVIOUS
<1>2. QED BY <1>1

\* The groups that are not listed any more, as the code collects them.
LEMMA GoneGroups ==
  ASSUME IndInv, NEW u \in Updates
  PROVE  {<<table[v], v>> : v \in {w \in VGs \ update[u].names : table[w] # 0}}
           = Gone(u)
<1> DEFINE S == {<<table[v], v>> :
                   v \in {w \in VGs \ update[u].names : table[w] # 0}}
<1>1. ASSUME NEW g \in S PROVE g \in Gone(u)
  BY Pairs DEF Gone, IndInv, Typed
<1>2. ASSUME NEW g \in Gone(u) PROVE g \in S
  <2>1. g \in Groups /\ table[g[2]] = g[1] /\ g[2] \notin update[u].names
    BY DEF Gone
  <2>2. g[1] \in Updates /\ g[2] \in VGs /\ g = <<g[1], g[2]>> BY <2>1, Pairs
  <2>3. g = <<table[g[2]], g[2]>> /\ table[g[2]] # 0 BY <2>1, <2>2, Numbers
  <2>4. QED BY <2>1, <2>2, <2>3
<1>3. QED BY <1>1, <1>2

\* The list of u is taken.
LEMMA ListEffect ==
  ASSUME IndInv, NEW u \in Updates, lvm_update_from_variant(u)
  PROVE  /\ \E d : TakesList(u, d)
         /\ \E paths : /\ block' = unlink_blocks(paths, block)
                       /\ \A g \in Gone(u) : object_path(group[g], g[2]) \in paths
<1> DEFINE names  == update[u].names
           gone   == {<<table[v], v>> : v \in {w \in VGs \ names : table[w] # 0}}
           held   == {g \in gone : \/ group[g].kept \/ group[g].pinned
                                   \/ \E s \in show : s.group = g}
           paths  == {path_when_unlinked(group[g], g[2]) : g \in gone}
                       \cup {"null" : g \in gone \ held}
           object == [v \in names |-> ObjectOf(u, v)]
           d      == [update[u] EXCEPT
                        !.stage = IF names = {} THEN "freed" ELSE "showing",
                        !.names = {},
                        !.pending = Cardinality(names)]
<1>1. /\ update[u].stage = "listed"
      /\ update' = [update EXCEPT ![u] = d]
      /\ table' = [v \in VGs |-> IF v \in names THEN object[v] ELSE 0]
      /\ group' = [g \in Groups |-> IF g \in gone THEN disposed(group[g])
                                                  ELSE group[g]]
      /\ block' = unlink_blocks(paths, block)
      /\ show' = show \cup {[update |-> u, group |-> <<object[v], v>>,
                             stage |-> "asked", pvs |-> {}] : v \in names}
      /\ lvm_update_done(d)
      /\ listed_by' = u
      /\ UNCHANGED <<vgs, pvs, changes, uevents, last>>
  BY DEF lvm_update_from_variant, ObjectOf, lvm
<1>2. gone = Gone(u) BY GoneGroups
<1>3. names \subseteq VGs /\ IsUpdate(update[u])
  BY DEF IndInv, Typed, IsUpdate
<1>4. IsFiniteSet(names) /\ Cardinality(names) \in Nat
  BY <1>3, SetsFinite, FS_Subset, FS_CardinalityType
<1>5. /\ IsUpdate(d)
      /\ d.stage = IF names = {} THEN "freed" ELSE "showing"
      /\ d.pending = Cardinality(names)
      /\ d.dropped = update[u].dropped
      /\ d.ignore_locks = update[u].ignore_locks
      /\ d.task = update[u].task
  <2> DEFINE c == Cardinality(names)
             st == IF names = {} THEN "freed" ELSE "showing"
  <2>1. d = [update[u] EXCEPT !.stage = st, !.names = {}, !.pending = c] OBVIOUS
  <2>2. c \in Nat /\ st \in {"freed", "showing"} BY <1>4
  <2> HIDE DEF d, c, st
  <2>3. /\ IsUpdate(d) /\ d.stage = st /\ d.pending = c
        /\ d.dropped = update[u].dropped
        /\ d.ignore_locks = update[u].ignore_locks
        /\ d.task = update[u].task
    BY <1>3, <2>1, <2>2 DEF IsUpdate
  <2>4. QED BY <2>3 DEF c, st
<1>6. {[update |-> u, group |-> <<object[v], v>>, stage |-> "asked", pvs |-> {}]
          : v \in names} = NewShows(u)
  BY DEF NewShows, NewShow
<1>7. table' = [v \in VGs |-> IF v \in names THEN ObjectOf(u, v) ELSE 0]
  BY <1>1
<1> HIDE DEF d
<1>8. TakesList(u, d)
  BY <1>1, <1>2, <1>5, <1>6, <1>7 DEF TakesList
<1>9. \A g \in Gone(u) : object_path(group[g], g[2]) \in paths
  BY <1>2 DEF path_when_unlinked
<1> HIDE DEF paths
<1>10. QED BY <1>1, <1>8, <1>9

\* There is one new show per name.
LEMMA NewShowsCounted ==
  ASSUME IndInv, NEW u \in Updates
  PROVE  /\ IsFiniteSet(NewShows(u))
         /\ Cardinality(NewShows(u)) = Cardinality(update[u].names)
         /\ \A x \in NewShows(u) : /\ x.update = u /\ x.stage = "asked"
                                   /\ x.group[2] \in update[u].names
                                   /\ x.group[1] = ObjectOf(u, x.group[2])
                                   /\ x = NewShow(u, x.group[2])
                                   /\ IsShow(x)
<1> DEFINE names == update[u].names
           f == [v \in names |-> NewShow(u, v)]
<1>1. names \subseteq VGs BY DEF IndInv, Typed, IsUpdate
<1>2. IsFiniteSet(names) BY <1>1, SetsFinite, FS_Subset
<1>3. ASSUME NEW v \in names
      PROVE  LET x == NewShow(u, v)
             IN  /\ x.update = u /\ x.stage = "asked" /\ x.group[2] = v
                 /\ x.group[1] = ObjectOf(u, v) /\ IsShow(x)
  <2>1. ObjectOf(u, v) \in Updates BY <1>1 DEF ObjectOf, IndInv, Typed
  <2>2. <<ObjectOf(u, v), v>> \in Groups BY <1>1, <2>1, Pairs
  <2>3. QED BY <2>2 DEF NewShow, IsShow
<1>4. f \in Bijection(names, NewShows(u))
  <2>1. f \in [names -> NewShows(u)] BY DEF NewShows
  <2>2. \A v, w \in names : f[v] = f[w] => v = w BY <1>3
  <2>3. \A x \in NewShows(u) : \E v \in names : f[v] = x BY DEF NewShows
  <2> HIDE DEF f
  <2>4. QED BY <2>1, <2>2, <2>3 DEF Bijection, Injection, Surjection, IsInjective
<1>5. /\ IsFiniteSet(NewShows(u))
      /\ Cardinality(NewShows(u)) = Cardinality(names)
  BY <1>2, <1>4, FS_Bijection DEF ExistsBijection
<1>6. QED BY <1>3, <1>5 DEF NewShows

\* Nothing exists of an update that was not started.
LEMMA FutureUntouched ==
  ASSUME IndInv, NEW u \in Updates, u > last
  PROVE  Untouched(u)
<1>1. ~Taken(update[u]) BY DEF IndInv, UpdateInv, Taken
<1>2. QED BY <1>1 DEF IndInv, UpdateInv

\* The list of an update is taken: objects are removed and created.
LEMMA ListTakenKeepsIndInv ==
  ASSUME IndInv, NEW u \in Updates, lvm_update_from_variant(u)
  PROVE  IndInv'
<1> DEFINE names == update[u].names
<1>1. PICK d : TakesList(u, d) BY ListEffect
<1>2. PICK paths : /\ block' = unlink_blocks(paths, block)
                   /\ \A g \in Gone(u) : object_path(group[g], g[2]) \in paths
  BY ListEffect
<1>3. ~Taken(update[u]) /\ ~(u > last)
  BY <1>1 DEF TakesList, Taken, IndInv, UpdateInv
<1>4. Untouched(u) BY <1>3 DEF IndInv, UpdateInv
<1>5. names \subseteq VGs BY DEF IndInv, Typed, IsUpdate
<1>6. \A w \in Updates : update'[w] = IF w = u THEN d ELSE update[w]
  BY <1>1 DEF TakesList, IndInv, Typed
<1>7. ASSUME NEW v \in VGs
      PROVE  /\ v \notin names => table'[v] = 0
             /\ v \in names => /\ table'[v] = ObjectOf(u, v)
                               /\ table'[v] \in Updates /\ table'[v] # 0
             /\ v \in names /\ table[v] # 0 => table'[v] = table[v]
             /\ v \in names /\ table[v] = 0 => table'[v] = u
  BY <1>1, Numbers DEF TakesList, ObjectOf, IndInv, Typed
<1>8. ASSUME NEW g \in Groups
      PROVE  /\ g \in Gone(u) => group'[g] = disposed(group[g])
             /\ g \notin Gone(u) => group'[g] = group[g]
  BY <1>1 DEF TakesList
<1>9. ASSUME NEW g \in Gone(u)
      PROVE  /\ IsGroup(group'[g]) /\ ~group'[g].need_publish
             /\ ~group'[g].published /\ group'[g].by = 0
             /\ group'[g].info = {}
  <2>1. g \in Groups /\ IsGroup(group[g]) BY DEF Gone, IndInv, Typed
  <2>2. QED BY <1>8, <2>1, DisposedFields
<1>10. /\ show' = show \cup NewShows(u) /\ lvm_update_done(d) /\ listed_by' = u
       /\ UNCHANGED <<vgs, pvs, changes, uevents, last>>
  BY <1>1 DEF TakesList
<1>11. Typed'
  <2>1. update' = [w \in Updates |-> update'[w]]
    BY <1>1 DEF TakesList, IndInv, Typed
  <2>2. \A w \in Updates : IsUpdate(update'[w])
    BY <1>1, <1>6 DEF TakesList, IndInv, Typed
  <2>3. IsFiniteSet(show')
    BY <1>10, NewShowsCounted, FS_Union DEF IndInv, Typed
  <2>4. \A x \in show' : IsShow(x) BY <1>10, NewShowsCounted DEF IndInv, Typed
  <2>5. table' \in [VGs -> Updates \cup {0}]
    <3>1. \A v \in VGs : table'[v] \in Updates \cup {0} BY <1>7
    <3>2. QED BY <1>1, <3>1 DEF TakesList
  <2>6. group' = [g \in Groups |-> group'[g]] BY <1>1 DEF TakesList
  <2>7. \A g \in Groups : IsGroup(group'[g]) BY <1>8, <1>9 DEF IndInv, Typed
  <2>8. block' \in [Blocks -> BlockState]
    BY <1>2 DEF unlink_blocks, BlockState, IndInv, Typed
  <2>9. timer' \in BOOLEAN /\ ready' \in BOOLEAN BY <1>10 DEF lvm_update_done
  <2>10. QED
    BY <1>10, <2>1, <2>2, <2>3, <2>4, <2>5, <2>6, <2>7, <2>8, <2>9
       DEF IndInv, Typed
<1>12. UpdateInv'
  <2> SUFFICES ASSUME NEW w \in Updates
               PROVE  /\ w > last' => update'[w].stage = "unused"
                      /\ update'[w].ignore_locks <=> w = 1
                      /\ ~Taken(update'[w]) => Untouched(w)'
                      /\ update'[w].stage = "freed" => ShowsOf(w)' = {}
                      /\ update'[w].stage = "showing" =>
                           /\ update'[w].pending
                                = Cardinality(ShowsOf(w)') + update'[w].dropped
                           /\ update'[w].pending > 0
    BY DEF UpdateInv
  <2>1. CASE w = u
    <3>1. ShowsOf(u)' = NewShows(u)
      BY <1>4, <1>10, NewShowsCounted DEF ShowsOf, Untouched
    <3>2. d.dropped = 0 BY <1>1, <1>4 DEF TakesList, Untouched
    <3>3. Taken(d) BY <1>1 DEF TakesList, Taken
    <3>4. d.ignore_locks <=> u = 1 BY <1>1 DEF TakesList, IndInv, UpdateInv
    <3>5. IsFiniteSet(NewShows(u)) /\ Cardinality(NewShows(u)) = Cardinality(names)
      BY NewShowsCounted
    <3>6. d.pending = Cardinality(NewShows(u)) /\ d.pending \in Nat
      BY <1>1, <3>5 DEF TakesList, IsUpdate
    <3>7. CASE names = {}
      <4>1. NewShows(u) = {} BY <3>7 DEF NewShows
      <4>2. d.stage = "freed" BY <1>1, <3>7 DEF TakesList
      <4>3. QED BY <1>3, <1>6, <1>10, <2>1, <3>1, <3>3, <3>4, <4>1, <4>2
    <3>8. CASE names # {}
      <4>1. d.stage = "showing" BY <1>1, <3>8 DEF TakesList
      <4>2. NewShows(u) # {} BY <3>8 DEF NewShows
      <4>3. d.pending # 0 BY <3>5, <3>6, <4>2, FS_EmptySet
      <4>4. d.pending > 0 /\ d.pending = Cardinality(ShowsOf(u)') + d.dropped
        BY <3>1, <3>2, <3>6, <4>3
      <4>5. QED BY <1>3, <1>6, <1>10, <2>1, <3>3, <3>4, <4>1, <4>4
    <3>9. QED BY <3>7, <3>8
  <2>2. CASE w # u
    <3>1. ShowsOf(w)' = ShowsOf(w)
      BY <1>10, <2>2, NewShowsCounted DEF ShowsOf
    <3>2. update'[w] = update[w] BY <1>6, <2>2
    <3>3. ASSUME Untouched(w) PROVE Untouched(w)'
      <4>1. \A v \in VGs : table'[v] # w
        BY <1>7, <2>2, <3>3, Numbers DEF Untouched
      <4>2. ASSUME NEW v \in VGs
            PROVE  /\ group'[<<w, v>>].need_publish
                   /\ ~group'[<<w, v>>].kept /\ ~group'[<<w, v>>].pinned
        <5>1. <<w, v>> \in Groups /\ <<w, v>> \notin Gone(u)
          BY <3>3, Pairs DEF Untouched, Gone
        <5>2. QED BY <1>8, <3>3, <5>1 DEF Untouched
      <4>3. \A g \in Groups : group'[g].by # w
        BY <1>8, <1>9, <3>3, Numbers DEF Untouched
      <4>4. ASSUME NEW x \in NewShows(u) PROVE x.update # w /\ x.group[1] # w
        <5>1. /\ x.update = u /\ x.group[2] \in VGs
              /\ x.group[1] = ObjectOf(u, x.group[2])
          BY <1>5, NewShowsCounted
        <5>2. QED BY <2>2, <3>3, <5>1 DEF Untouched, ObjectOf
      <4>5. QED BY <1>10, <2>2, <3>2, <3>3, <4>1, <4>2, <4>3, <4>4 DEF Untouched
    <3>4. QED BY <1>10, <3>1, <3>2, <3>3 DEF IndInv, UpdateInv
  <2>3. QED BY <2>1, <2>2
<1>13. GroupInv'
  <2>1. ASSUME NEW g \in Groups
        PROVE  /\ group'[g].published => table'[g[2]] = g[1] /\ group[g].published
               /\ table'[g[2]] = g[1] =>
                    group'[g].need_publish \/ group'[g].published \/ Shared(g[2])
               /\ group'[g].need_publish =>
                    ~group'[g].published /\ ~group'[g].known
                      /\ group'[g].info = {} /\ group'[g].by = 0
    <3>1. g[1] \in Updates /\ g[2] \in VGs /\ g = <<g[1], g[2]>> /\ g[1] # 0
      BY Pairs, Numbers
    <3>2. CASE g \in Gone(u)
      <4>1. g[2] \notin names BY <3>2 DEF Gone
      <4>2. table'[g[2]] # g[1] BY <1>7, <3>1, <4>1
      <4>3. QED BY <1>9, <3>2, <4>2
    <3>3. CASE g \notin Gone(u)
      <4>1. group'[g] = group[g] BY <1>8, <3>3
      <4>2. ASSUME group[g].published PROVE table'[g[2]] = g[1]
        BY <1>7, <3>1, <3>3, <4>2 DEF Gone, IndInv, GroupInv
      <4>3. ASSUME table'[g[2]] = g[1]
            PROVE  group[g].need_publish \/ group[g].published \/ Shared(g[2])
        <5>1. CASE table[g[2]] # 0 BY <1>7, <3>1, <4>3, <5>1 DEF IndInv, GroupInv
        <5>2. CASE table[g[2]] = 0
          <6>1. g[1] = u BY <1>7, <3>1, <4>3, <5>2
          <6>2. QED BY <1>4, <3>1, <6>1 DEF Untouched
        <5>3. QED BY <5>1, <5>2
      <4>4. QED BY <4>1, <4>2, <4>3 DEF IndInv, GroupInv
    <3>4. QED BY <3>2, <3>3
  <2>2. \A g, h \in Groups :
          group'[g].published /\ group'[h].published
            /\ build_object_path[g[2]] = build_object_path[h[2]] => g = h
    BY <2>1 DEF IndInv, GroupInv
  <2>3. QED BY <2>1, <2>2 DEF GroupInv
<1>14. ShowInv'
  <2>1. ASSUME NEW x \in show
        PROVE  \/ table'[x.group[2]] = x.group[1] \/ ~group'[x.group].need_publish
    <3>1. x.group \in Groups /\ x.group[2] \in VGs /\ x.group[1] # 0
      BY Pairs, Numbers DEF IndInv, Typed, IsShow
    <3>2. CASE x.group \in Gone(u) BY <1>9, <3>2
    <3>3. CASE x.group \notin Gone(u)
      BY <1>7, <1>8, <3>1, <3>3 DEF Gone, IndInv, ShowInv
    <3>4. QED BY <3>2, <3>3
  <2>2. ASSUME NEW x \in NewShows(u) PROVE table'[x.group[2]] = x.group[1]
    BY <1>5, <1>7, NewShowsCounted
  <2>3. ASSUME NEW x \in show', NEW y \in show', x.update = y.update,
               x.group[2] = y.group[2]
        PROVE  x = y
    <3>1. CASE x \in show /\ y \in show BY <2>3, <3>1 DEF IndInv, ShowInv
    <3>2. CASE x \in NewShows(u) /\ y \in NewShows(u)
      BY <2>3, <3>2, NewShowsCounted
    <3>3. ASSUME NEW a \in show, NEW b \in NewShows(u) PROVE a.update # b.update
      BY <1>4, NewShowsCounted DEF Untouched
    <3>4. QED BY <1>10, <2>3, <3>1, <3>2, <3>3
  <2>4. \A x \in show' : \/ table'[x.group[2]] = x.group[1]
                         \/ ~group'[x.group].need_publish
    BY <1>10, <2>1, <2>2
  <2>5. QED BY <2>3, <2>4 DEF ShowInv
<1>15. LinkInv'
  <2> SUFFICES ASSUME NEW b \in Blocks
               PROVE  /\ block'[b] \in Paths =>
                           \E v \in VGs : Named(group', table', b, block'[b], v)
                      /\ block'[b] = "null" =>
                           \E g \in Groups : Nameless(group', table', show', b, g)
    BY DEF LinkInv, Linked
  <2>1. block'[b] = IF block[b] \in paths THEN "none" ELSE block[b]
    BY <1>2 DEF unlink_blocks
  <2>2. ASSUME block'[b] \in Paths
        PROVE  \E v \in VGs : Named(group', table', b, block'[b], v)
    <3>1. block'[b] = block[b] /\ block[b] \notin paths
      BY <2>1, <2>2, PathsAreNoStates
    <3>2. PICK v \in VGs : Named(group, table, b, block[b], v)
      BY <2>2, <3>1 DEF IndInv, LinkInv, Linked
    <3> DEFINE g == <<table[v], v>>
    <3>3. /\ table[v] # 0 /\ group[g].published /\ build_object_path[v] = block[b]
      BY <3>2 DEF Named
    <3>4. g \in Groups /\ g[2] = v /\ g[1] = table[v]
      BY <3>3, Pairs DEF IndInv, Typed
    <3>5. g \notin Gone(u) BY <1>2, <3>1, <3>3, <3>4 DEF object_path
    <3>6. v \in names BY <3>4, <3>5 DEF Gone
    <3>7. table'[v] = table[v] BY <1>7, <3>3, <3>6
    <3>8. group'[g] = group[g] BY <1>8, <3>4, <3>5
    <3>9. Named(group', table', b, block[b], v) BY <3>2, <3>7, <3>8 DEF Named
    <3>10. QED BY <3>1, <3>9
  <2>3. ASSUME block'[b] = "null"
        PROVE  \E g \in Groups : Nameless(group', table', show', b, g)
    <3>1. block[b] = "null" /\ "null" \notin paths BY <2>1, <2>3
    <3>2. PICK g \in Groups : Nameless(group, table, show, b, g)
      BY <3>1 DEF IndInv, LinkInv, Linked
    <3>3. g \notin Gone(u)
      <4>1. ~group[g].published BY <3>2 DEF Nameless
      <4>2. QED BY <1>2, <3>1, <4>1 DEF object_path
    <3>4. group'[g] = group[g] BY <1>8, <3>3
    <3>5. g[1] # u
      <4>1. ~group[g].need_publish BY <3>2 DEF Nameless, IndInv, GroupInv
      <4>2. QED BY <1>4, <4>1, Pairs DEF Untouched
    <3>6. table'[g[2]] = g[1] <=> table[g[2]] = g[1]
      BY <1>7, <3>3, <3>5, Pairs, Numbers DEF Gone
    <3>7. Nameless(group', table', show', b, g)
      BY <1>10, <3>2, <3>4, <3>6 DEF Nameless
    <3>8. QED BY <3>7
  <2>4. QED BY <2>2, <2>3
<1>16. WarmInv'
  <2> SUFFICES ASSUME last > 1, Settled'
               PROVE  /\ update'[last].stage = "listed" => update'[last].names = vgs
                      /\ listed_by' = last =>
                           \A v \in VGs : table'[v] # 0 <=> v \in vgs
                      /\ \A s \in show' : s.update = last /\ s.stage = "answered" =>
                                            s.pvs = pvs[s.group[2]]
                      /\ \A g \in Groups :
                           group'[g].by = last =>
                             group'[g].known /\ group'[g].info = pvs[g[2]]
    BY <1>10 DEF WarmInv
  <2>1. Settled BY <1>10 DEF Settled, lvm_update_done
  <2>2. last \in Updates /\ last # 0 BY Numbers DEF IndInv, Typed
  <2>3. update'[last].stage = "listed" => update'[last].names = vgs
    BY <1>1, <1>6, <2>1, <2>2 DEF TakesList, IndInv, WarmInv
  <2>4. listed_by' = last => \A v \in VGs : table'[v] # 0 <=> v \in vgs
    <3>1. SUFFICES ASSUME u = last PROVE \A v \in VGs : table'[v] # 0 <=> v \in vgs
      BY <1>10
    <3>2. names = vgs BY <1>1, <2>1, <3>1 DEF TakesList, IndInv, WarmInv
    <3>3. QED BY <1>7, <3>2
  <2>5. \A s \in show' : s.update = last /\ s.stage = "answered" =>
                           s.pvs = pvs[s.group[2]]
    BY <1>10, <2>1, NewShowsCounted DEF IndInv, WarmInv
  <2>6. \A g \in Groups : group'[g].by = last =>
                            group'[g].known /\ group'[g].info = pvs[g[2]]
    BY <1>8, <1>9, <2>1, <2>2 DEF IndInv, WarmInv
  <2>7. QED BY <2>3, <2>4, <2>5, <2>6
<1>17. ColdInv'
  <2> SUFFICES ASSUME last = 1
               PROVE  /\ update'[1].stage = "freed" => timer'
                      /\ \A s \in show' : table'[s.group[2]] = s.group[1]
                                            /\ group'[s.group].need_publish
                      /\ ~(update'[1].dropped > 0)
    BY <1>10 DEF ColdInv
  <2>1. u = 1 BY <1>3, Numbers
  <2>2. \A w \in Updates : Untouched(w)
    <3>1. \A w \in Updates : w # 1 => w > last BY Numbers
    <3>2. QED BY <1>4, <2>1, <3>1, FutureUntouched
  <2>3. show = {} BY <2>2 DEF Untouched, IndInv, Typed, IsShow
  <2>4. \A v \in VGs : table[v] = 0 BY <2>2 DEF Untouched, IndInv, Typed
  <2>5. update'[1] = d /\ d.dropped = 0
    BY <1>1, <1>4, <1>6, <2>1 DEF TakesList, Untouched
  <2>6. ~(update'[1].dropped > 0) BY <2>5
  <2>7. d.ignore_locks BY <1>1, <2>1 DEF TakesList, IndInv, UpdateInv
  <2>8. update'[1].stage = "freed" => timer'
    BY <1>10, <2>5, <2>7 DEF lvm_update_done
  <2>9. ASSUME NEW x \in NewShows(u)
        PROVE  table'[x.group[2]] = x.group[1] /\ group'[x.group].need_publish
    <3>1. x.group[2] \in VGs /\ x.group[2] \in names /\ x.group \in Groups
      BY <1>5, NewShowsCounted DEF IsShow
    <3>2. x.group[1] = u BY <2>4, <3>1, NewShowsCounted DEF ObjectOf
    <3>3. table'[x.group[2]] = u BY <1>7, <2>4, <3>1
    <3>4. x.group = <<u, x.group[2]>> BY <3>1, <3>2, Pairs
    <3>5. group[x.group].need_publish BY <1>4, <3>1, <3>4 DEF Untouched
    <3>6. x.group \notin Gone(u) BY <3>1 DEF Gone
    <3>7. QED BY <1>8, <3>1, <3>2, <3>3, <3>5, <3>6
  <2>10. QED BY <1>10, <2>3, <2>6, <2>8, <2>9
<1>18. QED
  BY <1>11, <1>12, <1>13, <1>14, <1>15, <1>16, <1>17 DEF IndInv

-----------------------------------------------------------------------------
\* update_with_variant, its parts by name: is the answer news for the group,
\* and does anything hold the group when the reference of s is dropped?  r is
\* the group's record by then.
IsNews(s) ==
  s.stage = "answered" /\ ~(group[s.group].known /\ group[s.group].info = s.pvs)

Holds(s, r) ==
  \/ table[s.group[2]] = s.group[1]
  \/ r.kept \/ r.pinned
  \/ \E t \in show \ {s} : t.group = s.group

\* What the group is after the answer s.
Answered(s, r) ==
  LET o == group[s.group]
  IN  /\ IsGroup(r)
      /\ ~r.need_publish
      /\ r.published <=> o.published \/ o.need_publish
      /\ r.by = IF s.stage = "answered" THEN s.update ELSE o.by
      /\ s.stage = "answered" => r.known /\ r.info = s.pvs
      /\ ~IsNews(s) => r.info = o.info /\ r.known = o.known /\ r.kept = o.kept

\* What the update is after the answer s.
Counted(s, d) ==
  LET o == update[s.update]
  IN  /\ IsUpdate(d)
      /\ d.ignore_locks = o.ignore_locks
      /\ d.task = o.task
      /\ IF IsNews(s)
         THEN /\ d.pending = o.pending - 1
              /\ d.dropped = o.dropped
              /\ d.stage = IF o.pending = 1 THEN "freed" ELSE o.stage
         ELSE /\ d.pending = o.pending
              /\ d.dropped = o.dropped + 1
              /\ d.stage = o.stage

Links(s, r) == IF IsNews(s) THEN update_all_blocks(r, s.group[2], block) ELSE block

TakesAnswer(s, r, d) ==
  /\ s.stage \in {"answered", "failed"}
  /\ Answered(s, r)
  /\ Counted(s, d)
  /\ show' = show \ {s}
  /\ group' = [publish(s.group) EXCEPT
                 ![s.group] = IF Holds(s, r) THEN r ELSE disposed(r)]
  /\ block' = IF Holds(s, r) THEN Links(s, r)
              ELSE unlink_blocks({object_path(r, s.group[2])}, Links(s, r))
  /\ update' = [update EXCEPT ![s.update] = d]
  /\ lvm_update_done(d)
  /\ UNCHANGED <<vgs, pvs, changes, uevents, last, table, listed_by>>

\* The group h after g was published: the same, but for the path.
SameButPath(q, o) ==
  /\ IsGroup(q)
  /\ q.need_publish = o.need_publish /\ q.known = o.known /\ q.info = o.info
  /\ q.kept = o.kept /\ q.pinned = o.pinned /\ q.by = o.by
  /\ q.published => o.published

\* Publishing a group takes its path from any other.
LEMMA PublishFields ==
  ASSUME IndInv, NEW g \in Groups, NEW h \in Groups, h # g
  PROVE  /\ SameButPath(publish(g)[h], group[h])
         /\ IF /\ group[g].need_publish
               /\ build_object_path[h[2]] = build_object_path[g[2]]
            THEN ~publish(g)[h].published
            ELSE publish(g)[h] = group[h]
<1>1. PICK o : o = group[h] OBVIOUS
<1>2. IsGroup(o) BY <1>1 DEF IndInv, Typed
<1>3. PICK q : q = [o EXCEPT !.published = FALSE] OBVIOUS
<1>4. SameButPath(q, o) /\ ~q.published BY <1>2, <1>3 DEF IsGroup, SameButPath
<1>5. SameButPath(o, o) BY <1>2 DEF SameButPath
<1>6. publish(g)[h] = IF /\ group[g].need_publish
                         /\ build_object_path[h[2]] = build_object_path[g[2]]
                      THEN q ELSE o
  BY <1>1, <1>3 DEF publish
<1>7. QED BY <1>1, <1>4, <1>5, <1>6

\* The update of a show counts it.
LEMMA ShowIsCounted ==
  ASSUME IndInv, NEW s \in show
  PROVE  /\ IsShow(s)
         /\ s.update \in Updates
         /\ s.group \in Groups
         /\ s.group[1] \in Updates
         /\ s.group[2] \in VGs
         /\ s.group[1] # 0
         /\ IsGroup(group[s.group])
         /\ IsUpdate(update[s.update])
         /\ update[s.update].stage = "showing"
         /\ update[s.update].pending > 0
<1>1. /\ IsShow(s) /\ s.update \in Updates /\ s.group \in Groups
      /\ s.group[1] \in Updates /\ s.group[2] \in VGs /\ s.group[1] # 0
  BY Pairs, Numbers DEF IndInv, Typed, IsShow
<1>2. IsGroup(group[s.group]) /\ IsUpdate(update[s.update])
  BY <1>1 DEF IndInv, Typed
<1>3. ~Untouched(s.update) /\ ShowsOf(s.update) # {} BY DEF Untouched, ShowsOf
<1>4. update[s.update].stage = "showing"
  BY <1>1, <1>3 DEF IndInv, UpdateInv, Taken
<1>5. update[s.update].pending > 0 BY <1>1, <1>4 DEF IndInv, UpdateInv
<1>6. QED BY <1>1, <1>2, <1>4, <1>5

\* An answer is taken.
LEMMA AnswerEffect ==
  ASSUME IndInv, NEW s \in show, NEW lvs \in BOOLEAN, update_with_variant(s, lvs)
  PROVE  \E r, d : TakesAnswer(s, r, d)
<1> DEFINE g       == s.group
           v       == g[2]
           u       == s.update
           ok      == s.stage = "answered"
           public  == [group[g] EXCEPT
                        !.need_publish = FALSE,
                        !.published = group[g].published \/ group[g].need_publish,
                        !.by = IF ok THEN u ELSE group[g].by]
           changed == ok /\ ~(public.known /\ public.info = s.pvs)
           filled  == IF changed
                      THEN [public EXCEPT !.known = TRUE, !.info = s.pvs,
                                          !.kept = public.kept \/ lvs]
                      ELSE public
           links   == IF changed THEN update_all_blocks(filled, v, block) ELSE block
           held    == \/ table[v] = g[1]
                      \/ filled.kept \/ filled.pinned
                      \/ \E t \in show \ {s} : t.group = g
           d       == IF changed THEN lvm_vg_update_done(update[u])
                      ELSE [update[u] EXCEPT !.dropped = update[u].dropped + 1]
<1>1. /\ s.stage \in {"answered", "failed"}
      /\ show' = show \ {s}
      /\ group' = [publish(g) EXCEPT ![g] = IF held THEN filled
                                                    ELSE disposed(filled)]
      /\ block' = IF held THEN links
                  ELSE unlink_blocks({object_path(filled, v)}, links)
      /\ update' = [update EXCEPT ![u] = d]
      /\ lvm_update_done(d)
      /\ UNCHANGED <<vgs, pvs, changes, uevents, last, table, listed_by>>
  BY DEF update_with_variant, path_when_unlinked, lvm
<1>2. /\ IsShow(s) /\ IsGroup(group[g]) /\ IsUpdate(update[u])
      /\ update[u].pending > 0
  BY ShowIsCounted
<1>3. /\ IsGroup(public) /\ public.need_publish = FALSE
      /\ public.published = (group[g].published \/ group[g].need_publish)
      /\ public.by = IF ok THEN u ELSE group[g].by
      /\ public.known = group[g].known /\ public.info = group[g].info
      /\ public.kept = group[g].kept
  <2> DEFINE p == group[g].published \/ group[g].need_publish
             b == IF ok THEN u ELSE group[g].by
  <2>1. p \in BOOLEAN /\ b \in Updates \cup {0} BY <1>2 DEF IsShow, IsGroup
  <2>2. public = [group[g] EXCEPT !.need_publish = FALSE, !.published = p, !.by = b]
    OBVIOUS
  <2> HIDE DEF p, b, public
  <2>3. /\ IsGroup(public) /\ public.need_publish = FALSE /\ public.published = p
        /\ public.by = b /\ public.known = group[g].known
        /\ public.info = group[g].info /\ public.kept = group[g].kept
    BY <1>2, <2>1, <2>2 DEF IsGroup
  <2>4. QED BY <2>3 DEF p, b
<1> HIDE DEF public
<1>4. changed <=> IsNews(s) BY <1>3 DEF IsNews
<1>5. Answered(s, filled)
  <2>1. CASE changed
    <3> DEFINE k == public.kept \/ lvs
    <3>1. filled = [public EXCEPT !.known = TRUE, !.info = s.pvs, !.kept = k]
      BY <2>1
    <3>2. k \in BOOLEAN /\ s.pvs \subseteq Blocks BY <1>2, <1>3 DEF IsShow, IsGroup
    <3> HIDE DEF filled, k
    <3>3. /\ IsGroup(filled) /\ filled.need_publish = FALSE
          /\ filled.published = public.published /\ filled.by = public.by
          /\ filled.known /\ filled.info = s.pvs
      BY <1>3, <3>1, <3>2 DEF IsGroup
    <3>4. QED BY <1>3, <1>4, <2>1, <3>3 DEF Answered
  <2>2. CASE ~changed
    <3>1. filled = public BY <2>2
    <3>2. ok => public.known /\ public.info = s.pvs BY <2>2
    <3>3. QED BY <1>3, <1>4, <2>2, <3>1, <3>2 DEF Answered
  <2>3. QED BY <2>1, <2>2
<1> HIDE DEF filled
<1>6. Counted(s, d)
  <2>1. CASE changed
    <3> DEFINE n == update[u].pending - 1
               st == IF update[u].pending = 1 THEN "freed" ELSE update[u].stage
    <3>1. d = [update[u] EXCEPT !.pending = n, !.stage = st]
      BY <2>1 DEF lvm_vg_update_done
    <3>2. n \in Nat /\ st \in {"freed", update[u].stage} BY <1>2 DEF IsUpdate
    <3> HIDE DEF d, n, st
    <3>3. /\ IsUpdate(d) /\ d.pending = n /\ d.stage = st
          /\ d.dropped = update[u].dropped
          /\ d.ignore_locks = update[u].ignore_locks
          /\ d.task = update[u].task
      BY <1>2, <3>1, <3>2 DEF IsUpdate
    <3>4. QED BY <1>4, <2>1, <3>3 DEF Counted, n, st
  <2>2. CASE ~changed
    <3> DEFINE n == update[u].dropped + 1
    <3>1. d = [update[u] EXCEPT !.dropped = n] BY <2>2
    <3>2. n \in Nat BY <1>2 DEF IsUpdate
    <3> HIDE DEF d, n
    <3>3. /\ IsUpdate(d) /\ d.pending = update[u].pending /\ d.dropped = n
          /\ d.stage = update[u].stage
          /\ d.ignore_locks = update[u].ignore_locks
          /\ d.task = update[u].task
      BY <1>2, <3>1, <3>2 DEF IsUpdate
    <3>4. QED BY <1>4, <2>2, <3>3 DEF Counted, n
  <2>3. QED BY <2>1, <2>2
<1>7. links = Links(s, filled) BY <1>4 DEF Links
<1>8. held <=> Holds(s, filled) BY DEF Holds
<1> HIDE DEF d, links, held, changed
<1>9. TakesAnswer(s, filled, d)
  BY <1>1, <1>5, <1>6, <1>7, <1>8 DEF TakesAnswer
<1>10. QED BY <1>9

\* An answer is taken: the group is published and filled, the devices are
\* linked, the update counts down, and an unreferenced group goes away.
LEMMA AnswerKeepsIndInv ==
  ASSUME IndInv, NEW s \in show, NEW lvs \in BOOLEAN, update_with_variant(s, lvs)
  PROVE  IndInv'
<1> DEFINE g == s.group
           v == g[2]
           u == s.update
<1>1. PICK r, d : TakesAnswer(s, r, d) BY AnswerEffect
<1>2. /\ IsShow(s) /\ u \in Updates /\ g \in Groups /\ g[1] \in Updates
      /\ v \in VGs /\ g[1] # 0 /\ g = <<g[1], v>>
      /\ update[u].stage = "showing" /\ update[u].pending > 0
  BY ShowIsCounted, Pairs
<1>3. Answered(s, r) /\ Counted(s, d) BY <1>1 DEF TakesAnswer
<1>4. /\ show' = show \ {s} /\ lvm_update_done(d)
      /\ UNCHANGED <<vgs, pvs, changes, uevents, last, table, listed_by>>
  BY <1>1 DEF TakesAnswer
<1>5. \A w \in Updates : update'[w] = IF w = u THEN d ELSE update[w]
  BY <1>1, <1>2 DEF TakesAnswer, IndInv, Typed
<1>21. /\ group' = [h \in Groups |-> group'[h]]
       /\ \A h \in Groups : h # g => group'[h] = publish(g)[h]
       /\ group'[g] = IF Holds(s, r) THEN r ELSE disposed(r)
  <2>1. publish(g) = [h \in Groups |-> publish(g)[h]] BY DEF publish
  <2>2. PICK q : q = IF Holds(s, r) THEN r ELSE disposed(r) OBVIOUS
  <2>3. PICK pub : pub = publish(g) OBVIOUS
  <2>4. group' = [pub EXCEPT ![g] = q] BY <1>1, <2>2, <2>3 DEF TakesAnswer
  <2>5. QED BY <1>2, <2>1, <2>2, <2>3, <2>4
<1>6. \A h \in Groups : h # g => SameButPath(group'[h], group[h])
  BY <1>2, <1>21, PublishFields
<1>22. \A h \in Groups :
        h # g => IF /\ group[g].need_publish
                    /\ build_object_path[h[2]] = build_object_path[v]
                 THEN ~group'[h].published
                 ELSE group'[h] = group[h]
  BY <1>2, <1>21, PublishFields
<1>7. group'[g] = IF Holds(s, r) THEN r ELSE disposed(r) BY <1>21
<1>8. /\ r.published => table[v] = g[1]
      /\ table[v] = g[1] => r.published \/ Shared(v)
  <2>1. group[g].need_publish => table[v] = g[1] BY DEF IndInv, ShowInv
  <2>2. /\ group[g].published => table[v] = g[1]
        /\ table[v] = g[1] =>
             group[g].need_publish \/ group[g].published \/ Shared(v)
    BY <1>2 DEF IndInv, GroupInv
  <2>3. QED BY <1>3, <2>1, <2>2 DEF Answered
<1>9. table[v] = g[1] => Holds(s, r) BY DEF Holds
<1>10. /\ IsGroup(group'[g]) /\ ~group'[g].need_publish
       /\ group'[g].published => table[v] = g[1] /\ r.published
       /\ table[v] = g[1] => group'[g].published \/ Shared(v)
       /\ group'[g].by \in {r.by, 0}
       /\ ~Holds(s, r) => group'[g].by = 0
       /\ Holds(s, r) => group'[g] = r
  <2>1. CASE Holds(s, r) BY <1>3, <1>7, <1>8, <2>1 DEF Answered
  <2>2. CASE ~Holds(s, r)
    <3>1. IsGroup(r) BY <1>3 DEF Answered
    <3>2. /\ IsGroup(group'[g]) /\ ~group'[g].need_publish
          /\ ~group'[g].published /\ group'[g].by = 0
      BY <1>7, <2>2, <3>1, DisposedFields
    <3>3. QED BY <1>9, <2>2, <3>2
  <2>3. QED BY <2>1, <2>2
<1>11. IsFiniteSet(show) /\ IsFiniteSet(show')
  BY <1>4, FS_RemoveElement DEF IndInv, Typed
<1>12. Typed'
  <2>1. update' = [w \in Updates |-> update'[w]]
    BY <1>1 DEF TakesAnswer, IndInv, Typed
  <2>2. \A w \in Updates : IsUpdate(update'[w])
    BY <1>3, <1>5 DEF Counted, IndInv, Typed
  <2>3. \A x \in show' : IsShow(x) BY <1>4 DEF IndInv, Typed
  <2>4. group' = [h \in Groups |-> group'[h]] BY <1>21
  <2>5. \A h \in Groups : IsGroup(group'[h]) BY <1>6, <1>10 DEF SameButPath
  <2>6. block' \in [Blocks -> BlockState]
    <3>1. block \in [Blocks -> BlockState] BY DEF IndInv, Typed
    <3>2. object_path(r, v) \in BlockState
      BY <1>2, PathOfName DEF object_path, BlockState
    <3>5. Links(s, r) \in [Blocks -> BlockState]
      BY <1>2, <3>1, <3>2 DEF Links, update_all_blocks, BlockState
    <3>3. unlink_blocks({object_path(r, v)}, Links(s, r)) \in [Blocks -> BlockState]
      BY <3>5 DEF unlink_blocks, BlockState
    <3>4. QED BY <1>1, <3>3, <3>5 DEF TakesAnswer
  <2>7. timer' \in BOOLEAN /\ ready' \in BOOLEAN BY <1>4 DEF lvm_update_done
  <2>8. QED
    BY <1>4, <1>11, <2>1, <2>2, <2>3, <2>4, <2>5, <2>6, <2>7 DEF IndInv, Typed
<1>13. UpdateInv'
  <2> SUFFICES ASSUME NEW w \in Updates
               PROVE  /\ w > last' => update'[w].stage = "unused"
                      /\ update'[w].ignore_locks <=> w = 1
                      /\ ~Taken(update'[w]) => Untouched(w)'
                      /\ update'[w].stage = "freed" => ShowsOf(w)' = {}
                      /\ update'[w].stage = "showing" =>
                           /\ update'[w].pending
                                = Cardinality(ShowsOf(w)') + update'[w].dropped
                           /\ update'[w].pending > 0
    BY DEF UpdateInv
  <2>1. CASE w = u
    <3> DEFINE o == update[u]
               n == Cardinality(ShowsOf(u))
    <3>1. s \in ShowsOf(u) /\ ShowsOf(u)' = ShowsOf(u) \ {s}
      BY <1>4 DEF ShowsOf
    <3>2. IsFiniteSet(ShowsOf(u)) /\ n \in Nat BY <1>11, ShowsFinite
    <3>3. n # 0 BY <3>1, <3>2, FS_EmptySet
    <3>4. IsFiniteSet(ShowsOf(u)') /\ Cardinality(ShowsOf(u)') = n - 1
      BY <3>1, <3>2, FS_RemoveElement
    <3>5. o.pending = n + o.dropped /\ o.pending \in Nat /\ o.dropped \in Nat
      BY <1>2 DEF IndInv, UpdateInv, Typed, IsUpdate
    <3>6. ~(u > last) /\ (o.ignore_locks <=> u = 1)
      BY <1>2 DEF IndInv, UpdateInv
    <3>7. d.stage \in {"freed", "showing"} /\ (d.ignore_locks <=> u = 1)
      BY <1>2, <1>3, <3>6 DEF Counted
    <3> HIDE DEF n
    <3>8. d.stage = "freed" => ShowsOf(u)' = {}
      <4>1. SUFFICES ASSUME d.stage = "freed" PROVE n - 1 = 0
        BY <3>4, FS_EmptySet
      <4>2. o.pending = 1 BY <1>2, <1>3, <4>1 DEF Counted
      <4>3. QED BY <3>2, <3>3, <3>5, <4>2
    <3>9. ASSUME d.stage = "showing"
          PROVE  d.pending = (n - 1) + d.dropped /\ d.pending > 0
      <4>1. CASE IsNews(s)
        <5>1. /\ d.pending = o.pending - 1 /\ d.dropped = o.dropped
              /\ o.pending # 1
          BY <1>3, <3>9, <4>1 DEF Counted
        <5>2. QED BY <1>2, <3>2, <3>3, <3>5, <5>1
      <4>2. CASE ~IsNews(s)
        <5>1. d.pending = o.pending /\ d.dropped = o.dropped + 1
          BY <1>3, <4>2 DEF Counted
        <5>2. QED BY <1>2, <3>2, <3>3, <3>5, <5>1
      <4>3. QED BY <4>1, <4>2
    <3>10. update'[w] = d /\ last' = last BY <1>4, <1>5, <2>1
    <3>11. Taken(d) BY <3>7 DEF Taken
    <3>12. QED BY <2>1, <3>4, <3>6, <3>7, <3>8, <3>9, <3>10, <3>11
  <2>2. CASE w # u
    <3>1. ShowsOf(w)' = ShowsOf(w) BY <1>4, <2>2 DEF ShowsOf
    <3>2. update'[w] = update[w] BY <1>5, <2>2
    <3>3. ASSUME Untouched(w) PROVE Untouched(w)'
      <4>1. g[1] # w BY <3>3 DEF Untouched
      <4>2. ASSUME NEW x \in VGs
            PROVE  /\ group'[<<w, x>>].need_publish
                   /\ ~group'[<<w, x>>].kept /\ ~group'[<<w, x>>].pinned
        <5>1. <<w, x>> \in Groups /\ <<w, x>> # g BY <1>2, <4>1, Pairs
        <5>2. QED BY <1>6, <3>3, <5>1 DEF Untouched, SameButPath
      <4>3. group[g].by # w BY <1>2, <3>3 DEF Untouched
      <4>4. group'[g].by # w
        BY <1>3, <1>10, <2>2, <4>3, Numbers DEF Answered
      <4>5. \A h \in Groups : group'[h].by # w BY <1>6, <3>3, <4>4 DEF Untouched, SameButPath
      <4>6. QED BY <1>4, <3>2, <3>3, <4>2, <4>5 DEF Untouched
    <3>4. QED BY <1>4, <3>1, <3>2, <3>3 DEF IndInv, UpdateInv
  <2>3. QED BY <2>1, <2>2
<1>14. GroupInv'
  <2>1. ASSUME NEW h \in Groups
        PROVE  /\ group'[h].published => table[h[2]] = h[1]
               /\ table[h[2]] = h[1] =>
                    group'[h].need_publish \/ group'[h].published \/ Shared(h[2])
               /\ group'[h].need_publish =>
                    ~group'[h].published /\ ~group'[h].known
                      /\ group'[h].info = {} /\ group'[h].by = 0
    <3>1. CASE h = g BY <1>10, <3>1
    <3>2. CASE h # g
      <4>1. SameButPath(group'[h], group[h]) BY <1>6, <3>2
      <4>2. /\ group'[h].published => table[h[2]] = h[1]
            /\ group'[h].need_publish =>
                 ~group'[h].published /\ ~group'[h].known
                   /\ group'[h].info = {} /\ group'[h].by = 0
        BY <4>1 DEF SameButPath, IndInv, GroupInv
      <4>3. ASSUME table[h[2]] = h[1]
            PROVE  group'[h].need_publish \/ group'[h].published \/ Shared(h[2])
        <5>1. CASE group'[h] = group[h] BY <4>3, <5>1 DEF IndInv, GroupInv
        <5>2. CASE group'[h] # group[h]
          <6>1. group[g].need_publish /\ build_object_path[h[2]] = build_object_path[v]
            BY <1>22, <3>2, <5>2
          <6>2. table[v] = g[1] BY <6>1 DEF IndInv, ShowInv
          <6>3. h[2] # v BY <1>2, <3>2, <4>3, <6>2, Pairs
          <6>4. Shared(h[2]) BY <1>2, <6>1, <6>3 DEF Shared
          <6>5. QED BY <6>4
        <5>3. QED BY <5>1, <5>2
      <4>4. QED BY <4>2, <4>3
    <3>3. QED BY <3>1, <3>2
  <2>2. ASSUME NEW h \in Groups, h # g, group'[g].published, group'[h].published
        PROVE  build_object_path[h[2]] # build_object_path[v]
    <3>1. group[h].published BY <1>6, <2>2 DEF SameButPath
    <3>2. group[g].published \/ group[g].need_publish
      BY <1>3, <1>10, <2>2 DEF Answered
    <3>3. CASE group[g].published BY <1>2, <2>2, <3>1, <3>3 DEF IndInv, GroupInv
    <3>4. CASE group[g].need_publish BY <1>22, <2>2, <3>4
    <3>5. QED BY <3>2, <3>3, <3>4
  <2>3. ASSUME NEW h \in Groups, NEW k \in Groups,
               group'[h].published, group'[k].published,
               build_object_path[h[2]] = build_object_path[k[2]]
        PROVE  h = k
    <3>1. CASE h # g /\ k # g
      <4>1. group[h].published /\ group[k].published
        BY <1>6, <2>3, <3>1 DEF SameButPath
      <4>2. QED BY <2>3, <4>1 DEF IndInv, GroupInv
    <3>2. CASE h = g /\ k # g BY <2>2, <2>3, <3>2
    <3>3. CASE h # g /\ k = g BY <2>2, <2>3, <3>3
    <3>4. QED BY <3>1, <3>2, <3>3
  <2>4. QED BY <1>4, <2>1, <2>3 DEF GroupInv
<1>15. ShowInv'
  <2>1. ASSUME NEW x \in show'
        PROVE  \/ table'[x.group[2]] = x.group[1] \/ ~group'[x.group].need_publish
    <3>1. x \in show /\ x.group \in Groups BY <1>4, ShowIsCounted
    <3>2. QED BY <1>4, <1>6, <1>10, <3>1 DEF IndInv, ShowInv, SameButPath
  <2>2. \A x, y \in show' :
          x.update = y.update /\ x.group[2] = y.group[2] => x = y
    BY <1>4 DEF IndInv, ShowInv
  <2>3. QED BY <2>1, <2>2 DEF ShowInv
<1>16. WarmInv'
  <2> SUFFICES ASSUME last > 1, Settled'
               PROVE  /\ update'[last].stage = "listed" => update'[last].names = vgs
                      /\ listed_by = last => \A x \in VGs : table[x] # 0 <=> x \in vgs
                      /\ \A x \in show' : x.update = last /\ x.stage = "answered" =>
                                            x.pvs = pvs[x.group[2]]
                      /\ \A h \in Groups :
                           group'[h].by = last =>
                             group'[h].known /\ group'[h].info = pvs[h[2]]
    BY <1>4 DEF WarmInv
  <2>1. Settled BY <1>4 DEF Settled, lvm_update_done
  <2>2. last \in Updates /\ last # 0 BY Numbers DEF IndInv, Typed
  <2>3. update'[last].stage = "listed" => update'[last].names = vgs
    <3>1. d.stage # "listed" BY <1>2, <1>3 DEF Counted
    <3>2. QED BY <1>5, <2>1, <2>2, <3>1 DEF IndInv, WarmInv
  <2>4. ASSUME group'[g].by = last
        PROVE  group'[g].known /\ group'[g].info = pvs[v]
    <3>1. group'[g] = r /\ r.by = last BY <1>10, <2>2, <2>4
    <3>2. CASE s.stage = "answered"
      <4>1. u = last /\ r.known /\ r.info = s.pvs
        BY <1>3, <3>1, <3>2 DEF Answered
      <4>2. s.pvs = pvs[v] BY <2>1, <3>2, <4>1 DEF IndInv, WarmInv
      <4>3. QED BY <3>1, <4>1, <4>2
    <3>3. CASE s.stage # "answered"
      <4>1. /\ r.info = group[g].info /\ r.known = group[g].known
            /\ group[g].by = last
        BY <1>3, <3>1, <3>3 DEF Answered, IsNews
      <4>2. group[g].known /\ group[g].info = pvs[v]
        BY <1>2, <2>1, <4>1 DEF IndInv, WarmInv
      <4>3. QED BY <3>1, <4>1, <4>2
    <3>4. QED BY <3>2, <3>3
  <2>5. \A h \in Groups : group'[h].by = last =>
                            group'[h].known /\ group'[h].info = pvs[h[2]]
    BY <1>6, <2>1, <2>4 DEF IndInv, WarmInv, SameButPath
  <2>6. QED BY <1>4, <2>1, <2>3, <2>5 DEF IndInv, WarmInv
<1>17. ColdInv'
  <2> SUFFICES ASSUME last = 1
               PROVE  /\ update'[1].stage = "freed" => timer'
                      /\ \A x \in show' : table[x.group[2]] = x.group[1]
                                            /\ group'[x.group].need_publish
                      /\ update'[1].dropped > 0 =>
                           \E w \in VGs : /\ table[w] # 0
                                          /\ group'[<<table[w], w>>].by = 0
                                          /\ \A x \in show' : x.group[2] # w
    BY <1>4 DEF ColdInv
  <2>1. \A x \in show : x.update = 1
    <3>1. \A w \in Updates : w # 1 => w > last BY Numbers
    <3>2. QED BY <3>1, FutureUntouched, ShowIsCounted DEF Untouched
  <2>2. u = 1 /\ update'[1] = d BY <1>5, <2>1, Numbers
  <2>3. \A x \in show' : x \in show /\ x.group[2] # v
    BY <1>4, <2>1 DEF IndInv, ShowInv
  <2>4. d.ignore_locks BY <1>2, <1>3, <2>2 DEF Counted, IndInv, UpdateInv
  <2>5. d.stage = "freed" => timer' BY <1>4, <2>4 DEF lvm_update_done
  <2>6. ASSUME NEW x \in show'
        PROVE  table[x.group[2]] = x.group[1] /\ group'[x.group].need_publish
    <3>1. x \in show /\ x.group # g /\ x.group \in Groups BY <2>3, ShowIsCounted
    <3>2. QED BY <1>6, <3>1 DEF IndInv, ColdInv, SameButPath
  <2>7. ASSUME d.dropped > 0
        PROVE  \E w \in VGs : /\ table[w] # 0
                              /\ group'[<<table[w], w>>].by = 0
                              /\ \A x \in show' : x.group[2] # w
    <3>1. CASE IsNews(s)
      <4>1. update[1].dropped > 0 BY <1>3, <2>2, <2>7, <3>1 DEF Counted
      <4>2. PICK w \in VGs : /\ table[w] # 0 /\ group[<<table[w], w>>].by = 0
                             /\ \A x \in show : x.group[2] # w
        BY <4>1 DEF IndInv, ColdInv
      <4>3. w # v BY <4>2
      <4>4. <<table[w], w>> \in Groups BY <4>2, Pairs DEF IndInv, Typed
      <4>5. <<table[w], w>> # g BY <1>2, <4>3
      <4>6. group'[<<table[w], w>>].by = group[<<table[w], w>>].by
        BY <1>6, <4>4, <4>5 DEF SameButPath
      <4>7. QED BY <2>3, <4>2, <4>6
    <3>2. CASE ~IsNews(s)
      <4>1. table[v] = g[1] /\ group[g].need_publish BY DEF IndInv, ColdInv
      <4>2. ~group[g].known /\ group[g].by = 0
        BY <1>2, <4>1 DEF IndInv, GroupInv
      <4>3. s.stage # "answered" BY <3>2, <4>2 DEF IsNews
      <4>4. r.by = 0 BY <1>3, <4>2, <4>3 DEF Answered
      <4>5. group'[g].by = 0 BY <1>10, <4>4
      <4>6. <<table[v], v>> = g /\ table[v] # 0 BY <1>2, <4>1
      <4>7. QED BY <1>2, <2>3, <4>5, <4>6
    <3>3. QED BY <3>1, <3>2
  <2>8. QED BY <2>2, <2>5, <2>6, <2>7
<1>18. LinkInv'
  <2> DEFINE links == Links(s, r)
             path  == build_object_path[v]
  <2> SUFFICES ASSUME NEW b \in Blocks
               PROVE  /\ block'[b] \in Paths =>
                           \E w \in VGs : Named(group', table, b, block'[b], w)
                      /\ block'[b] = "null" =>
                           \E h \in Groups : Nameless(group', table, show', b, h)
    BY <1>4 DEF LinkInv, Linked
  <2>1. path \in Paths /\ path \notin {"absent", "none", "null"}
    BY <1>2, PathOfName
  <2>2. "null" \notin Paths /\ "absent" \notin Paths /\ "none" \notin Paths
    BY PathsAreNoStates
  <2>3. ASSUME NEW w \in VGs, Named(group, table, b, block[b], w),
               <<table[w], w>> # g,
               ~(group[g].need_publish /\ build_object_path[w] = path)
        PROVE  Named(group', table, b, block[b], w)
    <3>1. table[w] # 0 BY <2>3 DEF Named
    <3>2. <<table[w], w>> \in Groups /\ <<table[w], w>>[2] = w
      BY <3>1, Pairs DEF IndInv, Typed
    <3>3. group'[<<table[w], w>>] = group[<<table[w], w>>] BY <1>22, <2>3, <3>2
    <3>4. QED BY <2>3, <3>3 DEF Named
  <2>4. ASSUME NEW h \in Groups, h # g, Nameless(group, table, show, b, h)
        PROVE  Nameless(group', table, show', b, h)
    <3>1. SameButPath(group'[h], group[h]) BY <1>6, <2>4
    <3>2. (\E x \in show : x.group = h) => \E x \in show' : x.group = h
      BY <1>4, <2>4
    <3>3. QED BY <2>4, <3>1, <3>2 DEF Nameless, SameButPath
  <2>5. ~IsNews(s) => r.info = group[g].info /\ r.known = group[g].known
    BY <1>3 DEF Answered
  <2>6. CASE r.published
    \* The group has its path, and nothing is disposed of.
    <3>1. /\ table[v] = g[1] /\ group'[g] = r /\ block'[b] = links[b]
          /\ object_path(r, v) = path
      BY <1>1, <1>8, <1>9, <1>10, <2>6 DEF TakesAnswer, object_path
    <3>2. links[b] = IF IsNews(s)
                     THEN IF block[b] = "absent" THEN "absent"
                          ELSE IF b \in r.info THEN path
                          ELSE IF block[b] = path THEN "none"
                          ELSE block[b]
                     ELSE block[b]
      BY <3>1 DEF Links, update_all_blocks
    <3>3. <<table[v], v>> = g /\ table[v] # 0 BY <1>2, <3>1
    <3>4. ASSUME block'[b] \in Paths
          PROVE  \E w \in VGs : Named(group', table, b, block'[b], w)
      <4>1. CASE block'[b] = path /\ b \in r.info
        <5>1. Named(group', table, b, path, v)
          BY <2>6, <3>1, <3>3, <4>1 DEF Named
        <5>2. QED BY <1>2, <4>1, <5>1
      <4>2. CASE ~(block'[b] = path /\ b \in r.info)
        <5>1. block'[b] = block[b] /\ (IsNews(s) => block[b] # path)
          BY <2>2, <3>1, <3>2, <3>4, <4>2
        <5>2. PICK w \in VGs : Named(group, table, b, block[b], w)
          BY <3>4, <5>1 DEF IndInv, LinkInv, Linked
        <5>3. build_object_path[w] = block[b] BY <5>2 DEF Named
        <5>4. CASE w = v
          \* Only a failed answer leaves a link that g's news would clear.
          <6>1. ~IsNews(s) BY <5>1, <5>3, <5>4
          <6>2. Named(group', table, b, block[b], v)
            BY <2>5, <2>6, <3>1, <3>3, <5>2, <5>4, <6>1 DEF Named
          <6>3. QED BY <1>2, <5>1, <6>2
        <5>5. CASE w # v /\ group[g].need_publish /\ build_object_path[w] = path
          \* g took the path over, and has no good answer.
          <6>1. ~IsNews(s) /\ block[b] = path BY <5>1, <5>3, <5>5
          <6>2. ~r.known BY <1>2, <2>5, <5>5, <6>1 DEF IndInv, GroupInv
          <6>3. Shared(v) BY <5>5 DEF Shared
          <6>4. Named(group', table, b, path, v)
            BY <2>6, <3>1, <3>3, <6>2, <6>3 DEF Named
          <6>5. QED BY <1>2, <5>1, <6>1, <6>4
        <5>6. CASE w # v /\ ~(group[g].need_publish /\ build_object_path[w] = path)
          <6>1. <<table[w], w>> # g BY <1>2, <5>6
          <6>2. QED BY <2>3, <5>1, <5>2, <5>6, <6>1
        <5>7. QED BY <5>4, <5>5, <5>6
      <4>3. QED BY <4>1, <4>2
    <3>5. ASSUME block'[b] = "null"
          PROVE  \E h \in Groups : Nameless(group', table, show', b, h)
      <4>1. block[b] = "null" BY <2>1, <3>1, <3>2, <3>5
      <4>2. PICK h \in Groups : Nameless(group, table, show, b, h)
        BY <4>1 DEF IndInv, LinkInv, Linked
      <4>3. h # g
        <5>1. group[g].published \/ group[g].need_publish
          BY <1>3, <2>6 DEF Answered
        <5>2. group[g].published \/ group[g].info = {}
          BY <1>2, <5>1 DEF IndInv, GroupInv
        <5>3. QED BY <4>2, <5>2 DEF Nameless
      <4>4. QED BY <2>4, <4>2, <4>3
    <3>6. QED BY <3>4, <3>5
  <2>7. CASE ~r.published
    \* The group was removed or its path taken over.
    <3>1. object_path(r, v) = "null" BY <2>7 DEF object_path
    <3>2. ~group[g].published /\ ~group[g].need_publish
      BY <1>3, <2>7 DEF Answered
    <3>3. links[b] = IF IsNews(s)
                     THEN IF block[b] = "absent" THEN "absent"
                          ELSE IF b \in r.info THEN "null"
                          ELSE IF block[b] = "null" THEN "none"
                          ELSE block[b]
                     ELSE block[b]
      BY <3>1 DEF Links, update_all_blocks
    <3>4. block'[b] = IF Holds(s, r) \/ links[b] # "null" THEN links[b]
                                                          ELSE "none"
      BY <1>1, <3>1 DEF TakesAnswer, unlink_blocks
    <3>5. ASSUME block'[b] \in Paths
          PROVE  \E w \in VGs : Named(group', table, b, block'[b], w)
      <4>1. block'[b] = block[b] BY <2>2, <3>3, <3>4, <3>5
      <4>2. PICK w \in VGs : Named(group, table, b, block[b], w)
        BY <3>5, <4>1 DEF IndInv, LinkInv, Linked
      <4>3. <<table[w], w>> # g BY <3>2, <4>2 DEF Named
      <4>4. QED BY <2>3, <3>2, <4>1, <4>2, <4>3
    <3>6. ASSUME block'[b] = "null"
          PROVE  \E h \in Groups : Nameless(group', table, show', b, h)
      <4>1. Holds(s, r) /\ links[b] = "null" BY <3>4, <3>6
      <4>2. group'[g] = r BY <1>10, <4>1
      <4>3. CASE b \in r.info
        <5>1. table[v] # g[1] => r.kept \/ r.pinned \/ \E y \in show' : y.group = g
          BY <1>4, <4>1 DEF Holds
        <5>2. Nameless(group', table, show', b, g)
          BY <1>8, <2>7, <4>2, <4>3, <5>1 DEF Nameless
        <5>3. QED BY <1>2, <5>2
      <4>4. CASE b \notin r.info
        <5>1. ~IsNews(s) /\ block[b] = "null" BY <3>3, <4>1, <4>4
        <5>2. PICK h \in Groups : Nameless(group, table, show, b, h)
          BY <5>1 DEF IndInv, LinkInv, Linked
        <5>3. h # g BY <2>5, <4>4, <5>1, <5>2 DEF Nameless
        <5>4. QED BY <2>4, <5>2, <5>3
      <4>5. QED BY <4>3, <4>4
    <3>7. QED BY <3>5, <3>6
  <2>8. QED BY <2>6, <2>7
<1>19. QED
  BY <1>12, <1>13, <1>14, <1>15, <1>16, <1>17, <1>18 DEF IndInv

-----------------------------------------------------------------------------
\* One group changes, without a new path or answer: a reference is taken or
\* dropped (all but the reference stays) or the object is disposed of.
LEMMA ReferenceKeepsIndInv ==
  ASSUME IndInv, NEW g \in Groups, NEW q,
         group' = [group EXCEPT ![g] = q],
         IsGroup(q),
         \/ /\ SameButPath([q EXCEPT !.pinned = group[g].pinned], group[g])
            /\ q.published = group[g].published
            /\ group[g].pinned => \/ q.pinned \/ table[g[2]] = g[1] \/ q.kept
                                  \/ \E s \in show : s.group = g
            /\ q.pinned => table[g[2]] = g[1] \/ q.kept
            /\ block' = block
         \/ /\ group[g].pinned /\ table[g[2]] # g[1]
            /\ \A s \in show : s.group # g
            /\ ~q.need_publish /\ ~q.published /\ q.by = 0
            /\ block' = unlink_blocks({"null"}, block),
         UNCHANGED <<lvm, uevents, timer, last, update, show, table, ready,
                     listed_by>>
  PROVE  IndInv'
<1> USE DEF lvm
<1>1. /\ g[1] \in Updates /\ g[2] \in VGs /\ g = <<g[1], g[2]>>
      /\ IsGroup(group[g]) /\ g[1] # 0
  BY Pairs, Numbers DEF IndInv, Typed
<1>2. /\ group' = [h \in Groups |-> group'[h]] /\ group'[g] = q
      /\ \A h \in Groups : h # g => group'[h] = group[h]
  BY DEF IndInv, Typed
<1>3. CASE /\ SameButPath([q EXCEPT !.pinned = group[g].pinned], group[g])
           /\ q.published = group[g].published
           /\ group[g].pinned => \/ q.pinned \/ table[g[2]] = g[1] \/ q.kept
                                 \/ \E s \in show : s.group = g
           /\ q.pinned => table[g[2]] = g[1] \/ q.kept
           /\ block' = block
  <2>1. /\ q.need_publish = group[g].need_publish /\ q.known = group[g].known
        /\ q.info = group[g].info /\ q.kept = group[g].kept
        /\ q.by = group[g].by /\ q.published = group[g].published
    BY <1>3 DEF IsGroup, SameButPath
  <2>2. ASSUME NEW h \in Groups
        PROVE  /\ IsGroup(group'[h])
               /\ group'[h].need_publish = group[h].need_publish
               /\ group'[h].known = group[h].known
               /\ group'[h].info = group[h].info
               /\ group'[h].kept = group[h].kept
               /\ group'[h].by = group[h].by
               /\ group'[h].published = group[h].published
    <3>1. CASE h = g BY <1>2, <2>1, <3>1
    <3>2. CASE h # g BY <1>2, <3>2 DEF IndInv, Typed
    <3>3. QED BY <3>1, <3>2
  <2>3. Typed' BY <1>2, <1>3, <2>2 DEF IndInv, Typed
  <2>4. UpdateInv'
    <3>1. ASSUME NEW u \in Updates, Untouched(u) PROVE Untouched(u)'
      <4>1. ASSUME NEW v \in VGs
            PROVE  /\ group'[<<u, v>>].need_publish
                   /\ ~group'[<<u, v>>].kept /\ ~group'[<<u, v>>].pinned
        <5>1. <<u, v>> \in Groups BY Pairs
        <5>2. CASE <<u, v>> # g BY <1>2, <3>1, <5>1, <5>2 DEF Untouched
        <5>3. CASE <<u, v>> = g
          <6>1. table[v] # u /\ ~q.kept /\ q.need_publish
            BY <2>1, <3>1, <5>3 DEF Untouched
          <6>2. table[g[2]] # g[1] BY <5>3, <6>1
          <6>3. QED BY <1>2, <1>3, <5>3, <6>1, <6>2
        <5>4. QED BY <5>2, <5>3
      <4>2. QED BY <2>2, <3>1, <4>1 DEF Untouched
    <3>2. \A u \in Updates : ShowsOf(u)' = ShowsOf(u) BY DEF ShowsOf
    <3>3. QED BY <3>1, <3>2 DEF IndInv, UpdateInv
  <2>5. GroupInv' BY <2>2 DEF IndInv, GroupInv
  <2>6. ShowInv' BY <2>2 DEF IndInv, ShowInv, Typed, IsShow
  <2>7. LinkInv'
    <3>1. \A b, p : \A v \in VGs : Named(group, table, b, p, v) =>
                                     Named(group', table, b, p, v)
      <4> SUFFICES ASSUME NEW b, NEW p, NEW v \in VGs,
                          Named(group, table, b, p, v)
                   PROVE  Named(group', table, b, p, v)
        OBVIOUS
      <4>1. <<table[v], v>> \in Groups BY Pairs DEF Named, IndInv, Typed
      <4>2. QED BY <2>2, <4>1 DEF Named
    <3>2. \A b : \A h \in Groups : Nameless(group, table, show, b, h) =>
                                   Nameless(group', table, show, b, h)
      <4> SUFFICES ASSUME NEW b, NEW h \in Groups,
                          Nameless(group, table, show, b, h)
                   PROVE  Nameless(group', table, show, b, h)
        OBVIOUS
      <4>1. CASE h # g BY <1>2, <4>1 DEF Nameless
      <4>2. CASE h = g BY <1>2, <1>3, <2>1, <4>2 DEF Nameless
      <4>3. QED BY <4>1, <4>2
    <3>3. Linked(group', table, show, block)
      BY <3>1, <3>2 DEF IndInv, LinkInv, Linked
    <3>4. QED BY <1>3, <3>3 DEF LinkInv
  <2>8. WarmInv' BY <2>2 DEF IndInv, WarmInv, Settled
  <2>9. ColdInv'
    <3>1. \A v \in VGs : table[v] # 0 => <<table[v], v>> \in Groups
      BY Pairs DEF IndInv, Typed
    <3>2. \A s \in show : s.group \in Groups BY DEF IndInv, Typed, IsShow
    <3>3. QED BY <2>2, <3>1, <3>2 DEF IndInv, ColdInv
  <2>10. QED BY <2>3, <2>4, <2>5, <2>6, <2>7, <2>8, <2>9 DEF IndInv
<1>4. CASE /\ group[g].pinned /\ table[g[2]] # g[1]
           /\ \A s \in show : s.group # g
           /\ ~q.need_publish /\ ~q.published /\ q.by = 0
           /\ block' = unlink_blocks({"null"}, block)
  <2>1. Typed'
    <3>1. block' \in [Blocks -> BlockState]
      BY <1>4 DEF unlink_blocks, BlockState, IndInv, Typed
    <3>2. \A h \in Groups : IsGroup(group'[h]) BY <1>2 DEF IndInv, Typed
    <3>3. QED BY <1>2, <3>1, <3>2 DEF IndInv, Typed
  <2>2. UpdateInv'
    <3>1. ASSUME NEW u \in Updates, Untouched(u) PROVE Untouched(u)'
      <4>1. g[1] # u BY <1>1, <1>4, <3>1 DEF Untouched
      <4>2. ASSUME NEW v \in VGs
            PROVE  group'[<<u, v>>] = group[<<u, v>>]
        BY <1>1, <1>2, <4>1, Pairs
      <4>3. \A h \in Groups : group'[h].by # u
        BY <1>2, <1>4, <3>1, Numbers DEF Untouched
      <4>4. QED BY <3>1, <4>2, <4>3 DEF Untouched
    <3>2. \A u \in Updates : ShowsOf(u)' = ShowsOf(u) BY DEF ShowsOf
    <3>3. QED BY <3>1, <3>2 DEF IndInv, UpdateInv
  <2>3. GroupInv'
    <3>1. \A h \in Groups : group'[h].published => h # g /\ group[h].published
      BY <1>2, <1>4
    <3>2. ASSUME NEW h \in Groups
          PROVE  /\ group'[h].published => table[h[2]] = h[1]
                 /\ table[h[2]] = h[1] =>
                      group'[h].need_publish \/ group'[h].published \/ Shared(h[2])
                 /\ group'[h].need_publish =>
                      ~group'[h].published /\ ~group'[h].known
                        /\ group'[h].info = {} /\ group'[h].by = 0
      <4>1. CASE h = g BY <1>2, <1>4, <4>1
      <4>2. CASE h # g BY <1>2, <4>2 DEF IndInv, GroupInv
      <4>3. QED BY <4>1, <4>2
    <3>3. \A h, k \in Groups :
            group'[h].published /\ group'[k].published
              /\ build_object_path[h[2]] = build_object_path[k[2]] => h = k
      BY <3>1 DEF IndInv, GroupInv
    <3>4. QED BY <3>2, <3>3 DEF GroupInv
  <2>4. ShowInv' BY <1>2, <1>4 DEF IndInv, ShowInv, Typed, IsShow
  <2>5. LinkInv'
    <3> SUFFICES ASSUME NEW b \in Blocks
                 PROVE  /\ block'[b] \in Paths =>
                             \E v \in VGs : Named(group', table, b, block'[b], v)
                        /\ block'[b] # "null"
      BY DEF LinkInv, Linked
    <3>1. block'[b] = IF block[b] = "null" THEN "none" ELSE block[b]
      BY <1>4 DEF unlink_blocks
    <3>2. ASSUME block'[b] \in Paths
          PROVE  \E v \in VGs : Named(group', table, b, block'[b], v)
      <4>1. block'[b] = block[b] BY <3>1, <3>2, PathsAreNoStates
      <4>2. PICK v \in VGs : Named(group, table, b, block[b], v)
        BY <3>2, <4>1 DEF IndInv, LinkInv, Linked
      <4>3. table[v] # 0 BY <4>2 DEF Named
      <4>4. <<table[v], v>> \in Groups /\ <<table[v], v>> # g
        BY <1>1, <1>4, <4>3, Pairs DEF IndInv, Typed
      <4>5. Named(group', table, b, block[b], v) BY <1>2, <4>2, <4>4 DEF Named
      <4>6. QED BY <4>1, <4>5
    <3>3. QED BY <3>1, <3>2
  <2>6. WarmInv'
    <3>1. \A h \in Groups : group'[h].by = last => group'[h] = group[h]
      BY <1>2, <1>4, Numbers DEF IndInv, Typed
    <3>2. QED BY <3>1 DEF IndInv, WarmInv, Settled
  <2>7. ColdInv'
    <3>1. ASSUME NEW v \in VGs, table[v] # 0
          PROVE  group'[<<table[v], v>>] = group[<<table[v], v>>]
      <4>1. <<table[v], v>> \in Groups /\ <<table[v], v>> # g
        BY <1>1, <1>4, <3>1, Pairs DEF IndInv, Typed
      <4>2. QED BY <1>2, <4>1
    <3>2. \A s \in show : group'[s.group] = group[s.group]
      BY <1>2, <1>4 DEF IndInv, Typed, IsShow
    <3>3. QED BY <3>1, <3>2 DEF IndInv, ColdInv
  <2>8. QED BY <2>1, <2>2, <2>3, <2>4, <2>5, <2>6, <2>7 DEF IndInv
<1>5. QED BY <1>3, <1>4

\* A poll or a call takes its reference, or drops it.
LEMMA HoldersKeepIndInv ==
  ASSUME IndInv, NEW g \in Groups, hold(g) \/ release(g)
  PROVE  IndInv'
<1>1. PICK o : o = group[g] OBVIOUS
<1>2. IsGroup(o) BY <1>1 DEF IndInv, Typed
<1>3. ASSUME NEW x \in BOOLEAN, NEW q, q = [o EXCEPT !.pinned = x]
      PROVE  /\ IsGroup(q) /\ q.pinned = x /\ q.kept = o.kept
             /\ q.published = o.published
             /\ SameButPath([q EXCEPT !.pinned = o.pinned], o)
  BY <1>2, <1>3 DEF IsGroup, SameButPath
<1>4. CASE hold(g)
  <2>1. PICK q : q = [o EXCEPT !.pinned = TRUE] OBVIOUS
  <2>2. group' = [group EXCEPT ![g] = q] BY <1>1, <1>4, <2>1 DEF hold
  <2>3. /\ IsGroup(q) /\ q.pinned = TRUE /\ q.kept = o.kept
        /\ q.published = o.published
        /\ SameButPath([q EXCEPT !.pinned = o.pinned], o)
    BY <1>3, <2>1
  <2>4. QED BY <1>1, <1>4, <2>2, <2>3, ReferenceKeepsIndInv DEF hold
<1>5. CASE release(g)
  <2>1. PICK q : q = [o EXCEPT !.pinned = FALSE] OBVIOUS
  <2>2. /\ IsGroup(q) /\ q.pinned = FALSE /\ q.kept = o.kept
        /\ q.published = o.published
        /\ SameButPath([q EXCEPT !.pinned = o.pinned], o)
    BY <1>3, <2>1
  <2>3. PICK held \in BOOLEAN :
          held <=> table[g[2]] = g[1] \/ q.kept \/ \E s \in show : s.group = g
    OBVIOUS
  <2>4. /\ o.pinned
        /\ group' = [group EXCEPT ![g] = IF held THEN q ELSE disposed(q)]
        /\ block' = IF held THEN block
                    ELSE unlink_blocks({object_path(q, g[2])}, block)
        /\ UNCHANGED <<lvm, uevents, timer, last, update, show, table, ready,
                       listed_by>>
    BY <1>1, <1>5, <2>1, <2>3 DEF release, path_when_unlinked
  <2>5. CASE held BY <1>1, <2>2, <2>3, <2>4, <2>5, ReferenceKeepsIndInv
  <2>6. CASE ~held
    <3>1. PICK p : p = disposed(q) OBVIOUS
    <3>2. IsGroup(p) /\ ~p.need_publish /\ ~p.published /\ p.by = 0
      BY <2>2, <3>1, DisposedFields
    <3>3. table[g[2]] # g[1] /\ \A s \in show : s.group # g BY <2>3, <2>6
    <3>4. object_path(q, g[2]) = "null"
      BY <1>1, <2>2, <3>3 DEF object_path, IndInv, GroupInv
    <3>5. QED BY <1>1, <2>4, <2>6, <3>1, <3>2, <3>3, <3>4, ReferenceKeepsIndInv
  <2>7. QED BY <2>5, <2>6
<1>6. QED BY <1>4, <1>5

-----------------------------------------------------------------------------
\* The invariant is inductive.
LEMMA NextIndInv == IndInv /\ [Next]_vars => IndInv'
<1> SUFFICES ASSUME IndInv, [Next]_vars PROVE IndInv'
  OBVIOUS
<1>1. CASE HelperNext
  BY <1>1, ListKeepsIndInv, ShowKeepsIndInv DEF HelperNext
<1>2. CASE MainLoopNext
  BY <1>2, UeventKeepsIndInv, DelayedKeepsIndInv, ListKeepsIndInv,
     ListTakenKeepsIndInv, AnswerKeepsIndInv, HoldersKeepIndInv DEF MainLoopNext
<1>3. CASE UNCHANGED vars
  <2>1. LinkInv' BY <1>3 DEF vars, IndInv, LinkInv
  <2>2. block' \in [Blocks -> BlockState] BY <1>3 DEF vars, IndInv, Typed
  <2>3. QED BY <1>3, <2>1, <2>2, LinksKeepIndInv DEF vars
<1>4. QED
  BY <1>1, <1>2, <1>3, MetadataKeepsIndInv, OverlayKeepsIndInv DEF Next

\* The inductive invariant.
THEOREM IndInvHolds == Spec => []IndInv
BY InitIndInv, NextIndInv, PTL DEF Spec

\* The state keeps its types: pending_vg_updates never goes below zero.
THEOREM TypeCorrect == Spec => []TypeOK
<1>1. IndInv => TypeOK
  <2> SUFFICES ASSUME IndInv PROVE TypeOK
    OBVIOUS
  <2>1. \A u \in Updates : update[u] \in UpdateRecord
    BY DEF IndInv, Typed, IsUpdate, UpdateRecord
  <2>2. update \in [Updates -> UpdateRecord] BY <2>1 DEF IndInv, Typed
  <2>3. \A g \in Groups : group[g] \in GroupRecord
    BY DEF IndInv, Typed, IsGroup, GroupRecord
  <2>4. group \in [Groups -> GroupRecord] BY <2>3 DEF IndInv, Typed
  <2>5. show \subseteq ShowRecord BY DEF IndInv, Typed, IsShow, ShowRecord
  <2>6. uevents \in 0..MaxChanges BY Numbers DEF IndInv, Typed
  <2>7. QED BY <2>2, <2>4, <2>5, <2>6 DEF IndInv, Typed, TypeOK
<1>2. QED BY <1>1, IndInvHolds, PTL

\* struct UpdateData is freed with the last of its shows, never before, and
\* its pending_vg_updates is the number of shows that are under way or ended
\* without a call of done().
THEOREM UpdatesOutliveShows == Spec => []UpdateOutlivesShows
<1>1. IndInv => UpdateOutlivesShows
  <2> SUFFICES ASSUME IndInv, NEW u \in Updates
               PROVE  /\ ShowsOf(u) # {} => update[u].stage = "showing"
                      /\ update[u].stage = "showing" =>
                           update[u].pending
                             = Cardinality(ShowsOf(u)) + update[u].dropped
    BY DEF UpdateOutlivesShows
  <2>1. ShowsOf(u) # {} => update[u].stage = "showing"
    BY ShowIsCounted DEF ShowsOf
  <2>2. QED BY <2>1 DEF IndInv, UpdateInv
<1>2. QED BY <1>1, IndInvHolds, PTL

\* Only the object in the table is published, however late the answers for a
\* removed one are taken, and of names that share a path one at a time.
THEOREM PublishedObjectsAreInTable == Spec => []PublishedIsInTable
<1>1. IndInv => PublishedIsInTable BY DEF IndInv, GroupInv, PublishedIsInTable
<1>2. QED BY <1>1, IndInvHolds, PTL

\* A link that has a path names a published object that lists the device, but
\* for one that took its path over and has no good answer yet; a link without a
\* path belongs to a removed group that is still held, or to one whose path was
\* taken over.  This is for any map of names to paths.
THEOREM LinksAreKept == Spec => []LinkedGroupListsDevice
<1>1. IndInv => LinkedGroupListsDevice
  <2>1. ASSUME Linked(group, table, show, block) PROVE LinkedGroupListsDevice
    BY <2>1 DEF Linked, Named, Nameless, LinkedGroupListsDevice
  <2>2. QED BY <2>1 DEF IndInv, LinkInv
<1>2. QED BY <1>1, IndInvHolds, PTL

\* When nothing is under way and the newest update was answered last, the
\* table and every group in it are what LVM has, for any number of changes; a
\* group whose path no other name has is published.
THEOREM QuietMeansCurrent == Spec => []CurrentWhenQuiet
<1>1. IndInv => CurrentWhenQuiet
  <2> SUFFICES ASSUME IndInv, Quiet, listed_by = last,
                      \A v \in VGs : table[v] # 0 =>
                                       group[<<table[v], v>>].by = last,
                      NEW v \in VGs
               PROVE  /\ (table[v] # 0) = (v \in vgs)
                      /\ v \in vgs => /\ group[<<table[v], v>>].published \/ Shared(v)
                                      /\ group[<<table[v], v>>].known
                                      /\ group[<<table[v], v>>].info = pvs[v]
    BY DEF CurrentWhenQuiet
  <2>1. last \in Updates /\ last # 0 /\ Settled
    BY Numbers DEF IndInv, Typed, Quiet, Settled
  <2>2. last # 1
    \* Coldplug has no quiet end: either the timer is set, or a show of it
    \* ended early and its group has no answer.
    <3> SUFFICES ASSUME last = 1 PROVE FALSE
      OBVIOUS
    <3>1. ~Untouched(1) BY DEF Untouched
    <3>2. Taken(update[1]) BY <2>1, <3>1 DEF IndInv, UpdateInv
    <3>3. update[1].stage = "showing"
      BY <2>1, <3>2 DEF Taken, Settled, IndInv, ColdInv
    <3>4. ShowsOf(1) = {} BY DEF Quiet, ShowsOf
    <3>5. Cardinality(ShowsOf(1)) = 0 BY <3>4, FS_EmptySet
    <3>6. /\ update[1].pending = Cardinality(ShowsOf(1)) + update[1].dropped
          /\ update[1].pending > 0 /\ update[1].dropped \in Nat
      BY <2>1, <3>3 DEF IndInv, UpdateInv, Typed, IsUpdate
    <3>7. update[1].dropped > 0 BY <3>5, <3>6
    <3>8. PICK w \in VGs : table[w] # 0 /\ group[<<table[w], w>>].by = 0
      BY <3>7 DEF IndInv, ColdInv
    <3>9. group[<<table[w], w>>].by = 1 BY <3>8
    <3>10. QED BY <3>8, <3>9
  <2>3. last > 1 BY <2>1, <2>2, Numbers
  <2>4. table[v] # 0 <=> v \in vgs BY <2>1, <2>3 DEF IndInv, WarmInv
  <2>5. ASSUME v \in vgs
        PROVE  /\ group[<<table[v], v>>].published \/ Shared(v)
               /\ group[<<table[v], v>>].known
               /\ group[<<table[v], v>>].info = pvs[v]
    <3> DEFINE g == <<table[v], v>>
    <3>1. table[v] # 0 BY <2>4, <2>5
    <3>2. g \in Groups /\ g[1] = table[v] /\ g[2] = v
      BY <3>1, Pairs DEF IndInv, Typed
    <3>3. group[g].by = last BY <3>1
    <3> HIDE DEF g
    <3>4. group[g].known /\ group[g].info = pvs[v]
      BY <2>1, <2>3, <3>2, <3>3 DEF IndInv, WarmInv
    <3>5. group[g].published \/ Shared(v)
      BY <2>1, <3>2, <3>3 DEF IndInv, GroupInv
    <3>6. QED BY <3>4, <3>5 DEF g
  <2>6. QED BY <2>4, <2>5
<1>2. QED BY <1>1, IndInvHolds, PTL

-----------------------------------------------------------------------------
\* The safety half of ColdplugEnds, and the life of struct UpdateData.

\* Only coldplug has a task, and it is returned when its record is freed.
TaskInv ==
  /\ update[1].stage # "unused"
  /\ \A u \in Updates : u <= last => (update[u].task <=> u = 1)
  /\ ready <=> update[1].stage = "freed"

\* As long as on_manager_ready was not called coldplug has a helper whose answer
\* is still to come, or one of its helpers let it down.
ColdplugIsUnderWay ==
  \/ ready
  \/ update[1].stage \in {"listing", "listed", "unlisted"}
  \/ ShowsOf(1) # {}
  \/ update[1].stage = "lost"
  \/ update[1].dropped > 0

\* g_free (data) is the end of the record: no callback writes to it after that,
\* and its task is not returned again.
FreedIsFinal ==
  [][\A u \in Updates : update[u].stage = "freed" => update'[u] = update[u]]_vars

\* What a step does to the records: the list of one is read or taken, one is
\* counted down, or a new one is started.  d is the record u after that.
RecordStep(u, d) ==
  /\ update' = [update EXCEPT ![u] = d]
  /\ d.task = update[u].task
  /\ update[u].stage \in {"listing", "listed", "unlisted", "showing"}
  /\ d.stage \in {"listed", "unlisted", "lost", "showing", "freed"}
  /\ last' = last
  /\ ready' = (ready \/ (d.stage = "freed" /\ d.task))

\* The helper's answer to a list, good or bad, and what is made of it.
LEMMA ListRecordStep ==
  ASSUME IndInv, NEW u \in Updates,
         \/ list_volume_groups(u)
         \/ lvm_update_list_failed(u)
         \/ lvm_update_from_variant(u)
  PROVE  \E d : RecordStep(u, d)
<1>1. PICK o : o = update[u] OBVIOUS
<1>2. IsUpdate(o) BY <1>1 DEF IndInv, Typed
<1>3. CASE list_volume_groups(u) \/ lvm_update_list_failed(u)
  <2>1. \/ update' = [update EXCEPT ![u].stage = "listed", ![u].names = vgs]
        \/ update' = [update EXCEPT ![u].stage = "unlisted"]
        \/ update' = [update EXCEPT ![u].stage = "lost"]
    BY <1>3 DEF list_volume_groups, lvm_update_list_failed
  <2>2. PICK d : /\ \/ d = [o EXCEPT !.stage = "listed", !.names = vgs]
                    \/ d = [o EXCEPT !.stage = "unlisted"]
                    \/ d = [o EXCEPT !.stage = "lost"]
                 /\ update' = [update EXCEPT ![u] = d]
    <3>1. CASE update' = [update EXCEPT ![u].stage = "listed", ![u].names = vgs]
      <4>1. PICK d : d = [o EXCEPT !.stage = "listed", !.names = vgs] OBVIOUS
      <4>2. update' = [update EXCEPT ![u] = d] BY <1>1, <3>1, <4>1
      <4>3. QED BY <4>1, <4>2
    <3>2. CASE update' = [update EXCEPT ![u].stage = "unlisted"]
      <4>1. PICK d : d = [o EXCEPT !.stage = "unlisted"] OBVIOUS
      <4>2. update' = [update EXCEPT ![u] = d] BY <1>1, <3>2, <4>1
      <4>3. QED BY <4>1, <4>2
    <3>3. CASE update' = [update EXCEPT ![u].stage = "lost"]
      <4>1. PICK d : d = [o EXCEPT !.stage = "lost"] OBVIOUS
      <4>2. update' = [update EXCEPT ![u] = d] BY <1>1, <3>3, <4>1
      <4>3. QED BY <4>1, <4>2
    <3>4. QED BY <2>1, <3>1, <3>2, <3>3
  <2>3. d.task = o.task /\ d.stage \in {"listed", "unlisted", "lost"}
    BY <1>2, <2>2 DEF IsUpdate
  <2>4. /\ o.stage \in {"listing", "unlisted"} /\ last' = last /\ ready' = ready
    BY <1>1, <1>3 DEF list_volume_groups, lvm_update_list_failed
  <2>5. ready \in BOOLEAN /\ d.stage # "freed" BY <2>3 DEF IndInv, Typed
  <2>6. ready' = (ready \/ (d.stage = "freed" /\ d.task)) BY <2>4, <2>5
  <2>7. RecordStep(u, d) BY <1>1, <2>2, <2>3, <2>4, <2>6 DEF RecordStep
  <2>8. QED BY <2>7
<1>4. CASE lvm_update_from_variant(u)
  <2>1. PICK d : TakesList(u, d) BY <1>4, ListEffect
  <2>2. RecordStep(u, d) BY <2>1 DEF TakesList, RecordStep, lvm_update_done
  <2>3. QED BY <2>2
<1>5. QED BY <1>3, <1>4

\* The answer to a show.
LEMMA AnswerRecordStep ==
  ASSUME IndInv, NEW s \in show, NEW lvs \in BOOLEAN, update_with_variant(s, lvs)
  PROVE  \E d : RecordStep(s.update, d)
<1>1. PICK r, d : TakesAnswer(s, r, d) BY AnswerEffect
<1>2. update[s.update].stage = "showing" BY ShowIsCounted
<1>3. d.stage \in {"showing", "freed"} /\ d.task = update[s.update].task
  BY <1>1, <1>2 DEF TakesAnswer, Counted
<1>4. RecordStep(s.update, d)
  BY <1>1, <1>2, <1>3 DEF TakesAnswer, RecordStep, lvm_update_done
<1>5. QED BY <1>4

\* All that may happen to the records.
LEMMA RecordSteps ==
  ASSUME IndInv, [Next]_vars
  PROVE  \/ UNCHANGED <<update, last, ready>>
         \/ \E u \in Updates : \E d : RecordStep(u, d)
         \/ delayed_lvm_update
<1>1. CASE HelperNext
  <2>1. ASSUME NEW s \in show, show_volume_group(s) PROVE UNCHANGED <<update, last, ready>>
    BY <2>1 DEF show_volume_group
  <2>2. QED BY <1>1, <2>1, ListRecordStep DEF HelperNext
<1>2. CASE MainLoopNext
  <2>1. ASSUME NEW s \in show, NEW lvs \in BOOLEAN, update_with_variant(s, lvs)
        PROVE  \E u \in Updates : \E d : RecordStep(u, d)
    BY <2>1, AnswerRecordStep, ShowIsCounted
  <2>2. CASE on_uevent BY <2>2 DEF on_uevent
  <2>3. ASSUME NEW g \in Groups, hold(g) \/ release(g)
        PROVE  UNCHANGED <<update, last, ready>>
    BY <2>3 DEF hold, release
  <2>4. QED BY <1>2, <2>1, <2>2, <2>3, ListRecordStep DEF MainLoopNext
<1>3. CASE UNCHANGED vars BY <1>3 DEF vars
<1>4. ASSUME NEW b \in Blocks,
             on_udisks_interface_added(b) \/ on_udisks_interface_removed(b)
      PROVE  UNCHANGED <<update, last, ready>>
  BY <1>4 DEF on_udisks_interface_added, on_udisks_interface_removed
<1>5. ASSUME NEW v \in VGs, NEW exists \in BOOLEAN, NEW devices \in SUBSET Blocks,
             MetadataChanges(v, exists, devices)
      PROVE  UNCHANGED <<update, last, ready>>
  BY <1>5 DEF MetadataChanges
<1>6. QED BY <1>1, <1>2, <1>3, <1>4, <1>5 DEF Next

\* The initial state: coldplug has the task.
LEMMA InitTaskInv == Init => TaskInv
<1> SUFFICES ASSUME Init PROVE TaskInv
  OBVIOUS
<1>1. update[1] = lvm_update(TRUE, TRUE) BY Numbers DEF Init
<1>2. update[1].stage = "listing" /\ update[1].task BY <1>1 DEF lvm_update, NoUpdate
<1>3. \A u \in Updates : u <= last => u = 1 BY Numbers DEF Init
<1>4. QED BY <1>2, <1>3 DEF Init, TaskInv

\* Every step keeps it.
LEMMA NextTaskInv == IndInv /\ TaskInv /\ [Next]_vars => TaskInv'
<1> SUFFICES ASSUME IndInv, TaskInv, [Next]_vars PROVE TaskInv'
  OBVIOUS
<1>1. CASE UNCHANGED <<update, last, ready>> BY <1>1 DEF TaskInv
<1>2. ASSUME NEW u \in Updates, NEW d, RecordStep(u, d) PROVE TaskInv'
  <2>1. \A w \in Updates : update'[w] = IF w = u THEN d ELSE update[w]
    BY <1>2 DEF RecordStep, IndInv, Typed
  <2>2. u <= last
    <3>1. update[u].stage # "unused" BY <1>2 DEF RecordStep
    <3>2. u \in Nat /\ last \in Nat BY Numbers DEF IndInv, Typed
    <3>3. QED BY <3>1, <3>2 DEF IndInv, UpdateInv
  <2>3. d.task <=> u = 1 BY <1>2, <2>2 DEF RecordStep, TaskInv
  <2>4. \A w \in Updates : w <= last' => (update'[w].task <=> w = 1)
    BY <1>2, <2>1, <2>3 DEF RecordStep, TaskInv
  <2>5. CASE u = 1
    BY <1>2, <2>1, <2>3, <2>4, <2>5, Numbers DEF RecordStep, TaskInv
  <2>6. CASE u # 1
    BY <1>2, <2>1, <2>3, <2>4, <2>6, Numbers DEF RecordStep, TaskInv
  <2>7. QED BY <2>5, <2>6
<1>3. CASE delayed_lvm_update
  <2>1. PICK n : n = last + 1 OBVIOUS
  <2>2. n \in Updates /\ n > 1 /\ last' = n /\ last \in Nat
    BY <1>3, <2>1, Numbers DEF delayed_lvm_update, IndInv, Typed, Updates
  <2>3. PICK q : q = lvm_update(FALSE, FALSE) OBVIOUS
  <2>4. update' = [update EXCEPT ![n] = q] /\ ready' = ready
    BY <1>3, <2>1, <2>3 DEF delayed_lvm_update
  <2>5. /\ ~q.task /\ n # 1
        /\ \A w \in Updates : update'[w] = IF w = n THEN q ELSE update[w]
    <3>1. ~q.task BY <2>3 DEF lvm_update, NoUpdate
    <3>2. n # 1 BY <2>2
    <3>3. QED BY <2>4, <3>1, <3>2 DEF IndInv, Typed
  <2>6. \A w \in Updates : w <= last' => w <= last \/ w = n BY <2>1, <2>2, Numbers
  <2>7. \A w \in Updates : w <= last' => (update'[w].task <=> w = 1)
    BY <2>5, <2>6 DEF TaskInv
  <2>8. update'[1] = update[1] BY <2>5, Numbers
  <2>9. QED BY <2>4, <2>7, <2>8 DEF TaskInv
<1>4. QED BY <1>1, <1>2, <1>3, RecordSteps

\* As long as coldplug's task was not returned, an answer for coldplug is to
\* come, or its list failed, or one of its shows ended without a call of done().
THEOREM ColdplugIsNotForgotten == Spec => []ColdplugIsUnderWay
<1>1. ASSUME IndInv, TaskInv PROVE ColdplugIsUnderWay
  <2>1. IsUpdate(update[1]) BY <1>1, Numbers DEF IndInv, Typed
  <2>2. CASE update[1].stage = "showing"
    <3>1. /\ update[1].pending = Cardinality(ShowsOf(1)) + update[1].dropped
          /\ update[1].pending > 0 /\ update[1].dropped \in Nat
      BY <1>1, <2>1, <2>2, Numbers DEF IndInv, UpdateInv, IsUpdate
    <3>2. ShowsOf(1) = {} => Cardinality(ShowsOf(1)) = 0 BY FS_EmptySet
    <3>3. ShowsOf(1) # {} \/ update[1].dropped > 0 BY <3>1, <3>2
    <3>4. QED BY <3>3 DEF ColdplugIsUnderWay
  <2>3. CASE update[1].stage # "showing"
    BY <1>1, <2>1, <2>3 DEF IsUpdate, TaskInv, ColdplugIsUnderWay
  <2>4. QED BY <2>2, <2>3
<1>2. IndInv /\ TaskInv => ColdplugIsUnderWay BY <1>1
<1>3. QED BY <1>2, InitTaskInv, NextTaskInv, IndInvHolds, PTL DEF Spec

\* No callback writes to an update after g_free (data): only a show that is
\* counted reaches it, and only a listed one is filled.
THEOREM FreedUpdatesStayFreed == Spec => FreedIsFinal
<1>1. ASSUME IndInv, [Next]_vars
      PROVE  \A u \in Updates : update[u].stage = "freed" => update'[u] = update[u]
  <2>1. CASE UNCHANGED <<update, last, ready>> BY <2>1
  <2>2. ASSUME NEW u \in Updates, NEW d, RecordStep(u, d)
        PROVE  \A w \in Updates : update[w].stage = "freed" => update'[w] = update[w]
    BY <1>1, <2>2 DEF RecordStep, IndInv, Typed
  <2>3. CASE delayed_lvm_update
    <3>1. \A w \in Updates : update[w].stage = "freed" => w # last + 1
      BY <1>1, Numbers DEF IndInv, UpdateInv, Typed
    <3>2. QED BY <1>1, <2>3, <3>1 DEF delayed_lvm_update, IndInv, Typed
  <2>4. QED BY <1>1, <2>1, <2>2, <2>3, RecordSteps
<1>2. IndInv /\ [Next]_vars =>
        [\A u \in Updates : update[u].stage = "freed" => update'[u] = update[u]]_vars
  BY <1>1
<1>3. QED BY <1>2, IndInvHolds, PTL DEF Spec, FreedIsFinal
=============================================================================
