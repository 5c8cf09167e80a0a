--------------------------- MODULE VolumesProofs ---------------------------
(***************************************************************************)
(* Proofs about Volumes: what is published, where the links between the    *)
(* volumes lead and what the block overlays show, for any set of names,    *)
(* lists, blocks and bounds that satisfy the assumptions of Volumes.       *)
(***************************************************************************)
EXTENDS Volumes, NaturalsInduction, WellFoundedInduction, TLAPS

-----------------------------------------------------------------------------
\* The inductive invariant.

Public(r) == r.published \/ r.need_publish

\* The table of a group has the visible volumes of the last info it took.
TablesMatchInfo ==
  \A g \in Groups : InTable(group[g].link) = ToSet(group[g].info) \ Reserved

\* No object is spoken of before the update that creates it, and an object that
\* is not created is as storage_volume_group_init makes it.
NothingAheadOfLast ==
  /\ table <= last
  /\ poll.group <= last
  /\ \A u \in Groups : show[u].group <= last
  /\ \A b \in Blocks : by[b][1] <= last
  /\ \A g \in Groups : g > last => group[g] = NewGroup

\* The object in the table is published or will be; one that is not, and that
\* an answer is under way for, is neither.
OnlyTheTableIsPublic ==
  /\ table # 0 => Public(group[table])
  /\ poll.group \in {0, table} \/ ~Public(group[poll.group])
  /\ \A u \in Groups : show[u].group \in {0, table} \/ ~Public(group[show[u].group])

\* What may be published by an object g that has the table link.
PublishedBy(exp, g, link) ==
  \A p \in Paths : exp[p] # NoOne =>
    \E n \in InTable(link) : exp[p] = <<g, n>> /\ p = build_object_path[n]

\* Every volume of g is published, or shares its path with another name.
ShownOrClash(exp, g, link) ==
  \A n \in InTable(link) :
    exp[build_object_path[n]] = <<g, n>> \/ \E m \in Names : Clash(m, n)

\* The overlay that object g updated under the name n shows the volume.
OverlayShows(links, b, exp, g, link, n) ==
  links[b] = IF n \in InTable(link) THEN object_path(exp, g, n) ELSE Root

OverlaysOfTheTable ==
  \A b \in Blocks :
    block[b] # Absent /\ table # 0 /\ by[b][1] = table /\ by[b][2] # Other =>
      OverlayShows(block, b, exported, table, group[table].link, by[b][2])

ExportedByTheTable ==
  IF table = 0 THEN \A p \in Paths : exported[p] = NoOne
  ELSE /\ PublishedBy(exported, table, group[table].link)
       /\ ShownOrClash(exported, table, group[table].link)

IndInv ==
  /\ TypeOK
  /\ TablesMatchInfo
  /\ NothingAheadOfLast
  /\ OnlyTheTableIsPublic
  /\ ExportedByTheTable
  /\ LinksLeadToThePool
  /\ OverlaysOfTheTable

-----------------------------------------------------------------------------
\* Induction, and the loop over a list.

\* A set that has 0 and is closed under successor has every natural number:
\* what a loop preserves it preserves for lists of any length.
LEMMA SetInduction ==
  ASSUME NEW T, 0 \in T, \A n \in Nat : n \in T => n + 1 \in T
  PROVE  Nat \subseteq T
<1> DEFINE R == OpToRel(<, Nat)
<1>1. IsWellFoundedOn(R, Nat)
  BY NatLessThanWellFounded, Zenon
<1>2. SUFFICES ASSUME Nat \ T # {} PROVE FALSE
  OBVIOUS
<1> HIDE DEF R
<1>3. PICK x \in Nat \ T : \A y \in Nat \ T : ~(<<y, x>> \in R)
  BY <1>1, <1>2, WFMin
<1>4. x # 0
  OBVIOUS
<1>5. x - 1 \in Nat /\ x - 1 < x /\ (x - 1) + 1 = x
  BY <1>4
<1>6. <<x - 1, x>> \in R
  BY <1>5 DEF R, OpToRel
<1>7. QED
  BY <1>3, <1>5, <1>6

\* One step of update_listed.
ListedStep(s, g, public, list, taken, i) ==
  IF list[i] \notin taken THEN s
  ELSE storage_logical_volume_update(s, g, public, list[i])

\* f has the states of update_listed before the loop and after each step.
IsTrace(f, st, g, public, list, taken, k) ==
  f = [i \in 0..k |-> IF i = 0 THEN st
                      ELSE ListedStep(f[i - 1], g, public, list, taken, i)]

\* The loop has a trace of every length.
LEMMA TraceExists ==
  ASSUME NEW st, NEW g, NEW public, NEW list, NEW taken, NEW k \in Nat
  PROVE  \E f : IsTrace(f, st, g, public, list, taken, k)
<1> DEFINE Has(n) == \E f : IsTrace(f, st, g, public, list, taken, n)
           T == {n \in Nat : Has(n)}
<1>1. Has(0)
  <2> DEFINE f == [i \in 0..0 |-> st]
  <2>1. f = [i \in 0..0 |-> IF i = 0 THEN st
                            ELSE ListedStep(f[i - 1], g, public, list, taken, i)]
    OBVIOUS
  <2> HIDE DEF f
  <2>2. QED
    BY <2>1 DEF IsTrace
<1>2. ASSUME NEW n \in Nat, Has(n) PROVE Has(n + 1)
  <2>1. PICK f : IsTrace(f, st, g, public, list, taken, n)
    BY <1>2
  <2> DEFINE h == [i \in 0..(n + 1) |->
                     IF i = n + 1 THEN ListedStep(f[n], g, public, list, taken, n + 1)
                     ELSE f[i]]
  <2>2. \A i \in 0..n : h[i] = f[i]
    OBVIOUS
  <2>3. ASSUME NEW i \in 0..(n + 1)
        PROVE  h[i] = IF i = 0 THEN st
                      ELSE ListedStep(h[i - 1], g, public, list, taken, i)
    <3>1. CASE i = n + 1
      <4>1. h[i - 1] = f[n] /\ i - 1 = n
        BY <3>1
      <4>2. QED
        BY <3>1, <4>1
    <3>2. CASE i # n + 1
      <4>1. i \in 0..n /\ h[i] = f[i]
        BY <3>2
      <4>2. f[i] = IF i = 0 THEN st
                   ELSE ListedStep(f[i - 1], g, public, list, taken, i)
        BY <2>1, <4>1 DEF IsTrace
      <4>3. i # 0 => i - 1 \in 0..n /\ h[i - 1] = f[i - 1]
        BY <4>1
      <4>4. QED
        BY <4>1, <4>2, <4>3
    <3>3. QED
      BY <3>1, <3>2
  <2>4. h = [i \in 0..(n + 1) |-> h[i]]
    OBVIOUS
  <2> HIDE DEF h
  <2>5. IsTrace(h, st, g, public, list, taken, n + 1)
    BY <2>3, <2>4 DEF IsTrace
  <2>6. QED
    BY <2>5
<1> HIDE DEF Has
<1>3. 0 \in T
  BY <1>1
<1>4. \A n \in Nat : n \in T => n + 1 \in T
  BY <1>2
<1> HIDE DEF T
<1>5. Nat \subseteq T
  BY <1>3, <1>4, SetInduction
<1>6. Has(k)
  BY <1>5 DEF T
<1>7. QED
  BY <1>6 DEF Has

\* update_listed is the last state of such a trace.
LEMMA LoopUnfolds ==
  ASSUME NEW st, NEW g, NEW public, NEW list, NEW taken, Len(list) \in Nat
  PROVE  \E f : /\ IsTrace(f, st, g, public, list, taken, Len(list))
                /\ update_listed(st, g, public, list, taken) = f[Len(list)]
<1> DEFINE f == CHOOSE f : f = [i \in 0..Len(list) |->
                  IF i = 0 THEN st
                  ELSE IF list[i] \notin taken THEN f[i - 1]
                  ELSE storage_logical_volume_update(f[i - 1], g, public, list[i])]
<1>1. \E h : h = [i \in 0..Len(list) |->
                  IF i = 0 THEN st
                  ELSE IF list[i] \notin taken THEN h[i - 1]
                  ELSE storage_logical_volume_update(h[i - 1], g, public, list[i])]
  <2>1. \E h : IsTrace(h, st, g, public, list, taken, Len(list))
    BY TraceExists
  <2>2. QED
    BY <2>1, Zenon DEF IsTrace, ListedStep
<1>2. IsTrace(f, st, g, public, list, taken, Len(list))
  BY <1>1, Zenon DEF IsTrace, ListedStep
<1>3. update_listed(st, g, public, list, taken) = f[Len(list)]
  BY Zenon DEF update_listed
<1>4. QED
  BY <1>2, <1>3

\* What every step of the loop preserves holds of its result.  S[i] is the set
\* of the states that the loop may be in after i steps.
LEMMA LoopInvariant ==
  ASSUME NEW st, NEW g, NEW public, NEW list, NEW taken, Len(list) \in Nat,
         NEW S, st \in S[0],
         \A i \in 1..Len(list) : \A s \in S[i - 1] :
           ListedStep(s, g, public, list, taken, i) \in S[i]
  PROVE  update_listed(st, g, public, list, taken) \in S[Len(list)]
<1>1. PICK f : /\ IsTrace(f, st, g, public, list, taken, Len(list))
               /\ update_listed(st, g, public, list, taken) = f[Len(list)]
  BY LoopUnfolds
<1> DEFINE T == {n \in Nat : n <= Len(list) => f[n] \in S[n]}
<1>2. 0 \in T
  <2>1. f[0] = st
    BY <1>1 DEF IsTrace
  <2>2. QED
    BY <2>1
<1>3. ASSUME NEW n \in Nat, n \in T, n + 1 <= Len(list)
      PROVE  f[n + 1] \in S[n + 1]
  <2>1. f[n] \in S[n]
    BY <1>3
  <2>2. n + 1 \in 1..Len(list) /\ (n + 1) - 1 = n /\ n + 1 \in 0..Len(list) /\ n + 1 # 0
    BY <1>3
  <2>3. f[n + 1] = ListedStep(f[(n + 1) - 1], g, public, list, taken, n + 1)
    BY <1>1, <2>2 DEF IsTrace
  <2>4. f[n + 1] = ListedStep(f[n], g, public, list, taken, n + 1)
    BY <2>2, <2>3
  <2>5. \A s \in S[n] : ListedStep(s, g, public, list, taken, n + 1) \in S[n + 1]
    BY <2>2
  <2>6. QED
    BY <2>1, <2>4, <2>5
<1>4. \A n \in Nat : n \in T => n + 1 \in T
  BY <1>3
<1> HIDE DEF T
<1>5. Nat \subseteq T
  BY <1>2, <1>4, SetInduction
<1>6. QED
  BY <1>1, <1>5 DEF T

-----------------------------------------------------------------------------
\* The operators of Volumes.

Links   == [Names -> Paths \cup {Absent, Unset, Root}]
Exports == [Paths -> (Groups \X Names) \cup {NoOne}]

\* The states of the loops over a list.
LoopState == [link : Links, exported : Exports]

\* The markers are no paths and differ from each other; no volume is NoOne.
LEMMA Markers ==
  /\ Absent # Unset /\ Absent # Root /\ Unset # Root
  /\ \A n \in Names : /\ build_object_path[n] \in Paths
                      /\ build_object_path[n] \notin {Absent, Unset, Root}
  /\ Absent \notin Paths /\ Unset \notin Paths /\ Root \notin Paths
  /\ \A g \in Groups, n \in Names : <<g, n>> # NoOne
  /\ \A n \in Names : n # <<>>
<1>1. Absent # Unset /\ Absent # Root /\ Unset # Root
  BY DEF Absent, Unset, Root
<1>2. ASSUME NEW n \in Names
      PROVE  /\ build_object_path[n] \in Paths
             /\ build_object_path[n] \notin {Absent, Unset, Root}
  <2>1. build_object_path[n] \in Paths
    BY DEF Paths
  <2>2. PICK s : s = safe_append_to_object_path(n)
    OBVIOUS
  <2>3. build_object_path[n] = <<"/", s>>
    BY <2>2 DEF build_object_path
  <2>4. Len(<<"/", s>>) = 2 /\ Len(<<"absent">>) = 1 /\ Len(<<"null">>) = 1 /\ Len(<<"/">>) = 1
    OBVIOUS
  <2>5. <<"/", s>> # <<"absent">> /\ <<"/", s>> # <<"null">> /\ <<"/", s>> # <<"/">>
    BY <2>4
  <2>6. QED
    BY <2>1, <2>3, <2>5 DEF Absent, Unset, Root
<1>3. Absent \notin Paths /\ Unset \notin Paths /\ Root \notin Paths
  BY <1>2 DEF Paths
<1>4. \A g \in Groups, n \in Names : <<g, n>> # NoOne
  BY BoundsAssumption DEF Groups, NoOne
<1>5. \A n \in Names : n # <<>>
  BY NamesAssumption
<1>6. QED
  BY <1>1, <1>2, <1>3, <1>4, <1>5

\* A volume that is shown in the table is one that has a link.
LEMMA InTableOf ==
  ASSUME NEW link, NEW n
  PROVE  n \in InTable(link) <=> n \in Names /\ link[n] # Absent
BY DEF InTable

\* object_path is the path exactly when the object has it.
LEMMA ObjectPath ==
  ASSUME NEW exp, NEW g, NEW n \in Names
  PROVE  /\ object_path(exp, g, n) \in Paths \cup {Unset}
         /\ object_path(exp, g, n) \in Paths => /\ object_path(exp, g, n) = build_object_path[n]
                                                /\ exp[build_object_path[n]] = <<g, n>>
         /\ object_path(exp, g, n) = Unset <=> exp[build_object_path[n]] # <<g, n>>
         /\ object_path(exp, g, n) # Absent /\ object_path(exp, g, n) # Root
BY Markers DEF object_path

\* Publishing changes the owner of one path.
LEMMA Publish ==
  ASSUME NEW exp \in Exports, NEW g \in Groups, NEW n \in Names
  PROVE  /\ storage_daemon_publish(exp, g, n) \in Exports
         /\ \A p \in Paths : storage_daemon_publish(exp, g, n)[p] =
                               IF p = build_object_path[n] THEN <<g, n>> ELSE exp[p]
<1>1. build_object_path[n] \in Paths
  BY Markers
<1>2. QED
  BY <1>1 DEF storage_daemon_publish, Exports

\* Disposing volumes of g takes away the paths that they have, and no other.
LEMMA Dispose ==
  ASSUME NEW exp \in Exports, NEW g \in Groups, NEW gone \in SUBSET Names
  PROVE  /\ storage_logical_volume_dispose(exp, g, gone) \in Exports
         /\ \A p \in Paths :
              storage_logical_volume_dispose(exp, g, gone)[p] =
                IF \E n \in gone : p = build_object_path[n] /\ exp[p] = <<g, n>>
                THEN NoOne ELSE exp[p]
<1>1. ASSUME NEW n \in Names, NEW p \in Paths
      PROVE  storage_daemon_unpublish(exp, g, n)[p] =
               IF p = build_object_path[n] /\ exp[p] = <<g, n>> THEN NoOne ELSE exp[p]
  <2>1. build_object_path[n] \in Paths
    BY Markers
  <2>2. CASE exp[build_object_path[n]] = <<g, n>>
    <3>1. object_path(exp, g, n) # Unset
      BY <2>2, ObjectPath
    <3>2. storage_daemon_unpublish(exp, g, n) = [exp EXCEPT ![build_object_path[n]] = NoOne]
      BY <3>1 DEF storage_daemon_unpublish
    <3>3. QED
      BY <2>1, <2>2, <3>2 DEF Exports
  <2>3. CASE exp[build_object_path[n]] # <<g, n>>
    <3>1. object_path(exp, g, n) = Unset
      BY <2>3, ObjectPath
    <3>2. storage_daemon_unpublish(exp, g, n) = exp
      BY <3>1 DEF storage_daemon_unpublish
    <3>3. QED
      BY <2>3, <3>2
  <2>4. QED
    BY <2>2, <2>3
<1>2. ASSUME NEW p \in Paths
      PROVE  storage_logical_volume_dispose(exp, g, gone)[p] =
               IF \E n \in gone : storage_daemon_unpublish(exp, g, n)[p] = NoOne
               THEN NoOne ELSE exp[p]
  BY DEF storage_logical_volume_dispose
<1>3. ASSUME NEW p \in Paths
      PROVE  storage_logical_volume_dispose(exp, g, gone)[p] =
                IF \E n \in gone : p = build_object_path[n] /\ exp[p] = <<g, n>>
                THEN NoOne ELSE exp[p]
  <2>1. ASSUME NEW n \in gone, p = build_object_path[n], exp[p] = <<g, n>>
        PROVE  storage_logical_volume_dispose(exp, g, gone)[p] = NoOne
    BY <2>1, <1>1, <1>2
  <2>2. ASSUME ~\E n \in gone : p = build_object_path[n] /\ exp[p] = <<g, n>>
        PROVE  storage_logical_volume_dispose(exp, g, gone)[p] = exp[p]
    <3>1. \A n \in gone : storage_daemon_unpublish(exp, g, n)[p] = exp[p]
      BY <2>2, <1>1
    <3>2. QED
      BY <3>1, <1>2
  <2>3. QED
    BY <2>1, <2>2
<1>4. storage_logical_volume_dispose(exp, g, gone) \in Exports
  <2>1. \A p \in Paths : storage_logical_volume_dispose(exp, g, gone)[p] \in (Groups \X Names) \cup {NoOne}
    BY <1>3 DEF Exports
  <2>2. storage_logical_volume_dispose(exp, g, gone) =
          [p \in Paths |-> storage_logical_volume_dispose(exp, g, gone)[p]]
    BY DEF storage_logical_volume_dispose
  <2>3. QED
    BY <2>1, <2>2 DEF Exports
<1>5. QED
  BY <1>3, <1>4

\* The link of a volume: "/" unless its pool is in the table, else the pool's
\* path, or NULL if another volume has that.
LEMMA PoolLink ==
  ASSUME NEW s \in LoopState, NEW g, NEW n \in Names
  PROVE  /\ pool_objpath(s, g, n) \in Paths \cup {Unset, Root}
         /\ pool_objpath(s, g, n) = Root <=> PoolOf[n] \notin InTable(s.link)
         /\ pool_objpath(s, g, n) \in Paths =>
              /\ PoolOf[n] \in InTable(s.link)
              /\ pool_objpath(s, g, n) = build_object_path[PoolOf[n]]
              /\ s.exported[build_object_path[PoolOf[n]]] = <<g, PoolOf[n]>>
         /\ pool_objpath(s, g, n) = Unset =>
              /\ PoolOf[n] \in InTable(s.link)
              /\ s.exported[build_object_path[PoolOf[n]]] # <<g, PoolOf[n]>>
         /\ pool_objpath(s, g, n) # Absent
<1>1. InTable(s.link) \subseteq Names /\ <<>> \notin InTable(s.link)
  BY Markers DEF InTable
<1>2. CASE PoolOf[n] \notin InTable(s.link)
  BY <1>2, Markers DEF pool_objpath
<1>3. CASE PoolOf[n] \in InTable(s.link)
  <2>1. PoolOf[n] \in Names /\ PoolOf[n] # <<>>
    BY <1>1, <1>3
  <2>2. pool_objpath(s, g, n) = object_path(s.exported, g, PoolOf[n])
    BY <1>3, <2>1 DEF pool_objpath
  <2>3. PICK m \in Names : m = PoolOf[n]
    BY <2>1
  <2>4. PICK o : o = object_path(s.exported, g, m)
    OBVIOUS
  <2>5. /\ o \in Paths \cup {Unset}
        /\ o \in Paths => o = build_object_path[m] /\ s.exported[build_object_path[m]] = <<g, m>>
        /\ o = Unset <=> s.exported[build_object_path[m]] # <<g, m>>
        /\ o # Absent /\ o # Root
    BY <2>4, ObjectPath
  <2>6. pool_objpath(s, g, n) = o
    BY <2>2, <2>3, <2>4
  <2>7. QED
    BY <1>3, <2>3, <2>5, <2>6
<1>4. QED
  BY <1>2, <1>3

\* What an update of volume n by object g makes of s.
Updated(s, t, g, public, n) ==
  /\ t \in LoopState
  /\ t.link[n] = pool_objpath(s, g, n)
  /\ \A m \in Names : m # n => t.link[m] = s.link[m]
  /\ InTable(t.link) = InTable(s.link) \cup {n}
  /\ public /\ n \notin InTable(s.link) =>
       \A p \in Paths : t.exported[p] =
         IF p = build_object_path[n] THEN <<g, n>> ELSE s.exported[p]
  /\ ~public \/ n \in InTable(s.link) => t.exported = s.exported

\* storage_logical_volume_update changes the link of n, and the path of n if it
\* is new in a group that is published.
LEMMA UpdateOne ==
  ASSUME NEW s \in LoopState, NEW g \in Groups, NEW public \in BOOLEAN, NEW n \in Names
  PROVE  Updated(s, storage_logical_volume_update(s, g, public, n), g, public, n)
<1>0. PICK t : t = storage_logical_volume_update(s, g, public, n)
  OBVIOUS
<1>1. s.link \in Links /\ s.exported \in Exports
  BY DEF LoopState
<1>2. PICK l : l = pool_objpath(s, g, n)
  OBVIOUS
<1>3. l \in Paths \cup {Unset, Root} /\ l # Absent
  BY <1>2, PoolLink
<1>4. PICK link : link = [s.link EXCEPT ![n] = l]
  OBVIOUS
<1>5. /\ link \in Links /\ link[n] = l
      /\ \A m \in Names : m # n => link[m] = s.link[m]
  BY <1>1, <1>3, <1>4 DEF Links
<1>6. InTable(link) = InTable(s.link) \cup {n}
  BY <1>3, <1>5 DEF InTable
<1>7. PICK exp : exp = IF needs_publish(s, public, n)
                       THEN storage_daemon_publish(s.exported, g, n) ELSE s.exported
  OBVIOUS
<1>8. needs_publish(s, public, n) <=> public /\ n \notin InTable(s.link)
  BY DEF needs_publish, InTable
<1>9. /\ exp \in Exports
      /\ public /\ n \notin InTable(s.link) =>
           \A p \in Paths : exp[p] =
             IF p = build_object_path[n] THEN <<g, n>> ELSE s.exported[p]
      /\ ~public \/ n \in InTable(s.link) => exp = s.exported
  BY <1>1, <1>7, <1>8, Publish
<1>10. t = [link |-> link, exported |-> exp]
  BY <1>0, <1>2, <1>4, <1>7 DEF storage_logical_volume_update
<1>11. t.link = link /\ t.exported = exp /\ t \in LoopState
  BY <1>5, <1>9, <1>10 DEF LoopState
<1>12. Updated(s, t, g, public, n)
  BY <1>2, <1>5, <1>6, <1>9, <1>11 DEF Updated
<1>13. QED
  BY <1>0, <1>12

-----------------------------------------------------------------------------
\* The loop of update_with_variant.

\* A list, as the assumption on Lists has it.
LEMMA ListFacts ==
  ASSUME NEW list \in Lists
  PROVE  /\ list \in Seq(Names) /\ Len(list) \in Nat /\ DOMAIN list = 1..Len(list)
         /\ \A i \in 1..Len(list) : list[i] \in Names /\ list[i] \in ToSet(list)
         /\ \A n : n \in ToSet(list) <=> \E i \in 1..Len(list) : list[i] = n
         /\ ToSet(list) \subseteq Names
         /\ \A i \in 1..Len(list) : PoolOf[list[i]] \in Names => PoolOf[list[i]] \in ToSet(list)
<1>1. list \in Seq(Names)
  BY ListsAssumption
<1>2. Len(list) \in Nat /\ DOMAIN list = 1..Len(list) /\ \A i \in 1..Len(list) : list[i] \in Names
  BY <1>1
<1>3. \A n : n \in ToSet(list) <=> \E i \in 1..Len(list) : list[i] = n
  BY <1>2 DEF ToSet
<1>4. \A i \in DOMAIN list : PoolOf[list[i]] \in ToSet(list) \cup {<<>>}
  BY ListsAssumption
<1>5. \A i \in 1..Len(list) : PoolOf[list[i]] \in Names => PoolOf[list[i]] \in ToSet(list)
  BY <1>2, <1>4, Markers
<1>6. QED
  BY <1>1, <1>2, <1>3, <1>5

Visible == {n \in Names : lv_is_visible(n)}

\* The volumes that the first i steps of the loop show.
Done(list, i) == {n \in Visible : \E j \in 1..i : list[j] = n}

\* Where the link of the volume listed at j leads, when g has published exp.
LinkOf(link, exp, g, list, j) ==
  /\ link[list[j]] \in Paths =>
       /\ PoolOf[list[j]] \in Names
       /\ link[list[j]] = build_object_path[PoolOf[list[j]]]
       /\ \E m \in ToSet(list) : /\ m = PoolOf[list[j]] \/ Clash(m, PoolOf[list[j]])
                                 /\ exp[link[list[j]]] = <<g, m>>
  /\ link[list[j]] = Root => \A k \in 1..(j - 1) : list[k] # PoolOf[list[j]]
  /\ link[list[j]] = Unset => \E m \in Names : Clash(m, PoolOf[list[j]])

\* After i steps.
ShownSoFar(s, st, g, public, list, i) ==
  /\ InTable(s.link) = InTable(st.link) \cup Done(list, i)
  /\ ~public => s.exported = st.exported
  /\ public => /\ PublishedBy(s.exported, g, s.link)
               /\ ShownOrClash(s.exported, g, s.link)
               /\ \A j \in 1..i : list[j] \in Visible => LinkOf(s.link, s.exported, g, list, j)

\* What g has published stays its own and complete when volume n is updated.
LEMMA UpdateKeepsPublished ==
  ASSUME NEW s \in LoopState, NEW g \in Groups, NEW public \in BOOLEAN, NEW n \in Names,
         NEW t, t = storage_logical_volume_update(s, g, public, n),
         public \/ n \in InTable(s.link),
         PublishedBy(s.exported, g, s.link), ShownOrClash(s.exported, g, s.link)
  PROVE  PublishedBy(t.exported, g, t.link) /\ ShownOrClash(t.exported, g, t.link)
<1>1. /\ InTable(t.link) = InTable(s.link) \cup {n}
      /\ public /\ n \notin InTable(s.link) =>
           \A p \in Paths : t.exported[p] =
             IF p = build_object_path[n] THEN <<g, n>> ELSE s.exported[p]
      /\ ~public \/ n \in InTable(s.link) => t.exported = s.exported
  BY UpdateOne DEF Updated
<1>2. CASE n \in InTable(s.link)
  <2>1. InTable(t.link) = InTable(s.link) /\ t.exported = s.exported
    BY <1>1, <1>2
  <2>2. QED
    BY <2>1 DEF PublishedBy, ShownOrClash
<1>3. CASE n \notin InTable(s.link)
  <2>1. \A p \in Paths : t.exported[p] =
             IF p = build_object_path[n] THEN <<g, n>> ELSE s.exported[p]
    BY <1>1, <1>3
  <2>2. ASSUME NEW p \in Paths, t.exported[p] # NoOne
        PROVE  \E m \in InTable(t.link) : t.exported[p] = <<g, m>> /\ p = build_object_path[m]
    <3>1. CASE p = build_object_path[n]
      BY <1>1, <2>1, <3>1
    <3>2. CASE p # build_object_path[n]
      <4>1. t.exported[p] = s.exported[p]
        BY <2>1, <3>2
      <4>2. \E m \in InTable(s.link) : s.exported[p] = <<g, m>> /\ p = build_object_path[m]
        BY <2>2, <4>1 DEF PublishedBy
      <4>3. QED
        BY <1>1, <4>1, <4>2
    <3>3. QED
      BY <3>1, <3>2
  <2>3. ASSUME NEW m \in InTable(t.link)
        PROVE  t.exported[build_object_path[m]] = <<g, m>> \/ \E k \in Names : Clash(k, m)
    <3>0. m \in Names /\ build_object_path[m] \in Paths
      BY Markers DEF InTable
    <3>1. CASE m = n
      BY <2>1, <3>0, <3>1
    <3>2. CASE m # n /\ build_object_path[m] = build_object_path[n]
      <4>1. Clash(n, m)
        BY <3>2 DEF Clash
      <4>2. QED
        BY <4>1
    <3>3. CASE m # n /\ build_object_path[m] # build_object_path[n]
      <4>1. m \in InTable(s.link)
        BY <1>1, <3>3
      <4>2. t.exported[build_object_path[m]] = s.exported[build_object_path[m]]
        BY <2>1, <3>0, <3>3
      <4>3. QED
        BY <4>1, <4>2 DEF ShownOrClash
    <3>4. QED
      BY <3>1, <3>2, <3>3
  <2>4. PublishedBy(t.exported, g, t.link)
    BY <2>2 DEF PublishedBy
  <2>5. ShownOrClash(t.exported, g, t.link)
    BY <2>3 DEF ShownOrClash
  <2>6. QED
    BY <2>4, <2>5
<1>4. QED
  BY <1>2, <1>3

\* The volumes shown earlier keep links that lead where they should, although
\* the volume at i may take the path of a pool.
LEMMA UpdateKeepsLinks ==
  ASSUME NEW list \in Lists, NEW i \in 1..Len(list), NEW j \in 1..Len(list),
         NEW s \in LoopState, NEW g \in Groups,
         NEW public \in BOOLEAN, public \/ list[i] \in InTable(s.link),
         NEW t, t = storage_logical_volume_update(s, g, public, list[i]),
         list[j] # list[i], LinkOf(s.link, s.exported, g, list, j)
  PROVE  LinkOf(t.link, t.exported, g, list, j)
<1>0. PICK n, k : n = list[i] /\ k = list[j]
  OBVIOUS
<1> DEFINE pool == PoolOf[k]
<1>1. /\ n \in Names /\ k \in Names /\ n \in ToSet(list) /\ k # n
      /\ t = storage_logical_volume_update(s, g, public, n)
  BY <1>0, ListFacts
<1>2. /\ t.link[k] = s.link[k]
      /\ n \notin InTable(s.link) =>
           \A p \in Paths : t.exported[p] =
             IF p = build_object_path[n] THEN <<g, n>> ELSE s.exported[p]
      /\ n \in InTable(s.link) => t.exported = s.exported
  <2>1. /\ \A m \in Names : m # n => t.link[m] = s.link[m]
        /\ public /\ n \notin InTable(s.link) =>
             \A p \in Paths : t.exported[p] =
               IF p = build_object_path[n] THEN <<g, n>> ELSE s.exported[p]
        /\ ~public \/ n \in InTable(s.link) => t.exported = s.exported
    BY <1>1, UpdateOne DEF Updated
  <2>2. public \/ n \in InTable(s.link)
    BY <1>0
  <2>3. QED
    BY <1>1, <2>1, <2>2
<1>3. ASSUME t.link[k] \in Paths
      PROVE  /\ pool \in Names
             /\ t.link[k] = build_object_path[pool]
             /\ \E m \in ToSet(list) : /\ m = pool \/ Clash(m, pool)
                                       /\ t.exported[t.link[k]] = <<g, m>>
  <2>1. /\ pool \in Names
        /\ t.link[k] = build_object_path[pool]
        /\ \E m \in ToSet(list) : /\ m = pool \/ Clash(m, pool)
                                  /\ s.exported[t.link[k]] = <<g, m>>
    BY <1>0, <1>2, <1>3 DEF LinkOf
  <2>2. CASE n \notin InTable(s.link) /\ t.link[k] = build_object_path[n]
    <3>1. t.exported[t.link[k]] = <<g, n>>
      BY <1>2, <1>3, <2>2
    <3>2. n = pool \/ Clash(n, pool)
      BY <2>1, <2>2 DEF Clash
    <3>3. QED
      BY <1>1, <2>1, <3>1, <3>2
  <2>3. CASE ~(n \notin InTable(s.link) /\ t.link[k] = build_object_path[n])
    <3>1. t.exported[t.link[k]] = s.exported[t.link[k]]
      BY <1>2, <1>3, <2>3
    <3>2. QED
      BY <2>1, <3>1
  <2>4. QED
    BY <2>2, <2>3
<1>4. t.link[k] = Root => \A x \in 1..(j - 1) : list[x] # pool
  BY <1>0, <1>2 DEF LinkOf
<1>5. t.link[k] = Unset => \E m \in Names : Clash(m, pool)
  BY <1>0, <1>2 DEF LinkOf
<1>6. QED
  BY <1>0, <1>3, <1>4, <1>5 DEF LinkOf

\* The volume at i, which is visible, gets such a link.
LEMMA UpdateMakesLink ==
  ASSUME NEW list \in Lists, NEW i \in 1..Len(list),
         NEW s \in LoopState, NEW g \in Groups,
         NEW public \in BOOLEAN, public \/ list[i] \in InTable(s.link),
         NEW t, t = storage_logical_volume_update(s, g, public, list[i]),
         ShownOrClash(s.exported, g, s.link),
         Done(list, i - 1) \subseteq InTable(s.link)
  PROVE  /\ LinkOf(t.link, t.exported, g, list, i)
         /\ \A j \in 1..i : list[j] = list[i] => LinkOf(t.link, t.exported, g, list, j)
<1>0. PICK n : n = list[i]
  OBVIOUS
<1> DEFINE pool == PoolOf[n]
<1>1. n \in Names /\ n \in ToSet(list) /\ t = storage_logical_volume_update(s, g, public, n)
  BY <1>0, ListFacts
<1>2. /\ t.link[n] = pool_objpath(s, g, n)
      /\ n \notin InTable(s.link) =>
           \A p \in Paths : t.exported[p] =
             IF p = build_object_path[n] THEN <<g, n>> ELSE s.exported[p]
      /\ n \in InTable(s.link) => t.exported = s.exported
  <2>1. /\ t.link[n] = pool_objpath(s, g, n)
        /\ public /\ n \notin InTable(s.link) =>
             \A p \in Paths : t.exported[p] =
               IF p = build_object_path[n] THEN <<g, n>> ELSE s.exported[p]
        /\ ~public \/ n \in InTable(s.link) => t.exported = s.exported
    BY <1>1, UpdateOne DEF Updated
  <2>2. public \/ n \in InTable(s.link)
    BY <1>0
  <2>3. QED
    BY <1>1, <2>1, <2>2
<1>3. ASSUME t.link[n] \in Paths
      PROVE  /\ pool \in Names
             /\ t.link[n] = build_object_path[pool]
             /\ \E m \in ToSet(list) : /\ m = pool \/ Clash(m, pool)
                                       /\ t.exported[t.link[n]] = <<g, m>>
  <2>0. pool_objpath(s, g, n) \in Paths
    BY <1>2, <1>3
  <2>1. /\ pool \in InTable(s.link)
        /\ t.link[n] = build_object_path[pool]
        /\ s.exported[build_object_path[pool]] = <<g, pool>>
    BY <2>0, <1>1, <1>2, PoolLink
  <2>2. pool \in Names /\ build_object_path[pool] \in Paths
    BY <2>1, Markers DEF InTable
  <2>3. pool \in ToSet(list)
    BY <1>0, <2>2, ListFacts
  <2>4. CASE n \notin InTable(s.link) /\ build_object_path[pool] = build_object_path[n]
    <3>1. t.exported[t.link[n]] = <<g, n>>
      BY <1>2, <1>3, <2>1, <2>4
    <3>2. n = pool \/ Clash(n, pool)
      BY <2>4 DEF Clash
    <3>3. QED
      BY <1>1, <2>1, <2>2, <3>1, <3>2
  <2>5. CASE ~(n \notin InTable(s.link) /\ build_object_path[pool] = build_object_path[n])
    <3>1. t.exported[t.link[n]] = <<g, pool>>
      BY <1>2, <1>3, <2>1, <2>2, <2>5
    <3>2. QED
      BY <2>1, <2>2, <2>3, <3>1
  <2>6. QED
    BY <2>4, <2>5
<1>4. ASSUME t.link[n] = Root, NEW x \in 1..(i - 1) PROVE list[x] # pool
  <2>1. pool \notin InTable(s.link)
    BY <1>1, <1>2, <1>4, PoolLink
  <2>2. x \in 1..Len(list) /\ list[x] \in Names
    BY ListFacts
  <2>3. pool \in Names => pool \in Visible
    BY <1>1, NamesAssumption, Markers DEF Visible, lv_is_visible
  <2>4. list[x] = pool => pool \in Done(list, i - 1)
    BY <2>2, <2>3 DEF Done
  <2>5. QED
    BY <2>1, <2>4
<1>5. ASSUME t.link[n] = Unset PROVE \E m \in Names : Clash(m, pool)
  <2>0. pool_objpath(s, g, n) = Unset
    BY <1>2, <1>5
  <2>1. pool \in InTable(s.link) /\ s.exported[build_object_path[pool]] # <<g, pool>>
    BY <2>0, <1>1, PoolLink
  <2>2. QED
    BY <2>1 DEF ShownOrClash
<1>6. LinkOf(t.link, t.exported, g, list, i)
  BY <1>0, <1>3, <1>4, <1>5 DEF LinkOf
<1>7. ASSUME NEW j \in 1..i, list[j] = list[i] PROVE LinkOf(t.link, t.exported, g, list, j)
  <2>1. \A x \in 1..(j - 1) : x \in 1..(i - 1)
    OBVIOUS
  <2>2. QED
    BY <1>0, <1>3, <1>4, <1>5, <1>7, <2>1 DEF LinkOf
<1>8. QED
  BY <1>6, <1>7

\* The volumes shown after i steps.
LEMMA DoneStep ==
  ASSUME NEW list \in Lists, NEW i \in 1..Len(list)
  PROVE  /\ list[i] \notin Visible => Done(list, i) = Done(list, i - 1)
         /\ list[i] \in Visible => Done(list, i) = Done(list, i - 1) \cup {list[i]}
<1>1. i \in Nat /\ Len(list) \in Nat /\ \A j : j \in 1..i <=> j \in 1..(i - 1) \/ j = i
  BY ListFacts
<1>2. QED
  BY <1>1 DEF Done

\* A step of the loop, the volume at i being visible.
LEMMA ShowOne ==
  ASSUME NEW st \in LoopState, NEW g \in Groups, NEW public \in BOOLEAN, NEW list \in Lists,
         NEW i \in 1..Len(list), NEW s \in LoopState, list[i] \in Visible,
         ShownSoFar(s, st, g, public, list, i - 1),
         NEW t, t = storage_logical_volume_update(s, g, public, list[i])
  PROVE  t \in LoopState /\ ShownSoFar(t, st, g, public, list, i)
<1>0. PICK n : n = list[i]
  OBVIOUS
<1>1. n \in Names /\ t = storage_logical_volume_update(s, g, public, n)
  BY <1>0, ListFacts
<1>2. /\ t \in LoopState
      /\ InTable(t.link) = InTable(s.link) \cup {n}
      /\ ~public \/ n \in InTable(s.link) => t.exported = s.exported
  <2>1. Updated(s, t, g, public, n)
    BY <1>1, UpdateOne
  <2>2. QED
    BY <2>1 DEF Updated
<1>3. InTable(t.link) = InTable(st.link) \cup Done(list, i)
  <2>1. Done(list, i) = Done(list, i - 1) \cup {n}
    BY <1>0, DoneStep
  <2>2. QED
    BY <1>2, <2>1 DEF ShownSoFar
<1>4. ~public => t.exported = st.exported
  BY <1>2 DEF ShownSoFar
<1>5. ASSUME public
      PROVE  /\ PublishedBy(t.exported, g, t.link)
             /\ ShownOrClash(t.exported, g, t.link)
             /\ \A j \in 1..i : list[j] \in Visible => LinkOf(t.link, t.exported, g, list, j)
  <2>1. public \/ n \in InTable(s.link)
    BY <1>5
  <2>2. /\ PublishedBy(s.exported, g, s.link)
        /\ ShownOrClash(s.exported, g, s.link)
        /\ \A j \in 1..(i - 1) : list[j] \in Visible => LinkOf(s.link, s.exported, g, list, j)
    BY <1>5 DEF ShownSoFar
  <2>3. PublishedBy(t.exported, g, t.link) /\ ShownOrClash(t.exported, g, t.link)
    BY <1>1, <2>1, <2>2, UpdateKeepsPublished
  <2>4. Done(list, i - 1) \subseteq InTable(s.link)
    BY DEF ShownSoFar
  <2>5. public \/ list[i] \in InTable(s.link)
    BY <1>0, <2>1
  <2>6. \A j \in 1..i : list[j] = list[i] => LinkOf(t.link, t.exported, g, list, j)
    BY <2>2, <2>4, <2>5, UpdateMakesLink
  <2>7. ASSUME NEW j \in 1..i, list[j] \in Visible, list[j] # list[i]
        PROVE  LinkOf(t.link, t.exported, g, list, j)
    <3>1. j \in 1..(i - 1) /\ j \in 1..Len(list)
      BY <2>7, ListFacts
    <3>2. LinkOf(s.link, s.exported, g, list, j)
      BY <2>2, <2>7, <3>1
    <3>3. QED
      BY <2>5, <2>7, <3>1, <3>2, UpdateKeepsLinks
  <2>8. QED
    BY <2>3, <2>6, <2>7
<1>6. QED
  BY <1>2, <1>3, <1>4, <1>5 DEF ShownSoFar

\* What the loop over the list leaves: the volumes of before and those listed,
\* links that lead where they should, and nothing published unless the group is.
LEMMA LoopShows ==
  ASSUME NEW st \in LoopState, NEW g \in Groups, NEW public \in BOOLEAN, NEW list \in Lists,
         public => PublishedBy(st.exported, g, st.link) /\ ShownOrClash(st.exported, g, st.link)
  PROVE  /\ update_listed(st, g, public, list, Visible) \in LoopState
         /\ ShownSoFar(update_listed(st, g, public, list, Visible), st, g, public, list, Len(list))
<1> DEFINE S == [i \in 0..Len(list) |->
                   {s \in LoopState : ShownSoFar(s, st, g, public, list, i)}]
<1>1. Len(list) \in Nat
  BY ListFacts
<1>2. \A i \in 0..Len(list) : \A s : s \in S[i] <=>
         s \in LoopState /\ ShownSoFar(s, st, g, public, list, i)
  OBVIOUS
<1> HIDE DEF S
<1>3. st \in S[0]
  <2>1. Done(list, 0) = {}
    BY DEF Done
  <2>2. ShownSoFar(st, st, g, public, list, 0)
    BY <2>1 DEF ShownSoFar
  <2>3. QED
    BY <1>1, <1>2, <2>2
<1>4. ASSUME NEW i \in 1..Len(list), NEW s \in S[i - 1]
      PROVE  ListedStep(s, g, public, list, Visible, i) \in S[i]
  <2>1. i \in 0..Len(list) /\ i - 1 \in 0..Len(list)
    BY <1>1
  <2>2. s \in LoopState /\ ShownSoFar(s, st, g, public, list, i - 1)
    BY <1>2, <2>1
  <2>3. CASE list[i] \in Visible
    <3>1. PICK t : t = storage_logical_volume_update(s, g, public, list[i])
      OBVIOUS
    <3>2. t \in LoopState /\ ShownSoFar(t, st, g, public, list, i)
      BY <2>2, <2>3, <3>1, ShowOne
    <3>3. t \in S[i]
      BY <1>2, <2>1, <3>2
    <3>4. QED
      BY <2>3, <3>1, <3>3 DEF ListedStep
  <2>4. CASE list[i] \notin Visible
    <3>1. Done(list, i) = Done(list, i - 1)
      BY <2>4, DoneStep
    <3>2. \A j \in 1..i : list[j] \in Visible => j \in 1..(i - 1)
      BY <1>1, <2>4
    <3>3. ShownSoFar(s, st, g, public, list, i)
      BY <2>2, <3>1, <3>2 DEF ShownSoFar
    <3>4. s \in S[i]
      BY <1>2, <2>1, <2>2, <3>3
    <3>5. QED
      BY <2>4, <3>4 DEF ListedStep
  <2>5. QED
    BY <2>3, <2>4
<1>5. update_listed(st, g, public, list, Visible) \in S[Len(list)]
  BY <1>1, <1>3, <1>4, LoopInvariant
<1>6. Len(list) \in 0..Len(list)
  BY <1>1
<1>7. QED
  BY <1>2, <1>5, <1>6

\* LinksLeadToThePool of an object g that has published exp and took info.
LinksLead(link, exp, g, info) ==
  \A n \in InTable(link) :
    /\ link[n] \in Paths =>
         \E m \in {PoolOf[n]} \cup {k \in Names : Clash(k, PoolOf[n])} :
           exp[link[n]] = <<g, m>>
    /\ link[n] = Root => ~ListedBefore(info, PoolOf[n], n)
    /\ link[n] = Unset => \E m \in Names : Clash(m, PoolOf[n])

\* What update_volumes makes of st.
VolumesUpdated(st, r, g, public, list) ==
  /\ r \in LoopState
  /\ InTable(r.link) = ToSet(list) \ Reserved
  /\ ~public => r.exported = st.exported
  /\ public => /\ PublishedBy(r.exported, g, r.link)
               /\ ShownOrClash(r.exported, g, r.link)
               /\ LinksLead(r.link, r.exported, g, list)

\* update_volumes shows the visible volumes that are listed and no other, and
\* what it disposes is nothing that a link leads to.
LEMMA UpdateVolumes ==
  ASSUME NEW st \in LoopState, NEW g \in Groups, NEW public \in BOOLEAN, NEW list \in Lists,
         InTable(st.link) \subseteq Visible,
         public => PublishedBy(st.exported, g, st.link) /\ ShownOrClash(st.exported, g, st.link),
         ~public => \A p \in Paths, n \in Names : st.exported[p] # <<g, n>>
  PROVE  VolumesUpdated(st, update_volumes(st, g, public, list), g, public, list)
<1>1. PICK s : s = update_listed(st, g, public, list, Visible)
  OBVIOUS
<1>2. s \in LoopState /\ ShownSoFar(s, st, g, public, list, Len(list))
  BY <1>1, LoopShows
<1>3. PICK gone : gone = InTable(s.link) \ ToSet(list)
  OBVIOUS
<1>4. gone \in SUBSET Names /\ s.link \in Links /\ s.exported \in Exports
  BY <1>2, <1>3 DEF InTable, LoopState
<1>5. PICK link : link = [n \in Names |-> IF n \in gone THEN Absent ELSE s.link[n]]
  OBVIOUS
<1>6. PICK exp : exp = storage_logical_volume_dispose(s.exported, g, gone)
  OBVIOUS
<1>7. PICK r : r = update_volumes(st, g, public, list)
  OBVIOUS
<1>8. r = [link |-> link, exported |-> exp]
  BY <1>1, <1>3, <1>5, <1>6, <1>7 DEF update_volumes, Visible
<1>9. r.link = link /\ r.exported = exp
  BY <1>8
<1>10. link \in Links
  BY <1>4, <1>5 DEF Links
<1>11. /\ exp \in Exports
       /\ \A p \in Paths : exp[p] =
            IF \E n \in gone : p = build_object_path[n] /\ s.exported[p] = <<g, n>>
            THEN NoOne ELSE s.exported[p]
  BY <1>4, <1>6, Dispose
<1>12. r \in LoopState
  BY <1>8, <1>10, <1>11 DEF LoopState
<1>13. InTable(link) = InTable(s.link) \ gone
  BY <1>4, <1>5 DEF InTable
<1>14. Visible = Names \ Reserved
  BY DEF Visible, lv_is_visible
<1>15. Done(list, Len(list)) = ToSet(list) \ Reserved
  BY <1>14, ListFacts DEF Done
<1>16. InTable(s.link) = InTable(st.link) \cup Done(list, Len(list))
  BY <1>2 DEF ShownSoFar
<1>17. InTable(link) = ToSet(list) \ Reserved
  BY <1>3, <1>13, <1>14, <1>15, <1>16
<1>18. ASSUME ~public PROVE exp = st.exported
  <2>1. s.exported = st.exported
    BY <1>2, <1>18 DEF ShownSoFar
  <2>2. \A p \in Paths, n \in Names : st.exported[p] # <<g, n>>
    BY <1>18
  <2>3. \A p \in Paths : exp[p] = st.exported[p]
    BY <1>4, <1>11, <2>1, <2>2
  <2>4. QED
    BY <1>4, <1>11, <2>1, <2>3 DEF Exports
<1>19. ASSUME public
       PROVE  /\ PublishedBy(exp, g, link)
              /\ ShownOrClash(exp, g, link)
              /\ LinksLead(link, exp, g, list)
  <2>1. /\ PublishedBy(s.exported, g, s.link)
        /\ ShownOrClash(s.exported, g, s.link)
        /\ \A j \in 1..Len(list) : list[j] \in Visible => LinkOf(s.link, s.exported, g, list, j)
    BY <1>2, <1>19 DEF ShownSoFar
  <2>2. ASSUME NEW p \in Paths, NEW n \in Names, n \notin gone, s.exported[p] = <<g, n>>
        PROVE  exp[p] = <<g, n>>
    <3>1. \A m \in gone : <<g, m>> # <<g, n>>
      BY <2>2
    <3>2. QED
      BY <1>11, <2>2, <3>1
  <2>3. PublishedBy(exp, g, link)
    <3>1. ASSUME NEW p \in Paths, exp[p] # NoOne
          PROVE  \E n \in InTable(link) : exp[p] = <<g, n>> /\ p = build_object_path[n]
      <4>1. /\ exp[p] = s.exported[p]
            /\ ~\E n \in gone : p = build_object_path[n] /\ s.exported[p] = <<g, n>>
        BY <1>11, <3>1
      <4>2. PICK n \in InTable(s.link) : s.exported[p] = <<g, n>> /\ p = build_object_path[n]
        BY <2>1, <3>1, <4>1 DEF PublishedBy
      <4>3. n \in InTable(link)
        BY <1>13, <4>1, <4>2
      <4>4. QED
        BY <4>1, <4>2, <4>3
    <3>2. QED
      BY <3>1 DEF PublishedBy
  <2>4. ShownOrClash(exp, g, link)
    <3>1. ASSUME NEW n \in InTable(link)
          PROVE  exp[build_object_path[n]] = <<g, n>> \/ \E m \in Names : Clash(m, n)
      <4>1. n \in InTable(s.link) /\ n \notin gone /\ n \in Names
        BY <1>13, <3>1 DEF InTable
      <4>2. build_object_path[n] \in Paths
        BY <4>1, Markers
      <4>3. s.exported[build_object_path[n]] = <<g, n>> \/ \E m \in Names : Clash(m, n)
        BY <2>1, <4>1 DEF ShownOrClash
      <4>4. QED
        BY <2>2, <4>1, <4>2, <4>3
    <3>2. QED
      BY <3>1 DEF ShownOrClash
  <2>5. ASSUME NEW n \in InTable(link)
        PROVE  /\ link[n] \in Paths =>
                    \E m \in {PoolOf[n]} \cup {k \in Names : Clash(k, PoolOf[n])} :
                      exp[link[n]] = <<g, m>>
               /\ link[n] = Root => ~ListedBefore(list, PoolOf[n], n)
               /\ link[n] = Unset => \E m \in Names : Clash(m, PoolOf[n])
    <3>1. n \in ToSet(list) /\ n \in Visible /\ n \in Names
      BY <1>14, <1>17, ListFacts
    <3>2. n \notin gone /\ link[n] = s.link[n]
      BY <1>3, <1>5, <3>1
    <3>3. \A j \in 1..Len(list) : list[j] = n => LinkOf(s.link, s.exported, g, list, j)
      BY <2>1, <3>1
    <3>4. PICK i \in 1..Len(list) : list[i] = n
      BY <3>1, ListFacts
    <3>5. ASSUME link[n] \in Paths
          PROVE  \E m \in {PoolOf[n]} \cup {k \in Names : Clash(k, PoolOf[n])} :
                      exp[link[n]] = <<g, m>>
      <4>1. PICK m \in ToSet(list) : /\ m = PoolOf[n] \/ Clash(m, PoolOf[n])
                                     /\ s.exported[link[n]] = <<g, m>>
        BY <3>2, <3>3, <3>4, <3>5 DEF LinkOf
      <4>2. m \in Names /\ m \notin gone
        BY <1>3, ListFacts
      <4>3. exp[link[n]] = <<g, m>>
        BY <2>2, <3>5, <4>1, <4>2
      <4>4. QED
        BY <4>1, <4>2, <4>3
    <3>6. ASSUME link[n] = Root, ListedBefore(list, PoolOf[n], n) PROVE FALSE
      <4>1. PICK k, j \in DOMAIN list : k < j /\ list[k] = PoolOf[n] /\ list[j] = n
        BY <3>6 DEF ListedBefore
      <4>2. j \in 1..Len(list) /\ k \in 1..(j - 1)
        BY <4>1, ListFacts
      <4>3. LinkOf(s.link, s.exported, g, list, j)
        BY <3>3, <4>1, <4>2
      <4>4. QED
        BY <3>2, <3>6, <4>1, <4>2, <4>3 DEF LinkOf
    <3>7. link[n] = Unset => \E m \in Names : Clash(m, PoolOf[n])
      BY <3>2, <3>3, <3>4 DEF LinkOf
    <3>8. QED
      BY <3>5, <3>6, <3>7
  <2>6. LinksLead(link, exp, g, list)
    BY <2>5 DEF LinksLead
  <2>7. QED
    BY <2>3, <2>4, <2>6
<1>20. VolumesUpdated(st, r, g, public, list)
  BY <1>9, <1>12, <1>17, <1>18, <1>19 DEF VolumesUpdated
<1>21. QED
  BY <1>7, <1>20

-----------------------------------------------------------------------------
\* The loop of poll_with_variant.

\* The poll updates volumes that are in the table: none is added or published,
\* and if the links led to the pools before they do so after it, for the info
\* that the table was made from and not the poll's own list.
PolledSoFar(s, st, g, info) ==
  /\ InTable(s.link) = InTable(st.link)
  /\ s.exported = st.exported
  /\ ShownOrClash(st.exported, g, st.link) /\ LinksLead(st.link, st.exported, g, info) =>
       LinksLead(s.link, s.exported, g, info)

\* A step of the loop.
LEMMA PollOne ==
  ASSUME NEW st \in LoopState, NEW g \in Groups, NEW public \in BOOLEAN, NEW info \in Lists,
         NEW s \in LoopState, NEW n \in InTable(st.link),
         InTable(st.link) = ToSet(info) \ Reserved,
         PolledSoFar(s, st, g, info)
  PROVE  /\ storage_logical_volume_update(s, g, public, n) \in LoopState
         /\ PolledSoFar(storage_logical_volume_update(s, g, public, n), st, g, info)
<1>1. PICK t : t = storage_logical_volume_update(s, g, public, n)
  OBVIOUS
<1>2. n \in Names /\ n \in InTable(s.link) /\ InTable(s.link) = InTable(st.link)
  BY DEF InTable, PolledSoFar
<1>3. Updated(s, t, g, public, n)
  BY <1>1, <1>2, UpdateOne
<1>4. t \in LoopState /\ InTable(t.link) = InTable(st.link) /\ t.exported = st.exported
  BY <1>2, <1>3 DEF Updated, PolledSoFar
<1>5. ASSUME ShownOrClash(st.exported, g, st.link), LinksLead(st.link, st.exported, g, info)
      PROVE  LinksLead(t.link, t.exported, g, info)
  <2>1. LinksLead(s.link, s.exported, g, info) /\ s.exported = st.exported
    BY <1>5 DEF PolledSoFar
  <2>2. ASSUME NEW m \in InTable(t.link)
        PROVE  /\ t.link[m] \in Paths =>
                    \E o \in {PoolOf[m]} \cup {k \in Names : Clash(k, PoolOf[m])} :
                      t.exported[t.link[m]] = <<g, o>>
               /\ t.link[m] = Root => ~ListedBefore(info, PoolOf[m], m)
               /\ t.link[m] = Unset => \E o \in Names : Clash(o, PoolOf[m])
    <3>1. m \in InTable(s.link) /\ m \in Names
      BY <1>2, <1>4, <2>2 DEF InTable
    <3>2. CASE m # n
      <4>1. t.link[m] = s.link[m] /\ t.exported = s.exported
        BY <1>3, <1>4, <2>1, <3>1, <3>2 DEF Updated
      <4>2. QED
        BY <2>1, <3>1, <4>1 DEF LinksLead
    <3>3. CASE m = n
      <4>1. t.link[m] = pool_objpath(s, g, m)
        BY <1>3, <3>3 DEF Updated
      <4>2. ASSUME t.link[m] \in Paths
            PROVE  t.exported[t.link[m]] = <<g, PoolOf[m]>>
        <5>1. pool_objpath(s, g, m) \in Paths
          BY <4>1, <4>2
        <5>2. /\ pool_objpath(s, g, m) = build_object_path[PoolOf[m]]
              /\ s.exported[build_object_path[PoolOf[m]]] = <<g, PoolOf[m]>>
          BY <3>1, <5>1, PoolLink
        <5>3. QED
          BY <1>4, <2>1, <4>1, <5>2
      <4>3. ASSUME t.link[m] = Root PROVE ~ListedBefore(info, PoolOf[m], m)
        <5>1. pool_objpath(s, g, m) = Root
          BY <4>1, <4>3
        <5>2. PoolOf[m] \notin InTable(s.link)
          BY <3>1, <5>1, PoolLink
        <5>3. PoolOf[m] \notin ToSet(info)
          BY <1>2, <3>1, <5>2, NamesAssumption, ListFacts, Markers
        <5>4. QED
          BY <5>3, ListFacts DEF ListedBefore
      <4>4. ASSUME t.link[m] = Unset PROVE \E o \in Names : Clash(o, PoolOf[m])
        <5>1. pool_objpath(s, g, m) = Unset
          BY <4>1, <4>4
        <5>2. /\ PoolOf[m] \in InTable(s.link)
              /\ s.exported[build_object_path[PoolOf[m]]] # <<g, PoolOf[m]>>
          BY <3>1, <5>1, PoolLink
        <5>3. QED
          BY <1>2, <1>5, <2>1, <5>2 DEF ShownOrClash
      <4>5. QED
        BY <4>2, <4>3, <4>4
    <3>4. QED
      BY <3>2, <3>3
  <2>3. QED
    BY <2>2 DEF LinksLead
<1>6. PolledSoFar(t, st, g, info)
  BY <1>4, <1>5 DEF PolledSoFar
<1>7. QED
  BY <1>1, <1>4, <1>6

\* What a poll leaves.
LEMMA LoopPolls ==
  ASSUME NEW st \in LoopState, NEW g \in Groups, NEW public \in BOOLEAN,
         NEW list \in Lists, NEW info \in Lists,
         InTable(st.link) = ToSet(info) \ Reserved
  PROVE  /\ update_listed(st, g, public, list, InTable(st.link)) \in LoopState
         /\ PolledSoFar(update_listed(st, g, public, list, InTable(st.link)), st, g, info)
<1> DEFINE Q == {s \in LoopState : PolledSoFar(s, st, g, info)}
           S == [i \in 0..Len(list) |-> Q]
<1>1. Len(list) \in Nat
  BY ListFacts
<1>2. st \in Q
  BY DEF PolledSoFar
<1>3. ASSUME NEW i \in 1..Len(list), NEW s \in Q
      PROVE  ListedStep(s, g, public, list, InTable(st.link), i) \in Q
  <2>1. CASE list[i] \notin InTable(st.link)
    BY <1>3, <2>1 DEF ListedStep
  <2>2. CASE list[i] \in InTable(st.link)
    <3>1. PICK n \in InTable(st.link) : n = list[i]
      BY <2>2
    <3>2. storage_logical_volume_update(s, g, public, n) \in Q
      BY <1>3, PollOne
    <3>3. QED
      BY <2>2, <3>1, <3>2 DEF ListedStep
  <2>3. QED
    BY <2>1, <2>2
<1> HIDE DEF Q
<1>4. st \in S[0]
  BY <1>1, <1>2
<1>5. \A i \in 1..Len(list) : \A s \in S[i - 1] :
        ListedStep(s, g, public, list, InTable(st.link), i) \in S[i]
  <2>1. \A i \in 1..Len(list) : S[i] = Q /\ S[i - 1] = Q
    BY <1>1
  <2> HIDE DEF S
  <2>2. QED
    BY <1>3, <2>1
<1>6. S[Len(list)] = Q
  BY <1>1
<1> HIDE DEF S
<1>7. update_listed(st, g, public, list, InTable(st.link)) \in S[Len(list)]
  BY <1>1, <1>4, <1>5, LoopInvariant
<1>8. QED
  BY <1>6, <1>7 DEF Q

-----------------------------------------------------------------------------
\* Records and steps that several actions share.

StateTypes ==
  /\ show \in [Groups -> HelperRecord] /\ poll \in HelperRecord
  /\ group \in [Groups -> GroupRecord]
  /\ exported \in Exports
  /\ dm \in [Blocks -> DeviceNames]
  /\ block \in [Blocks -> Paths \cup {Absent, Unset, Root}]
  /\ by \in [Blocks -> (Groups \X DeviceNames) \cup {NoOne}]
  /\ table \in Groups \cup {0} /\ last \in 0..MaxUpdates

\* The types that the steps below start from.
LEMMA TypeOKImplies == TypeOK => StateTypes
BY DEF TypeOK, StateTypes, Exports

\* The fields of an object.
LEMMA GroupFields ==
  ASSUME NEW r \in GroupRecord
  PROVE  /\ r.need_publish \in BOOLEAN /\ r.published \in BOOLEAN /\ r.known \in BOOLEAN
         /\ r.info \in Lists /\ r.kept \in BOOLEAN /\ r.link \in Links
BY DEF GroupRecord, Links

\* An object that is not created yet has no volume.
LEMMA NewGroupFields ==
  /\ NewGroup \in GroupRecord /\ Public(NewGroup)
  /\ NewGroup.info = <<>> /\ InTable(NewGroup.link) = {}
  /\ ToSet(<<>>) = {}
<1>1. <<>> \in Lists
  BY ListsAssumption
<1>2. PICK link : link = [n \in Names |-> Absent]
  OBVIOUS
<1>3. link \in Links /\ InTable(link) = {}
  BY <1>2 DEF Links, InTable
<1>4. NewGroup = [need_publish |-> TRUE, published |-> FALSE, known |-> FALSE, info |-> <<>>,
                  kept |-> FALSE, link |-> link]
  BY <1>2 DEF NewGroup
<1>5. NewGroup \in GroupRecord /\ Public(NewGroup) /\ NewGroup.info = <<>> /\ NewGroup.link = link
  BY <1>1, <1>3, <1>4 DEF GroupRecord, Links, Public
<1>6. ToSet(<<>>) = {}
  BY DEF ToSet
<1>7. QED
  BY <1>3, <1>5, <1>6

\* A disposed object has no volume and is not published again.
LEMMA DisposedFields ==
  ASSUME NEW r \in GroupRecord
  PROVE  /\ disposed(r) \in GroupRecord /\ ~Public(disposed(r))
         /\ disposed(r).info = <<>> /\ InTable(disposed(r).link) = {}
<1>1. <<>> \in Lists
  BY ListsAssumption
<1>2. PICK link : link = [n \in Names |-> Absent]
  OBVIOUS
<1>3. link \in Links /\ InTable(link) = {}
  BY <1>2 DEF Links, InTable
<1>4. disposed(r) = [r EXCEPT !.need_publish = FALSE, !.published = FALSE, !.known = FALSE,
                              !.info = <<>>, !.link = link]
  BY <1>2 DEF disposed
<1>5. /\ disposed(r) \in GroupRecord /\ ~Public(disposed(r))
      /\ disposed(r).info = <<>> /\ disposed(r).link = link
  BY <1>1, <1>3, <1>4 DEF GroupRecord, Links, Public
<1>6. QED
  BY <1>3, <1>5

\* An answer that is dropped publishes the object at most.
LEMMA PublishedOnceFields ==
  ASSUME NEW r \in GroupRecord
  PROVE  /\ published_once(r) \in GroupRecord
         /\ Public(published_once(r)) <=> Public(r)
         /\ published_once(r).info = r.info /\ published_once(r).link = r.link
<1>1. PICK q \in BOOLEAN : q = (r.published \/ r.need_publish)
  OBVIOUS
<1>2. published_once(r) = [r EXCEPT !.need_publish = FALSE, !.published = q]
  BY <1>1 DEF published_once, GroupRecord
<1>3. /\ published_once(r) \in GroupRecord
      /\ published_once(r).published = q /\ published_once(r).need_publish = FALSE
      /\ published_once(r).info = r.info /\ published_once(r).link = r.link
  BY <1>2 DEF GroupRecord
<1>4. QED
  BY <1>1, <1>3 DEF Public

\* The helpers.
LEMMA HelperFields ==
  /\ NoHelper \in HelperRecord /\ NoHelper.stage = "none" /\ NoHelper.group = 0
  /\ \A h \in HelperRecord :
       /\ h.stage \in {"none", "asked", "answered", "failed"}
       /\ h.group \in Groups \cup {0} /\ h.info \in Lists
<1>1. <<>> \in Lists
  BY ListsAssumption
<1>2. QED
  BY <1>1 DEF NoHelper, HelperRecord

\* A list or show that is asked for an object.
LEMMA AskedFields ==
  ASSUME NEW g \in Groups
  PROVE  /\ [NoHelper EXCEPT !.stage = "asked", !.group = g] \in HelperRecord
         /\ [NoHelper EXCEPT !.stage = "asked", !.group = g].stage = "asked"
         /\ [NoHelper EXCEPT !.stage = "asked", !.group = g].group = g
<1>1. NoHelper \in HelperRecord
  BY HelperFields
<1>2. QED
  BY <1>1 DEF HelperRecord

\* An answer is for the object that was asked about.
LEMMA AnswersFields ==
  ASSUME NEW h \in HelperRecord, NEW a \in Answers(h), lvs \in Lists
  PROVE  /\ a \in HelperRecord /\ a.group = h.group
         /\ a.stage \in {"answered", "failed"}
<1>1. CASE a = [h EXCEPT !.stage = "failed"]
  BY <1>1 DEF HelperRecord
<1>2. CASE a = [h EXCEPT !.stage = "answered", !.info = lvs]
  BY <1>2 DEF HelperRecord
<1>3. QED
  BY <1>1, <1>2 DEF Answers

\* What update_all_blocks makes of the overlays.
AllBlocksUpdated(g) ==
  \A b \in Blocks :
    /\ block[b] = Absent => block'[b] = Absent /\ by'[b] = by[b]
    /\ block[b] # Absent =>
         /\ by'[b] = <<g, dm[b]>>
         /\ dm[b] # Other => OverlayShows(block', b, exported', g, group'[g].link, dm[b])

\* update_all_blocks keeps the types, and every overlay that is there shows the
\* volume that the device has the name of.
LEMMA AllBlocks ==
  ASSUME StateTypes, NEW g \in Groups, update_all_blocks(g)
  PROVE  /\ block' \in [Blocks -> Paths \cup {Absent, Unset, Root}]
         /\ by' \in [Blocks -> (Groups \X DeviceNames) \cup {NoOne}]
         /\ AllBlocksUpdated(g)
<1>1. PICK link, exp : link = group'[g].link /\ exp = exported'
  OBVIOUS
<1>2. /\ block' = storage_block_update_lv(block, g, link, exp)
      /\ by' = [b \in Blocks |-> IF block[b] = Absent THEN by[b] ELSE <<g, dm[b]>>]
  BY <1>1 DEF update_all_blocks
<1>3. block' = [b \in Blocks |-> IF block[b] = Absent \/ dm[b] = Other THEN block[b]
                                 ELSE IF dm[b] \notin InTable(link) THEN Root
                                 ELSE object_path(exp, g, dm[b])]
  BY <1>2 DEF storage_block_update_lv
<1>4. ASSUME NEW b \in Blocks
      PROVE  /\ block'[b] \in Paths \cup {Absent, Unset, Root}
             /\ by'[b] \in (Groups \X DeviceNames) \cup {NoOne}
             /\ block[b] = Absent => block'[b] = Absent /\ by'[b] = by[b]
             /\ block[b] # Absent =>
                  /\ by'[b] = <<g, dm[b]>>
                  /\ dm[b] # Other => OverlayShows(block', b, exp, g, link, dm[b])
  <2>1. /\ block[b] \in Paths \cup {Absent, Unset, Root} /\ dm[b] \in DeviceNames
        /\ by[b] \in (Groups \X DeviceNames) \cup {NoOne}
    BY DEF StateTypes
  <2>2. dm[b] \in InTable(link) => object_path(exp, g, dm[b]) \in Paths \cup {Unset}
    BY ObjectPath, InTableOf
  <2>3. /\ block[b] = Absent \/ dm[b] = Other => block'[b] = block[b]
        /\ ~(block[b] = Absent \/ dm[b] = Other) =>
             block'[b] = IF dm[b] \in InTable(link) THEN object_path(exp, g, dm[b]) ELSE Root
    BY <1>3
  <2>4. by'[b] = IF block[b] = Absent THEN by[b] ELSE <<g, dm[b]>>
    BY <1>2
  <2>5. block'[b] \in Paths \cup {Absent, Unset, Root}
    BY <2>1, <2>2, <2>3
  <2>6. by'[b] \in (Groups \X DeviceNames) \cup {NoOne}
    BY <2>1, <2>4
  <2>7. block[b] # Absent /\ dm[b] # Other => OverlayShows(block', b, exp, g, link, dm[b])
    BY <2>3 DEF OverlayShows
  <2>8. QED
    BY <2>3, <2>4, <2>5, <2>6, <2>7
<1>5. block' \in [Blocks -> Paths \cup {Absent, Unset, Root}]
  BY <1>3, <1>4
<1>6. by' \in [Blocks -> (Groups \X DeviceNames) \cup {NoOne}]
  BY <1>2, <1>4
<1>7. QED
  BY <1>1, <1>4, <1>5, <1>6 DEF AllBlocksUpdated

\* Nothing is published by an object that is not in the table.
LEMMA OthersPublishNothing ==
  ASSUME StateTypes, ExportedByTheTable, NEW g \in Groups, g # table
  PROVE  \A p \in Paths, n \in Names : exported[p] # <<g, n>>
<1>1. SUFFICES ASSUME NEW p \in Paths, NEW n \in Names, exported[p] = <<g, n>> PROVE FALSE
  OBVIOUS
<1>2. exported[p] # NoOne
  BY <1>1, Markers
<1>3. table # 0 /\ PublishedBy(exported, table, group[table].link)
  BY <1>2 DEF ExportedByTheTable
<1>4. PICK m \in InTable(group[table].link) : exported[p] = <<table, m>>
  BY <1>2, <1>3 DEF PublishedBy
<1>5. QED
  BY <1>1, <1>4

\* Hence disposing such an object takes no path away.
LEMMA DisposeOther ==
  ASSUME StateTypes, ExportedByTheTable, NEW g \in Groups, g # table,
         storage_volume_group_dispose(g)
  PROVE  exported' = exported
<1>1. PICK gone : gone = InTable(group[g].link)
  OBVIOUS
<1>2. gone \in SUBSET Names /\ exported \in Exports
  BY <1>1 DEF InTable, StateTypes
<1>3. exported' = storage_logical_volume_dispose(exported, g, gone)
  BY <1>1 DEF storage_volume_group_dispose
<1>4. /\ exported' \in Exports
      /\ \A p \in Paths : exported'[p] =
           IF \E n \in gone : p = build_object_path[n] /\ exported[p] = <<g, n>>
           THEN NoOne ELSE exported[p]
  BY <1>2, <1>3, Dispose
<1>5. \A p \in Paths : exported'[p] = exported[p]
  BY <1>2, <1>4, OthersPublishNothing
<1>6. QED
  BY <1>2, <1>4, <1>5 DEF Exports

\* A step of an object that is not in the table, which publishes nothing.
LEMMA OtherStep ==
  ASSUME StateTypes, ExportedByTheTable, LinksLeadToThePool, OverlaysOfTheTable,
         NEW g \in Groups, g # table, table' = table, exported' = exported,
         \A k \in Groups : k # g => group'[k] = group[k],
         UNCHANGED <<block, by>> \/ AllBlocksUpdated(g)
  PROVE  ExportedByTheTable' /\ LinksLeadToThePool' /\ OverlaysOfTheTable'
<1>1. table # 0 => group'[table] = group[table]
  BY DEF StateTypes
<1>2. ExportedByTheTable'
  BY <1>1 DEF ExportedByTheTable
<1>3. LinksLeadToThePool'
  BY <1>1 DEF LinksLeadToThePool
<1>4. ASSUME NEW b \in Blocks, block'[b] # Absent, table # 0, by'[b][1] = table,
             by'[b][2] # Other
      PROVE  OverlayShows(block', b, exported, table, group[table].link, by'[b][2])
  <2>1. CASE UNCHANGED <<block, by>>
    BY <1>4, <2>1 DEF OverlaysOfTheTable
  <2>2. CASE AllBlocksUpdated(g)
    <3>1. block[b] # Absent
      BY <1>4, <2>2 DEF AllBlocksUpdated
    <3>2. by'[b] = <<g, dm[b]>>
      BY <2>2, <3>1 DEF AllBlocksUpdated
    <3>3. QED
      BY <1>4, <3>2
  <2>3. QED
    BY <2>1, <2>2
<1>5. OverlaysOfTheTable'
  BY <1>1, <1>4 DEF OverlaysOfTheTable
<1>6. QED
  BY <1>2, <1>3, <1>5

\* A step that changes one object, and takes answers at most from those under
\* way.
LEMMA ObjectStep ==
  ASSUME StateTypes, TablesMatchInfo, NothingAheadOfLast, OnlyTheTableIsPublic,
         NEW g \in Groups, g <= last, NEW r \in GroupRecord,
         group' = [group EXCEPT ![g] = r],
         InTable(r.link) = ToSet(r.info) \ Reserved,
         Public(r) <=> g = table,
         table' = table, last' = last,
         poll'.group \in {0, poll.group},
         \A u \in Groups : show'[u].group \in {0, show[u].group},
         UNCHANGED by \/ AllBlocksUpdated(g)
  PROVE  TablesMatchInfo' /\ NothingAheadOfLast' /\ OnlyTheTableIsPublic'
<1>1. group'[g] = r /\ \A k \in Groups : k # g => group'[k] = group[k]
  BY DEF StateTypes
<1>2. TablesMatchInfo'
  BY <1>1 DEF TablesMatchInfo
<1>3. NothingAheadOfLast'
  <2>1. last \in Nat /\ table \in Nat /\ g \in Nat
    BY BoundsAssumption DEF StateTypes, Groups
  <2>2. table' <= last' /\ poll'.group <= last'
    BY <2>1 DEF NothingAheadOfLast
  <2>3. \A u \in Groups : show'[u].group <= last'
    BY <2>1 DEF NothingAheadOfLast
  <2>4. \A b \in Blocks : by'[b][1] <= last'
    <3>1. CASE UNCHANGED by
      BY <3>1 DEF NothingAheadOfLast
    <3>2. CASE AllBlocksUpdated(g)
      <4>1. \A b \in Blocks : by'[b] = by[b] \/ by'[b] = <<g, dm[b]>>
        BY <3>2 DEF AllBlocksUpdated
      <4>2. QED
        BY <4>1 DEF NothingAheadOfLast
    <3>3. QED
      BY <3>1, <3>2
  <2>5. \A k \in Groups : k > last' => group'[k] = NewGroup
    <3>1. ASSUME NEW k \in Groups, k > last PROVE k # g /\ group[k] = NewGroup
      BY <2>1, <3>1 DEF NothingAheadOfLast
    <3>2. QED
      BY <1>1, <3>1
  <2>6. QED
    BY <2>2, <2>3, <2>4, <2>5 DEF NothingAheadOfLast
<1>4. OnlyTheTableIsPublic'
  <2>1. ASSUME NEW k \in Groups, k # table, ~Public(group[k]) PROVE ~Public(group'[k])
    BY <1>1, <2>1
  <2>2. table # 0 => Public(group'[table])
    BY <1>1 DEF OnlyTheTableIsPublic, StateTypes
  <2>3. ASSUME NEW k \in Groups \cup {0}, k \in {0, table} \/ ~Public(group[k])
        PROVE  k \in {0, table} \/ ~Public(group'[k])
    BY <2>1, <2>3
  <2>4. poll'.group \in {0, table'} \/ ~Public(group'[poll'.group])
    <3>1. poll.group \in Groups \cup {0}
      BY HelperFields DEF StateTypes
    <3>2. QED
      BY <2>3, <3>1 DEF OnlyTheTableIsPublic
  <2>5. ASSUME NEW u \in Groups
        PROVE  show'[u].group \in {0, table'} \/ ~Public(group'[show'[u].group])
    <3>1. show[u].group \in Groups \cup {0}
      BY HelperFields DEF StateTypes
    <3>2. QED
      BY <2>3, <3>1 DEF OnlyTheTableIsPublic
  <2>6. QED
    BY <2>2, <2>4, <2>5 DEF OnlyTheTableIsPublic
<1>5. QED
  BY <1>2, <1>3, <1>4

-----------------------------------------------------------------------------
\* The actions.

Counters ==
  /\ vg \in BOOLEAN /\ lvs \in Lists /\ changes \in 0..MaxChanges
  /\ polls \in 0..MaxPolls /\ renames \in 0..MaxRenames

HelpersNameAGroup ==
  /\ poll.stage = "none" <=> poll.group = 0
  /\ \A u \in Groups : show[u].stage = "none" <=> show[u].group = 0

\* TypeOK in three parts, before and after a step.
LEMMA TypeParts ==
  /\ TypeOK <=> StateTypes /\ Counters /\ HelpersNameAGroup
  /\ TypeOK' <=> StateTypes' /\ Counters' /\ HelpersNameAGroup'
BY DEF TypeOK, StateTypes, Counters, HelpersNameAGroup, Exports

Core ==
  /\ TablesMatchInfo /\ NothingAheadOfLast /\ OnlyTheTableIsPublic
  /\ ExportedByTheTable /\ LinksLeadToThePool /\ OverlaysOfTheTable

\* LVM and udev change nothing that the daemon keeps.
LEMMA OutsideStep ==
  ASSUME IndInv,
         \/ \E exists \in BOOLEAN, list \in Lists : MetadataChanges(exists, list)
         \/ \E b \in Blocks, n \in DeviceNames : DeviceRenamed(b, n)
  PROVE  IndInv'
<1>1. StateTypes /\ Counters /\ HelpersNameAGroup
  BY TypeParts DEF IndInv
<1>2. UNCHANGED <<last, show, poll, table, group, exported, block, by>>
  BY DEF MetadataChanges, DeviceRenamed
<1>3. Core'
  BY <1>2 DEF IndInv, Core, TablesMatchInfo, NothingAheadOfLast, OnlyTheTableIsPublic,
              ExportedByTheTable, LinksLeadToThePool, OverlaysOfTheTable
<1>4. HelpersNameAGroup'
  BY <1>1, <1>2 DEF HelpersNameAGroup
<1>5. Counters' /\ dm' \in [Blocks -> DeviceNames]
  <2>1. CASE \E exists \in BOOLEAN, list \in Lists : MetadataChanges(exists, list)
    BY <1>1, <2>1, BoundsAssumption DEF MetadataChanges, Counters, StateTypes, udevVars
  <2>2. CASE \E b \in Blocks, n \in DeviceNames : DeviceRenamed(b, n)
    BY <1>1, <2>2, BoundsAssumption DEF DeviceRenamed, Counters, StateTypes, lvmVars
  <2>3. QED
    BY <2>1, <2>2
<1>6. StateTypes'
  BY <1>1, <1>2, <1>5 DEF StateTypes
<1>7. QED
  BY <1>3, <1>4, <1>5, <1>6, TypeParts DEF IndInv, Core

\* The helper's answers.
LEMMA AnswerStep ==
  ASSUME IndInv, show_for_poll \/ \E u \in Groups : show_volume_group(u)
  PROVE  IndInv'
<1>1. StateTypes /\ Counters /\ HelpersNameAGroup
  BY TypeParts DEF IndInv
<1>2. UNCHANGED <<vg, lvs, changes, last, polls, table, group, exported, dm, renames, block, by>>
  BY DEF show_for_poll, show_volume_group, lvmVars, udevVars
<1>3. lvs \in Lists
  BY <1>1 DEF Counters
<1>4. /\ poll' \in HelperRecord /\ poll'.group = poll.group
      /\ poll'.stage = "none" <=> poll.stage = "none"
  <2>1. CASE show_for_poll
    <3>1. poll' \in Answers(poll) /\ poll \in HelperRecord /\ poll.stage = "asked"
      BY <1>1, <2>1 DEF show_for_poll, StateTypes
    <3>2. QED
      BY <1>3, <3>1, AnswersFields
  <2>2. CASE \E u \in Groups : show_volume_group(u)
    BY <1>1, <2>2 DEF show_volume_group, StateTypes
  <2>3. QED
    BY <2>1, <2>2
<1>5. /\ show' \in [Groups -> HelperRecord]
      /\ \A u \in Groups : /\ show'[u].group = show[u].group
                           /\ show'[u].stage = "none" <=> show[u].stage = "none"
  <2>1. CASE show_for_poll
    BY <1>1, <2>1 DEF show_for_poll, StateTypes
  <2>2. ASSUME NEW u \in Groups, show_volume_group(u)
        PROVE  /\ show' \in [Groups -> HelperRecord]
               /\ \A v \in Groups : /\ show'[v].group = show[v].group
                                    /\ show'[v].stage = "none" <=> show[v].stage = "none"
    <3>1. PICK h \in Answers(show[u]) : show' = [show EXCEPT ![u] = h]
      BY <2>2 DEF show_volume_group
    <3>2. show \in [Groups -> HelperRecord] /\ show[u].stage = "asked"
      BY <1>1, <2>2 DEF show_volume_group, StateTypes
    <3>3. h \in HelperRecord /\ h.group = show[u].group /\ h.stage \in {"answered", "failed"}
      BY <1>3, <3>2, AnswersFields
    <3>4. QED
      BY <3>1, <3>2, <3>3
  <2>3. QED
    BY <2>1, <2>2
<1>6. StateTypes'
  BY <1>1, <1>2, <1>4, <1>5 DEF StateTypes
<1>7. Counters' /\ HelpersNameAGroup'
  BY <1>1, <1>2, <1>4, <1>5 DEF Counters, HelpersNameAGroup
<1>8. TablesMatchInfo' /\ ExportedByTheTable' /\ LinksLeadToThePool' /\ OverlaysOfTheTable'
  BY <1>2 DEF IndInv, TablesMatchInfo, ExportedByTheTable, LinksLeadToThePool,
              OverlaysOfTheTable
<1>9. NothingAheadOfLast' /\ OnlyTheTableIsPublic'
  BY <1>2, <1>4, <1>5 DEF IndInv, NothingAheadOfLast, OnlyTheTableIsPublic
<1>10. QED
  BY <1>6, <1>7, <1>8, <1>9, TypeParts DEF IndInv

\* A poll is started for the object in the table.
LEMMA PollNowStep ==
  ASSUME IndInv, poll_now
  PROVE  IndInv'
<1>1. StateTypes /\ Counters /\ HelpersNameAGroup
  BY TypeParts DEF IndInv
<1>2. UNCHANGED <<vg, lvs, changes, last, show, table, group, exported, dm, renames, block, by>>
  BY DEF poll_now, lvmVars, udevVars
<1>3. table \in Groups
  BY <1>1 DEF poll_now, StateTypes
<1>4. poll' \in HelperRecord /\ poll'.stage = "asked" /\ poll'.group = table
  BY <1>3, AskedFields DEF poll_now
<1>5. table # 0
  BY DEF poll_now
<1>6. StateTypes'
  BY <1>1, <1>2, <1>4 DEF StateTypes
<1>7. Counters' /\ HelpersNameAGroup'
  BY <1>1, <1>2, <1>4, <1>5, BoundsAssumption DEF Counters, HelpersNameAGroup, poll_now
<1>8. TablesMatchInfo' /\ ExportedByTheTable' /\ LinksLeadToThePool' /\ OverlaysOfTheTable'
  BY <1>2 DEF IndInv, TablesMatchInfo, ExportedByTheTable, LinksLeadToThePool,
              OverlaysOfTheTable
<1>9. NothingAheadOfLast' /\ OnlyTheTableIsPublic'
  BY <1>2, <1>4 DEF IndInv, NothingAheadOfLast, OnlyTheTableIsPublic
<1>10. QED
  BY <1>6, <1>7, <1>8, <1>9, TypeParts DEF IndInv

\* The manager's list has the group: if there is no object for it, the one that
\* is made has no volume, and no overlay was updated by it.
LEMMA ListsStep ==
  ASSUME IndInv, lvm_update_lists
  PROVE  IndInv'
<1>1. StateTypes /\ Counters /\ HelpersNameAGroup
  BY TypeParts DEF IndInv
<1>2. /\ UNCHANGED <<vg, lvs, changes, polls, poll, group, exported, dm, renames, block, by>>
      /\ last < MaxUpdates /\ last' = last + 1
      /\ table' = IF table = 0 THEN last + 1 ELSE table
  BY DEF lvm_update_lists, lvmVars, udevVars
<1>3. last \in Nat /\ table \in Nat /\ last' \in Groups /\ last' > last /\ last' \in 0..MaxUpdates
  BY <1>1, <1>2, BoundsAssumption DEF StateTypes, Groups
<1>4. table' \in Groups /\ table' <= last' /\ table' # 0
  BY <1>1, <1>2, <1>3, BoundsAssumption DEF StateTypes, Groups, IndInv, NothingAheadOfLast
<1>5. PICK h : h = [NoHelper EXCEPT !.stage = "asked", !.group = table']
  OBVIOUS
<1>6. h \in HelperRecord /\ h.stage = "asked" /\ h.group = table'
  BY <1>4, <1>5, AskedFields
<1>7. show' = [show EXCEPT ![last'] = h]
  BY <1>2, <1>5 DEF lvm_update_lists
<1>8. /\ show' \in [Groups -> HelperRecord]
      /\ \A u \in Groups : show'[u] = h \/ show'[u] = show[u]
  BY <1>1, <1>3, <1>6, <1>7 DEF StateTypes
<1>9. StateTypes'
  BY <1>1, <1>2, <1>3, <1>4, <1>8 DEF StateTypes
<1>10. Counters' /\ HelpersNameAGroup'
  BY <1>1, <1>2, <1>4, <1>6, <1>8 DEF Counters, HelpersNameAGroup
<1>11. TablesMatchInfo'
  BY <1>2 DEF IndInv, TablesMatchInfo
<1>12. NothingAheadOfLast'
  <2>1. \A u \in Groups : show[u].group \in Nat
    BY <1>1, HelperFields, BoundsAssumption DEF StateTypes, Groups
  <2>2. \A u \in Groups : show'[u].group <= last'
    BY <1>2, <1>3, <1>4, <1>6, <1>8, <2>1 DEF IndInv, NothingAheadOfLast
  <2>3. poll'.group <= last'
    <3>1. poll.group \in Nat
      BY <1>1, HelperFields, BoundsAssumption DEF StateTypes, Groups
    <3>2. QED
      BY <1>2, <1>3, <3>1 DEF IndInv, NothingAheadOfLast
  <2>4. \A b \in Blocks : by'[b][1] <= last'
    <3>1. ASSUME NEW b \in Blocks PROVE by[b][1] \in Nat
      <4>1. by[b] \in (Groups \X DeviceNames) \cup {NoOne}
        BY <1>1 DEF StateTypes
      <4>2. QED
        BY <4>1, BoundsAssumption DEF NoOne, Groups
    <3>2. QED
      BY <1>2, <1>3, <3>1 DEF IndInv, NothingAheadOfLast
  <2>5. ASSUME NEW g \in Groups, g > last' PROVE group'[g] = NewGroup
    <3>1. g > last
      BY <1>3, <2>5, BoundsAssumption DEF Groups
    <3>2. QED
      BY <1>2, <3>1 DEF IndInv, NothingAheadOfLast
  <2>6. QED
    BY <1>4, <2>2, <2>3, <2>4, <2>5 DEF NothingAheadOfLast
<1>13. CASE table # 0
  <2>1. table' = table
    BY <1>2, <1>13
  <2>2. ExportedByTheTable' /\ LinksLeadToThePool' /\ OverlaysOfTheTable'
    BY <1>2, <2>1 DEF IndInv, ExportedByTheTable, LinksLeadToThePool, OverlaysOfTheTable
  <2>3. OnlyTheTableIsPublic'
    BY <1>2, <1>6, <1>8, <2>1 DEF IndInv, OnlyTheTableIsPublic
  <2>4. QED
    BY <1>9, <1>10, <1>11, <1>12, <2>2, <2>3, TypeParts DEF IndInv
<1>14. CASE table = 0
  <2>1. table' = last' /\ group'[table'] = NewGroup
    BY <1>2, <1>3, <1>14 DEF IndInv, NothingAheadOfLast
  <2>2. InTable(group'[table'].link) = {} /\ Public(group'[table'])
    BY <2>1, NewGroupFields
  <2>3. \A p \in Paths : exported'[p] = NoOne
    BY <1>2, <1>14 DEF IndInv, ExportedByTheTable
  <2>4. ExportedByTheTable'
    BY <1>4, <2>2, <2>3 DEF ExportedByTheTable, PublishedBy, ShownOrClash
  <2>5. LinksLeadToThePool'
    BY <2>2 DEF LinksLeadToThePool
  <2>6. \A b \in Blocks : by'[b][1] # table'
    BY <1>2, <1>3, <2>1 DEF IndInv, NothingAheadOfLast
  <2>7. OverlaysOfTheTable'
    BY <2>6 DEF OverlaysOfTheTable
  <2>8. OnlyTheTableIsPublic'
    BY <1>2, <1>6, <1>8, <1>14, <2>2 DEF IndInv, OnlyTheTableIsPublic
  <2>9. QED
    BY <1>9, <1>10, <1>11, <1>12, <2>4, <2>5, <2>7, <2>8, TypeParts DEF IndInv
<1>15. QED
  BY <1>13, <1>14

\* A new overlay shows what the object in the table has.
LEMMA AddedStep ==
  ASSUME IndInv, NEW c \in Blocks, on_udisks_interface_added(c)
  PROVE  IndInv'
<1>1. StateTypes /\ Counters /\ HelpersNameAGroup
  BY TypeParts DEF IndInv
<1>2. UNCHANGED <<vg, lvs, changes, last, show, poll, polls, table, group, exported, dm, renames>>
  BY DEF on_udisks_interface_added, lvmVars, udevVars
<1>3. TablesMatchInfo' /\ ExportedByTheTable' /\ LinksLeadToThePool' /\ OnlyTheTableIsPublic'
  BY <1>2 DEF IndInv, TablesMatchInfo, ExportedByTheTable, LinksLeadToThePool,
              OnlyTheTableIsPublic
<1>4. Counters' /\ HelpersNameAGroup'
  BY <1>1, <1>2 DEF Counters, HelpersNameAGroup
<1>5. CASE table = 0
  <2>1. block' = [block EXCEPT ![c] = Root] /\ by' = by
    BY <1>5 DEF on_udisks_interface_added
  <2>2. StateTypes'
    BY <1>1, <1>2, <2>1 DEF StateTypes
  <2>3. NothingAheadOfLast' /\ OverlaysOfTheTable'
    BY <1>2, <1>5, <2>1 DEF IndInv, NothingAheadOfLast, OverlaysOfTheTable
  <2>4. QED
    BY <1>3, <1>4, <2>2, <2>3, TypeParts DEF IndInv
<1>6. CASE table # 0
  <2>1. PICK g \in Groups : g = table
    BY <1>1, <1>6 DEF StateTypes
  <2>2. PICK link : link = group[g].link
    OBVIOUS
  <2>3. PICK v : v = storage_block_update_lv([block EXCEPT ![c] = Root], g, link, exported)[c]
    OBVIOUS
  <2>4. block' = [block EXCEPT ![c] = v] /\ by' = [by EXCEPT ![c] = <<g, dm[c]>>]
    BY <1>6, <2>1, <2>2, <2>3 DEF on_udisks_interface_added
  <2>5. /\ block \in [Blocks -> Paths \cup {Absent, Unset, Root}]
        /\ by \in [Blocks -> (Groups \X DeviceNames) \cup {NoOne}]
        /\ dm[c] \in DeviceNames
    BY <1>1 DEF StateTypes
  <2>6. v = IF dm[c] = Other THEN Root
            ELSE IF dm[c] \notin InTable(link) THEN Root
            ELSE object_path(exported, g, dm[c])
    BY <2>3, <2>5, Markers DEF storage_block_update_lv
  <2>7. v \in Paths \cup {Absent, Unset, Root}
    <3>1. dm[c] \in InTable(link) => object_path(exported, g, dm[c]) \in Paths \cup {Unset}
      BY ObjectPath, InTableOf
    <3>2. QED
      BY <2>6, <3>1
  <2>8. StateTypes'
    BY <1>1, <1>2, <2>4, <2>5, <2>7 DEF StateTypes
  <2>9. by'[c] = <<g, dm[c]>> /\ \A b \in Blocks : b # c => by'[b] = by[b] /\ block'[b] = block[b]
    BY <2>4, <2>5
  <2>10. NothingAheadOfLast'
    <3>1. \A b \in Blocks : by'[b][1] <= last
      BY <2>1, <2>9 DEF IndInv, NothingAheadOfLast
    <3>2. QED
      BY <1>2, <3>1 DEF IndInv, NothingAheadOfLast
  <2>11. OverlaysOfTheTable'
    <3>1. ASSUME NEW b \in Blocks, block'[b] # Absent, by'[b][1] = table, by'[b][2] # Other
          PROVE  OverlayShows(block', b, exported, table, group[table].link, by'[b][2])
      <4>1. CASE b = c
        <5>1. by'[b][2] = dm[c] /\ block'[b] = v /\ dm[c] # Other
          BY <2>4, <2>5, <2>9, <3>1, <4>1
        <5>2. QED
          BY <2>1, <2>2, <2>6, <5>1 DEF OverlayShows
      <4>2. CASE b # c
        <5>1. by'[b] = by[b] /\ block'[b] = block[b]
          BY <2>9, <4>2
        <5>2. OverlayShows(block, b, exported, table, group[table].link, by[b][2])
          BY <1>6, <3>1, <5>1 DEF IndInv, OverlaysOfTheTable
        <5>3. QED
          BY <5>1, <5>2 DEF OverlayShows
      <4>3. QED
        BY <4>1, <4>2
    <3>2. QED
      BY <1>2, <3>1 DEF OverlaysOfTheTable
  <2>12. QED
    BY <1>3, <1>4, <2>8, <2>10, <2>11, TypeParts DEF IndInv
<1>7. QED
  BY <1>5, <1>6

\* An overlay that goes leaves nothing behind.
LEMMA RemovedStep ==
  ASSUME IndInv, NEW c \in Blocks, on_udisks_interface_removed(c)
  PROVE  IndInv'
<1>1. StateTypes /\ Counters /\ HelpersNameAGroup
  BY TypeParts DEF IndInv
<1>2. UNCHANGED <<vg, lvs, changes, last, show, poll, polls, table, group, exported, dm, renames>>
  BY DEF on_udisks_interface_removed, lvmVars, udevVars
<1>3. TablesMatchInfo' /\ ExportedByTheTable' /\ LinksLeadToThePool' /\ OnlyTheTableIsPublic'
  BY <1>2 DEF IndInv, TablesMatchInfo, ExportedByTheTable, LinksLeadToThePool,
              OnlyTheTableIsPublic
<1>4. Counters' /\ HelpersNameAGroup'
  BY <1>1, <1>2 DEF Counters, HelpersNameAGroup
<1>5. block' = [block EXCEPT ![c] = Absent] /\ by' = [by EXCEPT ![c] = NoOne]
  BY DEF on_udisks_interface_removed
<1>6. StateTypes'
  BY <1>1, <1>2, <1>5 DEF StateTypes
<1>7. block'[c] = Absent /\ by'[c] = NoOne
  BY <1>1, <1>5 DEF StateTypes
<1>8. \A b \in Blocks : b # c => by'[b] = by[b] /\ block'[b] = block[b]
  BY <1>1, <1>5 DEF StateTypes
<1>9. NothingAheadOfLast'
  <2>1. NoOne[1] = 0 /\ 0 <= last
    BY <1>1, BoundsAssumption DEF NoOne, StateTypes
  <2>2. \A b \in Blocks : by'[b][1] <= last
    BY <1>7, <1>8, <2>1 DEF IndInv, NothingAheadOfLast
  <2>3. QED
    BY <1>2, <2>2 DEF IndInv, NothingAheadOfLast
<1>10. OverlaysOfTheTable'
  BY <1>2, <1>7, <1>8 DEF IndInv, OverlaysOfTheTable, OverlayShows
<1>11. QED
  BY <1>3, <1>4, <1>6, <1>9, <1>10, TypeParts DEF IndInv

\* An object that an answer is taken for.
LEMMA AnsweredObject ==
  ASSUME IndInv, NEW h \in HelperRecord,
         h = poll \/ \E u \in Groups : h = show[u], h.stage # "none"
  PROVE  /\ h.group \in Groups /\ h.group <= last
         /\ Public(group[h.group]) <=> h.group = table
         /\ group[h.group] \in GroupRecord /\ h.info \in Lists
<1>1. StateTypes /\ HelpersNameAGroup
  BY TypeParts DEF IndInv
<1>2. h.group \in Groups /\ h.group # 0 /\ h.info \in Lists
  BY <1>1, HelperFields, BoundsAssumption DEF HelpersNameAGroup, Groups
<1>3. h.group <= last /\ (h.group \in {0, table} \/ ~Public(group[h.group]))
  BY DEF IndInv, NothingAheadOfLast, OnlyTheTableIsPublic
<1>4. table # 0 => Public(group[table])
  BY DEF IndInv, OnlyTheTableIsPublic
<1>5. QED
  BY <1>1, <1>2, <1>3, <1>4 DEF StateTypes

\* An answer has been taken and no other variable of LVM, udev or the manager
\* changes.
AnswerTaken ==
  /\ UNCHANGED <<vg, lvs, changes, last, polls, table, dm, renames>>
  /\ show' \in [Groups -> HelperRecord] /\ poll' \in HelperRecord
  /\ poll' \in {NoHelper, poll}
  /\ \A u \in Groups : show'[u] \in {NoHelper, show[u]}

\* The types after such a step.
LEMMA AnswerTakenTypes ==
  ASSUME IndInv, AnswerTaken,
         group' \in [Groups -> GroupRecord], exported' \in Exports,
         block' \in [Blocks -> Paths \cup {Absent, Unset, Root}],
         by' \in [Blocks -> (Groups \X DeviceNames) \cup {NoOne}]
  PROVE  TypeOK'
<1>1. StateTypes /\ Counters /\ HelpersNameAGroup
  BY TypeParts DEF IndInv
<1>2. StateTypes' /\ Counters'
  BY <1>1 DEF StateTypes, Counters, AnswerTaken
<1>3. HelpersNameAGroup'
  BY <1>1, HelperFields DEF HelpersNameAGroup, AnswerTaken
<1>4. QED
  BY <1>2, <1>3, TypeParts

\* The answers left are for objects that had one under way.
LEMMA AnswerTakenGroups ==
  ASSUME AnswerTaken
  PROVE  /\ poll'.group \in {0, poll.group}
         /\ \A u \in Groups : show'[u].group \in {0, show[u].group}
BY HelperFields DEF AnswerTaken

\* The answer held the last reference to an object, which is disposed.
LEMMA LastReferenceStep ==
  ASSUME IndInv, AnswerTaken, NEW g \in Groups, g <= last, g # table,
         storage_volume_group_dispose(g)
  PROVE  IndInv'
<1>1. StateTypes
  BY TypeParts DEF IndInv
<1>2. PICK r : r = disposed(group[g])
  OBVIOUS
<1>3. group[g] \in GroupRecord
  BY <1>1 DEF StateTypes
<1>4. /\ r \in GroupRecord /\ ~Public(r) /\ InTable(r.link) = ToSet(r.info) \ Reserved
  BY <1>2, <1>3, DisposedFields, NewGroupFields
<1>5. group' = [group EXCEPT ![g] = r] /\ update_all_blocks(g)
  BY <1>2 DEF storage_volume_group_dispose
<1>6. exported' = exported
  BY <1>1, DisposeOther DEF IndInv
<1>7. /\ block' \in [Blocks -> Paths \cup {Absent, Unset, Root}]
      /\ by' \in [Blocks -> (Groups \X DeviceNames) \cup {NoOne}]
      /\ AllBlocksUpdated(g)
  BY <1>1, <1>5, AllBlocks
<1>8. group' \in [Groups -> GroupRecord] /\ \A k \in Groups : k # g => group'[k] = group[k]
  BY <1>1, <1>4, <1>5 DEF StateTypes
<1>9. TypeOK'
  BY <1>1, <1>6, <1>7, <1>8, AnswerTakenTypes DEF StateTypes
<1>10. table' = table /\ last' = last
  BY DEF AnswerTaken
<1>11. ExportedByTheTable' /\ LinksLeadToThePool' /\ OverlaysOfTheTable'
  BY <1>1, <1>6, <1>7, <1>8, <1>10, OtherStep DEF IndInv
<1>12. Public(r) <=> g = table
  BY <1>4
<1>13. TablesMatchInfo' /\ NothingAheadOfLast' /\ OnlyTheTableIsPublic'
  BY <1>1, <1>4, <1>5, <1>7, <1>10, <1>12, AnswerTakenGroups, ObjectStep DEF IndInv
<1>14. QED
  BY <1>9, <1>11, <1>13 DEF IndInv

\* An answer that is an error or brings nothing new.
LEMMA DroppedStep ==
  ASSUME IndInv, NEW u \in Groups, update_dropped(u)
  PROVE  IndInv'
<1>1. StateTypes
  BY TypeParts DEF IndInv
<1>2. show[u] \in HelperRecord /\ show[u].stage # "none"
  BY <1>1 DEF update_dropped, StateTypes
<1>3. PICK g : g = show[u].group
  OBVIOUS
<1>4. /\ g \in Groups /\ g <= last /\ group[g] \in GroupRecord
      /\ Public(group[g]) <=> g = table
  BY <1>2, <1>3, AnsweredObject
<1>5. AnswerTaken /\ AnswerDropped(g)
  BY <1>1, <1>3, HelperFields DEF update_dropped, AnswerTaken, StateTypes, lvmVars, udevVars
<1>6. CASE Held(g)
  <2>1. PICK r : r = published_once(group[g])
    OBVIOUS
  <2>2. /\ r \in GroupRecord /\ (Public(r) <=> g = table)
        /\ r.info = group[g].info /\ r.link = group[g].link
    BY <1>4, <2>1, PublishedOnceFields
  <2>3. group' = [group EXCEPT ![g] = r] /\ UNCHANGED <<exported, block, by>>
    BY <1>5, <1>6, <2>1 DEF AnswerDropped
  <2>4. InTable(r.link) = ToSet(r.info) \ Reserved
    BY <1>4, <2>2 DEF IndInv, TablesMatchInfo
  <2>5. /\ group' \in [Groups -> GroupRecord]
        /\ \A k \in Groups : group'[k].link = group[k].link /\ group'[k].info = group[k].info
    BY <1>1, <1>4, <2>2, <2>3 DEF StateTypes
  <2>6. table' = table /\ last' = last
    BY <1>5 DEF AnswerTaken
  <2>7. table # 0 => group'[table].link = group[table].link /\ group'[table].info = group[table].info
    BY <1>1, <2>5 DEF StateTypes
  <2>8. ExportedByTheTable' /\ OverlaysOfTheTable'
    BY <2>3, <2>6, <2>7 DEF IndInv, ExportedByTheTable, OverlaysOfTheTable
  <2>9. LinksLeadToThePool'
    BY <2>3, <2>6, <2>7 DEF IndInv, LinksLeadToThePool
  <2>10. TablesMatchInfo' /\ NothingAheadOfLast' /\ OnlyTheTableIsPublic'
    BY <1>1, <1>4, <1>5, <2>2, <2>3, <2>4, <2>6, AnswerTakenGroups, ObjectStep DEF IndInv
  <2>11. TypeOK'
    BY <1>1, <1>5, <2>3, <2>5, AnswerTakenTypes DEF StateTypes
  <2>12. QED
    BY <2>8, <2>9, <2>10, <2>11 DEF IndInv
<1>7. CASE ~Held(g)
  <2>1. g # table /\ storage_volume_group_dispose(g)
    BY <1>5, <1>7 DEF AnswerDropped, Held
  <2>2. QED
    BY <1>4, <1>5, <2>1, LastReferenceStep
<1>8. QED
  BY <1>6, <1>7

\* What the invariant says about the object in the table.
LEMMA TableObject ==
  ASSUME IndInv, NEW g \in Groups, g = table
  PROVE  /\ PublishedBy(exported, g, group[g].link)
         /\ ShownOrClash(exported, g, group[g].link)
         /\ LinksLead(group[g].link, exported, g, group[g].info)
<1>1. table # 0
  BY BoundsAssumption DEF Groups
<1>2. QED
  BY <1>1 DEF IndInv, ExportedByTheTable, LinksLeadToThePool, LinksLead

\* An answer with a new info.
LEMMA VariantStep ==
  ASSUME IndInv, NEW u \in Groups, update_with_variant(u)
  PROVE  IndInv'
<1>1. StateTypes
  BY TypeParts DEF IndInv
<1>2. show[u] \in HelperRecord /\ show[u].stage # "none"
  BY <1>1 DEF update_with_variant, StateTypes
<1>3. PICK g, info : g = show[u].group /\ info = show[u].info
  OBVIOUS
<1>4. /\ g \in Groups /\ g <= last /\ group[g] \in GroupRecord /\ info \in Lists
      /\ Public(group[g]) <=> g = table
  BY <1>2, <1>3, AnsweredObject
<1>5. PICK public \in BOOLEAN : public = (group[g].published \/ group[g].need_publish)
  OBVIOUS
<1>6. public <=> g = table
  BY <1>4, <1>5 DEF Public
<1>7. PICK st : st = [link |-> group[g].link, exported |-> exported]
  OBVIOUS
<1>8. st \in LoopState /\ st.link = group[g].link /\ st.exported = exported
  BY <1>1, <1>4, <1>7, GroupFields DEF LoopState, StateTypes
<1>9. PICK r : r = update_volumes(st, g, public, info)
  OBVIOUS
<1>10. VolumesUpdated(st, r, g, public, info)
  <2>1. InTable(st.link) \subseteq Visible
    BY <1>4, <1>8, GroupFields, ListFacts
       DEF IndInv, TablesMatchInfo, Visible, lv_is_visible
  <2>2. public => PublishedBy(st.exported, g, st.link) /\ ShownOrClash(st.exported, g, st.link)
    BY <1>4, <1>6, <1>8, TableObject
  <2>3. ~public => \A p \in Paths, n \in Names : st.exported[p] # <<g, n>>
    BY <1>1, <1>4, <1>6, <1>8, OthersPublishNothing DEF IndInv
  <2>4. QED
    BY <1>4, <1>8, <1>9, <2>1, <2>2, <2>3, UpdateVolumes
<1>11. PICK kept \in BOOLEAN : kept = (group[g].kept \/ InTable(r.link) # {})
  OBVIOUS
<1>12. AnswerTaken
  BY <1>1, HelperFields DEF update_with_variant, AnswerTaken, StateTypes, lvmVars, udevVars
<1>13. IF Held(g) \/ kept
       THEN /\ group' = [group EXCEPT ![g] =
                           [need_publish |-> FALSE, published |-> public,
                            known |-> TRUE, info |-> info, kept |-> kept,
                            link |-> r.link]]
            /\ exported' = r.exported
            /\ update_all_blocks(g)
       ELSE storage_volume_group_dispose(g)
  BY <1>3, <1>5, <1>7, <1>9, <1>11 DEF update_with_variant
<1>14. CASE ~(Held(g) \/ kept)
  <2>1. g # table /\ storage_volume_group_dispose(g)
    BY <1>13, <1>14 DEF Held
  <2>2. QED
    BY <1>4, <1>12, <2>1, LastReferenceStep
<1>15. CASE Held(g) \/ kept
  <2>1. PICK q : q = [need_publish |-> FALSE, published |-> public, known |-> TRUE,
                      info |-> info, kept |-> kept, link |-> r.link]
    OBVIOUS
  <2>2. group' = [group EXCEPT ![g] = q] /\ exported' = r.exported /\ update_all_blocks(g)
    BY <1>13, <1>15, <2>1
  <2>3. r.link \in Links /\ r.exported \in Exports
    BY <1>10 DEF VolumesUpdated, LoopState
  <2>4. q \in GroupRecord /\ q.info = info /\ q.link = r.link
    BY <1>4, <2>1, <2>3 DEF GroupRecord, Links
  <2>5. Public(q) <=> g = table
    BY <1>6, <2>1 DEF Public
  <2>6. InTable(q.link) = ToSet(q.info) \ Reserved
    BY <1>10, <2>4 DEF VolumesUpdated
  <2>7. /\ block' \in [Blocks -> Paths \cup {Absent, Unset, Root}]
        /\ by' \in [Blocks -> (Groups \X DeviceNames) \cup {NoOne}]
        /\ AllBlocksUpdated(g)
    BY <1>1, <1>4, <2>2, AllBlocks
  <2>8. /\ group' \in [Groups -> GroupRecord] /\ group'[g] = q
        /\ \A k \in Groups : k # g => group'[k] = group[k]
    BY <1>1, <1>4, <2>2, <2>4 DEF StateTypes
  <2>9. TypeOK'
    BY <1>12, <2>2, <2>3, <2>7, <2>8, AnswerTakenTypes
  <2>10. table' = table /\ last' = last
    BY <1>12 DEF AnswerTaken
  <2>11. TablesMatchInfo' /\ NothingAheadOfLast' /\ OnlyTheTableIsPublic'
    BY <1>1, <1>4, <1>12, <2>2, <2>4, <2>5, <2>6, <2>7, <2>10, AnswerTakenGroups, ObjectStep
       DEF IndInv
  <2>12. CASE g # table
    <3>1. ~public
      BY <1>6, <2>12
    <3>2. exported' = exported
      BY <1>8, <1>10, <2>2, <3>1 DEF VolumesUpdated
    <3>3. ExportedByTheTable' /\ LinksLeadToThePool' /\ OverlaysOfTheTable'
      BY <1>1, <1>4, <2>7, <2>8, <2>10, <2>12, <3>2, OtherStep DEF IndInv
    <3>4. QED
      BY <2>9, <2>11, <3>3 DEF IndInv
  <2>13. CASE g = table
    <3>1. public
      BY <1>6, <2>13
    <3>2. /\ PublishedBy(r.exported, g, r.link)
          /\ ShownOrClash(r.exported, g, r.link)
          /\ LinksLead(r.link, r.exported, g, info)
      BY <1>10, <3>1 DEF VolumesUpdated
    <3>3. group'[table'].link = r.link /\ group'[table'].info = info /\ table' = g /\ g # 0
      BY <1>4, <2>4, <2>8, <2>10, <2>13, BoundsAssumption DEF Groups
    <3>4. ExportedByTheTable'
      BY <2>2, <3>2, <3>3 DEF ExportedByTheTable
    <3>5. LinksLeadToThePool'
      BY <2>2, <3>2, <3>3 DEF LinksLeadToThePool, LinksLead
    <3>6. ASSUME NEW b \in Blocks, block'[b] # Absent, by'[b][2] # Other
          PROVE  OverlayShows(block', b, exported', g, group'[g].link, by'[b][2])
      <4>1. block[b] # Absent
        BY <2>7, <3>6 DEF AllBlocksUpdated
      <4>2. /\ by'[b] = <<g, dm[b]>>
            /\ dm[b] # Other => OverlayShows(block', b, exported', g, group'[g].link, dm[b])
        BY <2>7, <4>1 DEF AllBlocksUpdated
      <4>3. by'[b][2] = dm[b]
        BY <4>2
      <4>4. QED
        BY <3>6, <4>2, <4>3
    <3>7. OverlaysOfTheTable'
      BY <3>3, <3>6 DEF OverlaysOfTheTable
    <3>8. QED
      BY <2>9, <2>11, <3>4, <3>5, <3>7 DEF IndInv
  <2>14. QED
    BY <2>12, <2>13
<1>16. QED
  BY <1>14, <1>15

\* The answer of a poll.
LEMMA PollStep ==
  ASSUME IndInv, poll_with_variant
  PROVE  IndInv'
<1>1. StateTypes
  BY TypeParts DEF IndInv
<1>2. poll \in HelperRecord /\ poll.stage # "none"
  BY <1>1 DEF poll_with_variant, StateTypes
<1>3. PICK g, list : g = poll.group /\ list = poll.info
  OBVIOUS
<1>4. /\ g \in Groups /\ g <= last /\ group[g] \in GroupRecord /\ list \in Lists
      /\ Public(group[g]) <=> g = table
  BY <1>2, <1>3, AnsweredObject
<1>5. PICK public \in BOOLEAN : public = group[g].published
  BY <1>4, GroupFields
<1>6. PICK st : st = [link |-> group[g].link, exported |-> exported]
  OBVIOUS
<1>7. st \in LoopState /\ st.link = group[g].link /\ st.exported = exported
  BY <1>1, <1>4, <1>6, GroupFields DEF LoopState, StateTypes
<1>8. PICK info \in Lists : info = group[g].info
  BY <1>4, GroupFields
<1>9. InTable(st.link) = ToSet(info) \ Reserved
  BY <1>4, <1>7, <1>8 DEF IndInv, TablesMatchInfo
<1>10. PICK r : r = update_listed(st, g, public, list, InTable(st.link))
  OBVIOUS
<1>11. r \in LoopState /\ PolledSoFar(r, st, g, info)
  BY <1>4, <1>7, <1>9, <1>10, LoopPolls
<1>12. AnswerTaken
  BY <1>1, HelperFields DEF poll_with_variant, AnswerTaken, StateTypes, lvmVars, udevVars
<1>13. IF ~Held(g) THEN storage_volume_group_dispose(g)
       ELSE /\ group' = IF poll.stage = "failed" THEN group ELSE [group EXCEPT ![g].link = r.link]
            /\ UNCHANGED <<exported, block, by>>
  BY <1>3, <1>5, <1>6, <1>7, <1>10 DEF poll_with_variant
<1>14. CASE ~Held(g)
  <2>1. g # table /\ storage_volume_group_dispose(g)
    BY <1>13, <1>14 DEF Held
  <2>2. QED
    BY <1>4, <1>12, <2>1, LastReferenceStep
<1>15. CASE Held(g)
  <2>1. PICK link : link = IF poll.stage = "failed" THEN group[g].link ELSE r.link
    OBVIOUS
  <2>2. link \in Links
    BY <1>4, <1>11, <2>1, GroupFields DEF LoopState
  <2>3. PICK q : q = [group[g] EXCEPT !.link = link]
    OBVIOUS
  <2>4. /\ q \in GroupRecord /\ q.link = link /\ q.info = group[g].info
        /\ q.published = group[g].published /\ q.need_publish = group[g].need_publish
    BY <1>4, <2>2, <2>3 DEF GroupRecord, Links
  <2>5. group' = [group EXCEPT ![g] = q] /\ UNCHANGED <<exported, block, by>>
    <3>1. CASE poll.stage = "failed"
      <4>1. q = group[g]
        BY <1>4, <2>1, <2>3, <3>1 DEF GroupRecord
      <4>2. QED
        BY <1>1, <1>4, <1>13, <1>15, <3>1, <4>1 DEF StateTypes
    <3>2. CASE poll.stage # "failed"
      BY <1>1, <1>4, <1>13, <1>15, <2>1, <2>3, <3>2 DEF StateTypes
    <3>3. QED
      BY <3>1, <3>2
  <2>6. InTable(link) = InTable(group[g].link)
    BY <1>7, <1>11, <2>1 DEF PolledSoFar
  <2>7. InTable(q.link) = ToSet(q.info) \ Reserved
    BY <1>7, <1>8, <1>9, <2>4, <2>6
  <2>8. Public(q) <=> g = table
    BY <1>4, <2>4 DEF Public
  <2>9. /\ group' \in [Groups -> GroupRecord] /\ group'[g] = q
        /\ \A k \in Groups : k # g => group'[k] = group[k]
    BY <1>1, <1>4, <2>4, <2>5 DEF StateTypes
  <2>10. TypeOK'
    BY <1>1, <1>12, <2>5, <2>9, AnswerTakenTypes DEF StateTypes
  <2>11. table' = table /\ last' = last
    BY <1>12 DEF AnswerTaken
  <2>12. TablesMatchInfo' /\ NothingAheadOfLast' /\ OnlyTheTableIsPublic'
    BY <1>1, <1>4, <1>12, <2>4, <2>5, <2>7, <2>8, <2>11, AnswerTakenGroups, ObjectStep
       DEF IndInv
  <2>13. CASE g # table
    <3>1. ExportedByTheTable' /\ LinksLeadToThePool' /\ OverlaysOfTheTable'
      BY <1>1, <1>4, <2>5, <2>9, <2>11, <2>13, OtherStep DEF IndInv
    <3>2. QED
      BY <2>10, <2>12, <3>1 DEF IndInv
  <2>14. CASE g = table
    <3>1. /\ PublishedBy(exported, g, group[g].link)
          /\ ShownOrClash(exported, g, group[g].link)
          /\ LinksLead(group[g].link, exported, g, info)
      BY <1>4, <1>8, <2>14, TableObject
    <3>2. PublishedBy(exported, g, link) /\ ShownOrClash(exported, g, link)
      BY <2>6, <3>1 DEF PublishedBy, ShownOrClash
    <3>3. LinksLead(link, exported, g, info)
      <4>1. LinksLead(r.link, exported, g, info)
        BY <1>7, <1>11, <3>1 DEF PolledSoFar
      <4>2. QED
        BY <2>1, <3>1, <4>1
    <3>4. group'[table'].link = link /\ group'[table'].info = info /\ table' = g /\ g # 0
      BY <1>4, <1>8, <2>4, <2>9, <2>11, <2>14, BoundsAssumption DEF Groups
    <3>5. ExportedByTheTable'
      BY <2>5, <3>2, <3>4 DEF ExportedByTheTable
    <3>6. LinksLeadToThePool'
      BY <2>5, <3>3, <3>4 DEF LinksLeadToThePool, LinksLead
    <3>7. ASSUME NEW b \in Blocks, block[b] # Absent, by[b][1] = g, by[b][2] # Other
          PROVE  OverlayShows(block, b, exported, g, link, by[b][2])
      <4>1. OverlayShows(block, b, exported, g, group[g].link, by[b][2])
        BY <2>14, <3>4, <3>7 DEF IndInv, OverlaysOfTheTable
      <4>2. QED
        BY <2>6, <4>1 DEF OverlayShows
    <3>8. OverlaysOfTheTable'
      BY <2>5, <3>4, <3>7 DEF OverlaysOfTheTable
    <3>9. QED
      BY <2>10, <2>12, <3>5, <3>6, <3>8 DEF IndInv
  <2>15. QED
    BY <2>13, <2>14
<1>16. QED
  BY <1>14, <1>15

\* The manager's list lacks the group: the object in the table is disposed, and
\* nothing is published from then on.
LEMMA LacksStep ==
  ASSUME IndInv, lvm_update_lacks
  PROVE  IndInv'
<1>1. StateTypes /\ Counters /\ HelpersNameAGroup
  BY TypeParts DEF IndInv
<1>2. /\ UNCHANGED <<vg, lvs, changes, show, poll, polls, dm, renames>>
      /\ last < MaxUpdates /\ last' = last + 1 /\ table' = 0
      /\ IF table = 0 THEN UNCHANGED <<group, exported, block, by>>
                      ELSE storage_volume_group_dispose(table)
  BY DEF lvm_update_lacks, lvmVars, udevVars
<1>3. last \in Nat /\ last' \in 0..MaxUpdates /\ last' \in Nat /\ last < last' /\ table' <= last'
  BY <1>1, <1>2, BoundsAssumption DEF StateTypes
<1>4. /\ group' \in [Groups -> GroupRecord] /\ exported' \in Exports
      /\ block' \in [Blocks -> Paths \cup {Absent, Unset, Root}]
      /\ by' \in [Blocks -> (Groups \X DeviceNames) \cup {NoOne}]
      /\ \A p \in Paths : exported'[p] = NoOne
      /\ TablesMatchInfo'
      /\ \A g \in Groups : Public(group'[g]) => Public(group[g]) /\ g # table
      /\ \A g \in Groups : g > last => group'[g] = group[g]
      /\ \A b \in Blocks : by'[b][1] <= last
  <2>1. CASE table = 0
    <3>1. UNCHANGED <<group, exported, block, by>>
      BY <1>2, <2>1
    <3>2. \A p \in Paths : exported[p] = NoOne
      BY <2>1 DEF IndInv, ExportedByTheTable
    <3>3. TablesMatchInfo'
      BY <3>1 DEF IndInv, TablesMatchInfo
    <3>4. \A g \in Groups : g # table
      BY <2>1, BoundsAssumption DEF Groups
    <3>5. \A b \in Blocks : by'[b][1] <= last
      BY <3>1 DEF IndInv, NothingAheadOfLast
    <3>6. QED
      BY <1>1, <3>1, <3>2, <3>3, <3>4, <3>5 DEF StateTypes
  <2>2. CASE table # 0
    <3>1. PICK g \in Groups : g = table
      BY <1>1, <2>2 DEF StateTypes
    <3>2. storage_volume_group_dispose(g)
      BY <1>2, <2>2, <3>1
    <3>3. group[g] \in GroupRecord /\ g <= last
      BY <1>1, <3>1 DEF StateTypes, IndInv, NothingAheadOfLast
    <3>4. PICK r : r = disposed(group[g])
      OBVIOUS
    <3>5. r \in GroupRecord /\ ~Public(r) /\ InTable(r.link) = ToSet(r.info) \ Reserved
      BY <3>3, <3>4, DisposedFields, NewGroupFields
    <3>6. group' = [group EXCEPT ![g] = r] /\ update_all_blocks(g)
      BY <3>2, <3>4 DEF storage_volume_group_dispose
    <3>7. /\ group' \in [Groups -> GroupRecord] /\ group'[g] = r
          /\ \A k \in Groups : k # g => group'[k] = group[k]
      BY <1>1, <3>5, <3>6 DEF StateTypes
    <3>8. /\ block' \in [Blocks -> Paths \cup {Absent, Unset, Root}]
          /\ by' \in [Blocks -> (Groups \X DeviceNames) \cup {NoOne}]
          /\ AllBlocksUpdated(g)
      BY <1>1, <3>6, AllBlocks
    <3>9. PICK gone : gone = InTable(group[g].link)
      OBVIOUS
    <3>10. gone \in SUBSET Names /\ exported \in Exports
      BY <1>1, <3>9 DEF InTable, StateTypes
    <3>11. exported' = storage_logical_volume_dispose(exported, g, gone)
      BY <3>2, <3>9 DEF storage_volume_group_dispose
    <3>12. /\ exported' \in Exports
           /\ \A p \in Paths : exported'[p] =
                IF \E n \in gone : p = build_object_path[n] /\ exported[p] = <<g, n>>
                THEN NoOne ELSE exported[p]
      BY <3>10, <3>11, Dispose
    <3>13. PublishedBy(exported, g, group[g].link)
      BY <3>1, TableObject
    <3>14. \A p \in Paths : exported'[p] = NoOne
      BY <3>9, <3>12, <3>13 DEF PublishedBy
    <3>15. TablesMatchInfo'
      BY <3>5, <3>7 DEF IndInv, TablesMatchInfo
    <3>16. \A k \in Groups : Public(group'[k]) => Public(group[k]) /\ k # table
      BY <3>1, <3>5, <3>7
    <3>17. ASSUME NEW k \in Groups, k > last PROVE group'[k] = group[k]
      <4>1. k # g
        BY <1>3, <3>3, <3>17, BoundsAssumption DEF Groups
      <4>2. QED
        BY <3>7, <4>1
    <3>18. ASSUME NEW b \in Blocks PROVE by'[b][1] <= last
      <4>1. by'[b] = by[b] \/ by'[b] = <<g, dm[b]>>
        BY <3>8 DEF AllBlocksUpdated
      <4>2. QED
        BY <3>3, <4>1 DEF IndInv, NothingAheadOfLast
    <3>19. QED
      BY <3>7, <3>8, <3>12, <3>14, <3>15, <3>16, <3>17, <3>18
  <2>3. QED
    BY <2>1, <2>2
<1>5. TypeOK'
  <2>1. StateTypes'
    BY <1>1, <1>2, <1>3, <1>4 DEF StateTypes
  <2>2. Counters' /\ HelpersNameAGroup'
    BY <1>1, <1>2 DEF Counters, HelpersNameAGroup
  <2>3. QED
    BY <2>1, <2>2, TypeParts
<1>6. NothingAheadOfLast'
  <2>1. poll.group \in Nat /\ \A u \in Groups : show[u].group \in Nat
    BY <1>1, HelperFields, BoundsAssumption DEF StateTypes, Groups
  <2>2. poll'.group <= last' /\ \A u \in Groups : show'[u].group <= last'
    BY <1>2, <1>3, <2>1 DEF IndInv, NothingAheadOfLast
  <2>3. ASSUME NEW b \in Blocks PROVE by'[b][1] <= last'
    <3>1. by'[b] \in (Groups \X DeviceNames) \cup {NoOne}
      BY <1>4
    <3>2. by'[b][1] \in Nat
      BY <3>1, BoundsAssumption DEF NoOne, Groups
    <3>3. by'[b][1] <= last
      BY <1>4
    <3>4. QED
      BY <1>3, <3>2, <3>3
  <2>4. ASSUME NEW g \in Groups, g > last' PROVE group'[g] = NewGroup
    <3>1. g > last
      BY <1>3, <2>4, BoundsAssumption DEF Groups
    <3>2. QED
      BY <1>4, <3>1 DEF IndInv, NothingAheadOfLast
  <2>5. QED
    BY <1>3, <2>2, <2>3, <2>4 DEF NothingAheadOfLast
<1>7. OnlyTheTableIsPublic'
  <2>1. ASSUME NEW k \in Groups \cup {0}, k \in {0, table} \/ ~Public(group[k])
        PROVE  k = 0 \/ ~Public(group'[k])
    BY <1>4, <2>1
  <2>2. poll.group \in Groups \cup {0} /\ \A u \in Groups : show[u].group \in Groups \cup {0}
    BY <1>1, HelperFields DEF StateTypes
  <2>3. poll'.group = 0 \/ ~Public(group'[poll'.group])
    BY <1>2, <2>1, <2>2 DEF IndInv, OnlyTheTableIsPublic
  <2>4. \A u \in Groups : show'[u].group = 0 \/ ~Public(group'[show'[u].group])
    BY <1>2, <2>1, <2>2 DEF IndInv, OnlyTheTableIsPublic
  <2>5. QED
    BY <1>2, <2>3, <2>4 DEF OnlyTheTableIsPublic
<1>8. ExportedByTheTable' /\ LinksLeadToThePool' /\ OverlaysOfTheTable'
  BY <1>2, <1>4 DEF ExportedByTheTable, LinksLeadToThePool, OverlaysOfTheTable
<1>9. QED
  BY <1>4, <1>5, <1>6, <1>7, <1>8 DEF IndInv

\* Nothing has happened yet.
LEMMA InitIndInv == Init => IndInv
<1> SUFFICES ASSUME Init PROVE IndInv
  OBVIOUS
<1>1. /\ show \in [Groups -> HelperRecord] /\ poll = NoHelper
      /\ \A u \in Groups : show[u] = NoHelper
  BY HelperFields DEF Init
<1>2. /\ group \in [Groups -> GroupRecord]
      /\ \A g \in Groups : group[g] = NewGroup
  BY NewGroupFields DEF Init
<1>3. exported \in Exports /\ \A p \in Paths : exported[p] = NoOne
  BY DEF Init, Exports
<1>4. /\ block \in [Blocks -> Paths \cup {Absent, Unset, Root}]
      /\ by \in [Blocks -> (Groups \X DeviceNames) \cup {NoOne}]
      /\ \A b \in Blocks : by[b] = NoOne
  BY DEF Init
<1>5. table = 0 /\ last = 0 /\ last \in 0..MaxUpdates
  BY BoundsAssumption DEF Init
<1>6. StateTypes
  BY <1>1, <1>2, <1>3, <1>4, <1>5, HelperFields DEF StateTypes, Init
<1>7. Counters
  BY BoundsAssumption DEF Init, Counters
<1>8. HelpersNameAGroup
  BY <1>1, HelperFields DEF HelpersNameAGroup
<1>9. TablesMatchInfo
  BY <1>2, NewGroupFields DEF TablesMatchInfo
<1>10. NothingAheadOfLast
  <2>1. NoOne[1] = 0
    BY DEF NoOne
  <2>2. QED
    BY <1>1, <1>2, <1>4, <1>5, <2>1, HelperFields DEF NothingAheadOfLast
<1>11. OnlyTheTableIsPublic
  BY <1>1, <1>5, HelperFields DEF OnlyTheTableIsPublic
<1>12. ExportedByTheTable /\ LinksLeadToThePool /\ OverlaysOfTheTable
  BY <1>3, <1>5 DEF ExportedByTheTable, LinksLeadToThePool, OverlaysOfTheTable
<1>13. QED
  BY <1>6, <1>7, <1>8, <1>9, <1>10, <1>11, <1>12, TypeParts DEF IndInv

\* Every step keeps the invariant.
LEMMA StepIndInv == IndInv /\ [Next]_vars => IndInv'
<1> SUFFICES ASSUME IndInv, [Next]_vars PROVE IndInv'
  OBVIOUS
<1>1. CASE UNCHANGED vars
  <2>1. UNCHANGED <<vg, lvs, changes, last, show, poll, polls, table, group, exported,
                    dm, renames, block, by>>
    BY <1>1 DEF vars, lvmVars, udevVars
  <2>2. TypeOK'
    BY <2>1 DEF IndInv, TypeOK
  <2>3. Core'
    BY <2>1 DEF IndInv, Core, TablesMatchInfo, NothingAheadOfLast, OnlyTheTableIsPublic,
                ExportedByTheTable, LinksLeadToThePool, OverlaysOfTheTable
  <2>4. QED
    BY <2>2, <2>3 DEF IndInv, Core
<1>2. CASE Next
  <2>1. CASE \/ \E exists \in BOOLEAN, list \in Lists : MetadataChanges(exists, list)
             \/ \E b \in Blocks, n \in DeviceNames : DeviceRenamed(b, n)
    BY <2>1, OutsideStep
  <2>2. CASE lvm_update_lists
    BY <2>2, ListsStep
  <2>3. CASE lvm_update_lacks
    BY <2>3, LacksStep
  <2>4. CASE show_for_poll \/ \E u \in Groups : show_volume_group(u)
    BY <2>4, AnswerStep
  <2>5. ASSUME NEW u \in Groups, update_dropped(u) PROVE IndInv'
    BY <2>5, DroppedStep
  <2>6. ASSUME NEW u \in Groups, update_with_variant(u) PROVE IndInv'
    BY <2>6, VariantStep
  <2>7. CASE poll_now
    BY <2>7, PollNowStep
  <2>8. CASE poll_with_variant
    BY <2>8, PollStep
  <2>9. ASSUME NEW b \in Blocks, on_udisks_interface_added(b) PROVE IndInv'
    BY <2>9, AddedStep
  <2>10. ASSUME NEW b \in Blocks, on_udisks_interface_removed(b) PROVE IndInv'
    BY <2>10, RemovedStep
  <2>11. QED
    BY <1>2, <2>1, <2>2, <2>3, <2>4, <2>5, <2>6, <2>7, <2>8, <2>9, <2>10 DEF Next
<1>3. QED
  BY <1>1, <1>2

\* The invariant gives what the runs check of the published paths.
LEMMA IndInvHides == IndInv => OnlyClashingNamesAreHidden
<1> SUFFICES ASSUME IndInv PROVE OnlyClashingNamesAreHidden
  OBVIOUS
<1>1. ASSUME NEW p \in Paths, exported[p] # NoOne
      PROVE  exported[p][1] = table /\ exported[p][2] \in InTable(group[exported[p][1]].link)
  <2>1. PublishedBy(exported, table, group[table].link)
    BY <1>1 DEF IndInv, ExportedByTheTable
  <2>2. PICK n \in InTable(group[table].link) : exported[p] = <<table, n>>
    BY <1>1, <2>1 DEF PublishedBy
  <2>3. exported[p][1] = table /\ exported[p][2] = n
    BY <2>2
  <2>4. QED
    BY <2>3
<1>2. ASSUME table # 0, NEW n \in InTable(group[table].link)
      PROVE  object_path(exported, table, n) # Unset \/ \E m \in Names : Clash(m, n)
  <2>1. ShownOrClash(exported, table, group[table].link) /\ n \in Names
    BY <1>2, InTableOf DEF IndInv, ExportedByTheTable
  <2>2. exported[build_object_path[n]] = <<table, n>> \/ \E m \in Names : Clash(m, n)
    BY <1>2, <2>1 DEF ShownOrClash
  <2>3. QED
    BY <2>1, <2>2, ObjectPath
<1>3. QED
  BY <1>1, <1>2 DEF OnlyClashingNamesAreHidden

\* And what they check of the overlays.
LEMMA IndInvOverlays == IndInv => BlockShowsItsVolume
<1> SUFFICES ASSUME IndInv, NEW b \in Blocks,
                    block[b] # Absent, table # 0, by[b] = <<table, dm[b]>>, dm[b] # Other
             PROVE  block[b] = IF dm[b] \in InTable(group[table].link)
                               THEN object_path(exported, table, dm[b]) ELSE Root
  BY DEF BlockShowsItsVolume
<1>1. by[b][1] = table /\ by[b][2] = dm[b]
  OBVIOUS
<1>2. OverlayShows(block, b, exported, table, group[table].link, dm[b])
  BY <1>1 DEF IndInv, OverlaysOfTheTable
<1>3. QED
  BY <1>2 DEF OverlayShows

-----------------------------------------------------------------------------
\* The theorems.

\* Every state of the model satisfies the inductive invariant: the tables of the
\* groups match the info they took, whatever overlaps.
THEOREM VolumesInductive == Spec => []IndInv
<1>1. Init => IndInv
  BY InitIndInv
<1>2. IndInv /\ [Next]_vars => IndInv'
  BY StepIndInv
<1>3. QED
  BY <1>1, <1>2, PTL DEF Spec

\* The state keeps its types; every helper under way has an object.
THEOREM VolumesTypes == Spec => []TypeOK
<1>1. IndInv => TypeOK
  BY DEF IndInv
<1>2. QED
  BY <1>1, VolumesInductive, PTL

\* What is published are the volumes of the group in the manager's table, all of
\* them but those whose name is escaped like another's.
THEOREM VolumesHidden == Spec => []OnlyClashingNamesAreHidden
<1>1. IndInv => OnlyClashingNamesAreHidden
  BY IndInvHides
<1>2. QED
  BY <1>1, VolumesInductive, PTL

\* A volume's link leads to its pool, or to a volume that shares the pool's path.
THEOREM VolumesLinks == Spec => []LinksLeadToThePool
<1>1. IndInv => LinksLeadToThePool
  BY DEF IndInv
<1>2. QED
  BY <1>1, VolumesInductive, PTL

\* An overlay that the group in the table updated last points at the volume of
\* its device, and at none if there is none.
THEOREM VolumesOverlays == Spec => []BlockShowsItsVolume
<1>1. IndInv => BlockShowsItsVolume
  BY IndInvOverlays
<1>2. QED
  BY <1>1, VolumesInductive, PTL

\* No two names share a path, as when none has a character that is escaped and
\* none has "_".
NamesTellPathsApart == \A m, n \in Names : ~Clash(m, n)

\* Every volume of the group in the table has its path, and the link of one that
\* is in a pool is the pool's path, or "/" if the pool was not listed before it.
EveryVolumeIsShown ==
  table # 0 =>
    \A n \in InTable(group[table].link) :
      /\ exported[build_object_path[n]] = <<table, n>>
      /\ PoolOf[n] \in Names =>
           \/ /\ group[table].link[n] = Root
              /\ ~ListedBefore(group[table].info, PoolOf[n], n)
           \/ /\ group[table].link[n] = build_object_path[PoolOf[n]]
              /\ exported[build_object_path[PoolOf[n]]] = <<table, PoolOf[n]>>

\* Shared paths are all that hides a volume or leads a link astray: as long as
\* no two names are escaped alike, every volume is shown and every link leads to
\* the pool, whatever updates, polls and removals overlap.
THEOREM VolumesWithoutClashes ==
  ASSUME NamesTellPathsApart
  PROVE  Spec => []EveryVolumeIsShown
<1>1. ASSUME IndInv, table # 0, NEW n \in InTable(group[table].link)
      PROVE  /\ exported[build_object_path[n]] = <<table, n>>
             /\ PoolOf[n] \in Names =>
                  \/ /\ group[table].link[n] = Root
                     /\ ~ListedBefore(group[table].info, PoolOf[n], n)
                  \/ /\ group[table].link[n] = build_object_path[PoolOf[n]]
                     /\ exported[build_object_path[PoolOf[n]]] = <<table, PoolOf[n]>>
  <2>1. PICK g \in Groups : g = table
    BY <1>1, TypeOKImplies DEF IndInv, StateTypes
  <2>2. PICK link : link = group[g].link
    OBVIOUS
  <2>3. n \in InTable(link) /\ n \in Names /\ link[n] # Absent
    BY <1>1, <2>1, <2>2 DEF InTable
  <2>4. link \in Links
    BY <1>1, <2>2, TypeOKImplies, GroupFields DEF IndInv, StateTypes
  <2>5. /\ PublishedBy(exported, g, link) /\ ShownOrClash(exported, g, link)
        /\ LinksLead(link, exported, g, group[g].info)
    BY <1>1, <2>1, <2>2, TableObject
  <2>6. exported[build_object_path[n]] = <<g, n>>
    BY <2>3, <2>5 DEF ShownOrClash, NamesTellPathsApart
  <2>7. PICK pool : pool = PoolOf[n]
    OBVIOUS
  <2>8. /\ link[n] \in Paths =>
             \E m \in {pool} \cup {k \in Names : Clash(k, pool)} : exported[link[n]] = <<g, m>>
        /\ link[n] = Root => ~ListedBefore(group[g].info, pool, n)
        /\ link[n] = Unset => \E m \in Names : Clash(m, pool)
    BY <2>3, <2>5, <2>7 DEF LinksLead
  <2>9. ASSUME pool \in Names, link[n] # Root
        PROVE  /\ link[n] = build_object_path[pool]
               /\ exported[build_object_path[pool]] = <<g, pool>>
    <3>1. \A m \in Names : ~Clash(m, pool)
      BY <2>9 DEF NamesTellPathsApart
    <3>2. link[n] \in Paths \cup {Unset}
      BY <2>3, <2>4, <2>9 DEF Links
    <3>3. link[n] \in Paths /\ exported[link[n]] = <<g, pool>>
      BY <2>8, <3>1, <3>2
    <3>4. exported[link[n]] # NoOne
      BY <2>9, <3>3, Markers
    <3>5. PICK m \in InTable(link) : exported[link[n]] = <<g, m>> /\ link[n] = build_object_path[m]
      BY <2>5, <3>3, <3>4 DEF PublishedBy
    <3>6. m = pool
      BY <3>3, <3>5
    <3>7. QED
      BY <3>3, <3>5, <3>6
  <2>10. QED
    BY <2>1, <2>2, <2>6, <2>7, <2>8, <2>9
<1>2. IndInv => EveryVolumeIsShown
  BY <1>1 DEF EveryVolumeIsShown
<1>3. QED
  BY <1>2, VolumesInductive, PTL
=============================================================================
