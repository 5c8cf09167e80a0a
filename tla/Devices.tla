------------------------------ MODULE Devices ------------------------------
(***************************************************************************)
(* What the methods do to block devices: VolumeGroupCreate (manager.c),    *)
(* AddDevice, RemoveDevice and Delete (volumegroup.c) wipe devices with    *)
(* storage_util_wipe_block (util.c) before or after an LVM command.        *)
(*                                                                         *)
(* A wipe opens the device with O_EXCL, overwrites its first sector,       *)
(* closes it, and runs wipefs; meanwhile the other calls and the users of  *)
(* the devices go on.  AddDevice wipes on the main loop, so that no other  *)
(* handler runs; the others wipe in the thread of their job.               *)
(***************************************************************************)
EXTENDS Naturals, Sequences, FiniteSets, SequencesExt

CONSTANTS
  Devices,   \* block devices
  VGs,       \* names of volume groups
  Calls      \* the method calls that may ever arrive

ASSUME NamesAssumption ==
  /\ {"blank", "data", "pv", "none"} \cap VGs = {}
  /\ {"none", "active", "user"} \cap Calls = {}
ASSUME FiniteAssumption == IsFiniteSet(Devices) /\ Devices # {} /\ VGs # {}

VARIABLES
  disk,     \* disk[d]: what is on d: nothing, data, the label of a physical
            \* volume without a group, or that of a group's
  member,   \* member[v]: the devices of v by its metadata, {} if there is none
  excl,     \* excl[d]: who has d open with O_EXCL: a call, a logical volume that
            \* is active and that nobody has open, or a user: a file system,
            \* or an active volume that somebody has open
  link,     \* link[d]: the group the overlay of d points at
  main,     \* the call whose handler occupies the main loop
  call      \* call[c]: one method call and its job

vars == <<disk, member, excl, link, main, call>>

\* "devices" are those to wipe, "at" is the one being wiped, "step" the next
\* step: "late" when a vgextend that was cancelled may still be at work.  The
\* answer "cancelled" is the error of a cancelled job.  Histories: "erased" by
\* this call, "ran" its LVM command, "disturbed" by a failing command, or because
\* somebody else had one of its devices open or changed it after the call was
\* let in.
CallRecord ==
  [method    : {"none", "create", "add", "delete", "remove"},
   vg        : VGs,
   on        : Devices,
   devices   : {s \in UNION {[1..n -> Devices] : n \in 0..Cardinality(Devices)} :
                  IsInjective(s)},
   at        : Nat,
   step      : {"none", "open", "write", "wipefs", "command", "late", "end"},
   answer    : {"none", "success", "error", "cancelled"},
   erased    : SUBSET Devices,
   ran       : BOOLEAN,
   disturbed : BOOLEAN]

TypeOK ==
  /\ disk \in [Devices -> {"blank", "data", "pv"} \cup VGs]
  /\ member \in [VGs -> SUBSET Devices]
  /\ excl \in [Devices -> {"none", "active", "user"} \cup Calls]
  /\ link \in [Devices -> VGs \cup {"none"}]
  /\ main \in Calls \cup {"none"}
  /\ call \in [Calls -> CallRecord]
  /\ \A c \in Calls : call[c].at <= Len(call[c].devices)

NoCall ==
  [method |-> "none", vg |-> CHOOSE v \in VGs : TRUE,
   on |-> CHOOSE d \in Devices : TRUE, devices |-> <<>>, at |-> 0,
   step |-> "none", answer |-> "none", erased |-> {}, ran |-> FALSE,
   disturbed |-> FALSE]

\* The overlays are up to date.
Init ==
  /\ disk \in [Devices -> {"data"} \cup VGs]
  /\ member = [v \in VGs |-> {d \in Devices : disk[d] = v}]
  /\ excl \in [Devices -> {"none", "active", "user"}]
  /\ \A d \in Devices : excl[d] = "active" => disk[d] \in VGs
  /\ link = [d \in Devices |-> IF disk[d] = "data" THEN "none" ELSE disk[d]]
  /\ main = "none"
  /\ call = [c \in Calls |-> NoCall]

Exists(v) == member[v] # {}
Intact(v) == \A d \in member[v] : disk[d] = v

Running == {c \in Calls : call[c].step \notin {"none", "end"}}

\* The calls after a step of "who" on the devices in S.
Disturbed(S, who) ==
  [c \in Calls |->
     IF c \in Running /\ c # who /\ ToSet(call[c].devices) \cap S # {}
     THEN [call[c] EXCEPT !.disturbed = TRUE]
     ELSE call[c]]

-----------------------------------------------------------------------------
\* A call's record at its start, its end, and after a wipe.

Refused(method, v, d) ==
  [NoCall EXCEPT !.method = method, !.vg = v, !.on = d, !.step = "end",
                 !.answer = "error"]

Ended(r, answer) == [r EXCEPT !.step = "end", !.answer = answer]

\* Wiping begins: create and add run their command after it, delete and
\* remove have run it.  RemoveDevice runs wipefs alone.
WipeFrom(r, n) ==
  IF n <= Len(r.devices)
  THEN [r EXCEPT !.at = n,
                 !.step = IF r.method = "remove" THEN "wipefs" ELSE "open"]
  ELSE IF r.method \in {"create", "add"}
       THEN [r EXCEPT !.at = 0, !.step = "command"]
       ELSE Ended(r, "success")

Launched(method, v, d, devices) ==
  LET r == [NoCall EXCEPT !.method = method, !.vg = v, !.on = d,
                          !.devices = devices]
  IN  IF method \in {"create", "add"} THEN WipeFrom(r, 1)
      ELSE [r EXCEPT !.step = "command"]

\* The main loop is free unless AddDevice is in the middle of its wipe.
Handles(c) ==
  /\ main = "none"
  /\ call[c].method = "none"
  /\ UNCHANGED <<disk, member, excl, link>>

\* Mutant: the devices are not looked at.
storage_block_is_unused_unchecked(d) == TRUE

\* open (device_file, O_RDONLY | O_EXCL), and close.
storage_block_is_unused(d) == excl[d] = "none"

\* All the devices are checked before the first is wiped.
handle_volume_group_create(c, v, devices) ==
  /\ Handles(c)
  /\ call' = [call EXCEPT ![c] =
                IF \A d \in ToSet(devices) : storage_block_is_unused(d)
                THEN Launched("create", v, NoCall.on, devices)
                ELSE Refused("create", v, NoCall.on)]
  /\ UNCHANGED main

\* The handler goes on to wipe the device.
handle_add_device(c, v, d) ==
  /\ Handles(c)
  /\ Exists(v)
  /\ \/ /\ ~storage_block_is_unused(d)
        /\ call' = [call EXCEPT ![c] = Refused("add", v, d)]
        /\ UNCHANGED main
     \/ /\ storage_block_is_unused(d)
        /\ call' = [call EXCEPT ![c] = Launched("add", v, d, <<d>>)]
        /\ main' = c

\* The physical volumes to wipe are those whose overlay points at the group.
handle_delete(c, v, wipe) ==
  /\ Handles(c)
  /\ Exists(v)
  /\ \E devices \in SetToSeqs({d \in Devices : wipe /\ link[d] = v}) :
       call' = [call EXCEPT ![c] = Launched("delete", v, NoCall.on, devices)]
  /\ UNCHANGED main

handle_remove_device(c, v, d, wipe) ==
  /\ Handles(c)
  /\ Exists(v)
  /\ call' = [call EXCEPT ![c] =
                Launched("remove", v, d, IF wipe THEN <<d>> ELSE <<>>)]
  /\ UNCHANGED main

-----------------------------------------------------------------------------
\* storage_util_wipe_block, one device of call c.

At(c) == call[c].devices[call[c].at]

\* AddDevice gives the main loop back when its wipe is over.
MainAfter(c, r) == IF main = c /\ r.step \in {"command", "end"} THEN "none"
                                                                ELSE main

Becomes(c, others, r) ==
  /\ call' = [others EXCEPT ![c] = r]
  /\ main' = MainAfter(c, r)

\* Mutant: a Delete goes on when a device cannot be wiped.
WipeFails_goes_on(c) ==
  LET r == [call[c] EXCEPT !.disturbed = TRUE]
  IN  IF r.method = "delete" THEN WipeFrom(r, r.at + 1) ELSE Ended(r, "error")

\* A write, BLKRRPART or wipefs fails.  The thread returns the error of the
\* first wipe that fails; AddDevice answers with it.
WipeFails(c) == Ended([call[c] EXCEPT !.disturbed = TRUE], "error")

\* Mutant: the device is opened without O_EXCL.
wipe_opens_shared(c) ==
  /\ call[c].step = "open"
  /\ Becomes(c, Disturbed({At(c)}, c), [call[c] EXCEPT !.step = "write"])
  /\ UNCHANGED <<disk, member, excl, link>>

wipe_opens(c) ==
  /\ call[c].step = "open"
  /\ \/ /\ excl[At(c)] = "none"
        /\ Becomes(c, Disturbed({At(c)}, c), [call[c] EXCEPT !.step = "write"])
        /\ excl' = [excl EXCEPT ![At(c)] = c]
     \/ /\ excl[At(c)] # "none"
        /\ Becomes(c, call, Ended(call[c], "error"))
        /\ UNCHANGED excl
  /\ UNCHANGED <<disk, member, link>>

\* Zeroes in the first sector remove a partition table and no other label.
wipe_writes(c) ==
  /\ call[c].step = "write"
  /\ disk' \in {disk, [disk EXCEPT ![At(c)] = IF @ = "data" THEN "blank" ELSE @]}
  /\ \/ Becomes(c, call, [call[c] EXCEPT !.step = "wipefs"])
     \/ Becomes(c, call, WipeFails(c))
  /\ excl' = [excl EXCEPT ![At(c)] = "none"]
  /\ UNCHANGED <<member, link>>

\* wipefs refuses a device that somebody has open with O_EXCL.  pvscan, which
\* follows, may fail without consequence.
wipefs(c) ==
  /\ call[c].step = "wipefs"
  /\ \/ /\ excl[At(c)] = "none"
        /\ disk' = [disk EXCEPT ![At(c)] = "blank"]
        /\ Becomes(c, Disturbed({At(c)}, c),
                   WipeFrom([call[c] EXCEPT !.erased = @ \cup {At(c)}],
                            call[c].at + 1))
     \/ /\ excl[At(c)] # "none"
        /\ Becomes(c, call, Ended(call[c], "error"))
        /\ UNCHANGED disk
     \/ /\ Becomes(c, call, WipeFails(c))
        /\ UNCHANGED disk
  /\ UNCHANGED <<member, excl, link>>

-----------------------------------------------------------------------------
\* The LVM commands.  They open devices with O_EXCL and take no device that
\* has the label of a group.  One that fails has changed nothing.
Free(d) == excl[d] = "none" /\ disk[d] \notin VGs

vgcreate(r) ==
  /\ ~Exists(r.vg)
  /\ r.devices # <<>>
  /\ \A d \in ToSet(r.devices) : Free(d)
  /\ member' = [member EXCEPT ![r.vg] = ToSet(r.devices)]
  /\ disk' = [d \in Devices |-> IF d \in ToSet(r.devices) THEN r.vg ELSE disk[d]]
  /\ UNCHANGED excl

vgextend(r) ==
  /\ Exists(r.vg)
  /\ Intact(r.vg)
  /\ Free(r.on)
  /\ member' = [member EXCEPT ![r.vg] = @ \cup {r.on}]
  /\ disk' = [disk EXCEPT ![r.on] = r.vg]
  /\ UNCHANGED excl

\* vgremove -f deactivates and removes the volumes of the group, unless one is
\* open.
vgremove(r) ==
  /\ Exists(r.vg)
  /\ \A d \in Devices : disk[d] = r.vg => excl[d] \in {"none", "active"}
  /\ member' = [member EXCEPT ![r.vg] = {}]
  /\ disk' = [d \in Devices |-> IF disk[d] = r.vg THEN "pv" ELSE disk[d]]
  /\ excl' = [d \in Devices |-> IF disk[d] = r.vg THEN "none" ELSE excl[d]]

vgreduce(r) ==
  /\ Intact(r.vg)
  /\ r.on \in member[r.vg]
  /\ member[r.vg] # {r.on}
  /\ excl[r.on] = "none"
  /\ member' = [member EXCEPT ![r.vg] = @ \ {r.on}]
  /\ disk' = [disk EXCEPT ![r.on] = "pv"]
  /\ UNCHANGED excl

Command(r) ==
  \/ r.method = "create" /\ vgcreate(r)
  \/ r.method = "add"    /\ vgextend(r)
  \/ r.method = "delete" /\ vgremove(r)
  \/ r.method = "remove" /\ vgreduce(r)

\* volume_group_create_job_thread, vgextend as a spawned job,
\* volume_group_delete_job_thread, volume_group_remdev_job_thread: the command,
\* and what follows on its exit status.
command_runs(c) ==
  LET r == [call[c] EXCEPT !.ran = TRUE]
  IN  /\ call[c].step = "command"
      /\ \/ /\ Command(r)
            /\ Becomes(c, Disturbed({d \in Devices : disk'[d] # disk[d]}, c),
                       IF r.method \in {"create", "add"} THEN Ended(r, "success")
                                                         ELSE WipeFrom(r, 1))
         \/ /\ Becomes(c, call, Ended(call[c], "error"))
            /\ UNCHANGED <<disk, member, excl>>
      /\ UNCHANGED link

\* run_io_scheduler_job: the job was cancelled before its thread did anything.
\* Once it runs, the thread does not look at the cancellable.
thread_cancelled(c) ==
  /\ call[c].method # "add"
  /\ call[c].step \in {"open", "command"}
  /\ call[c].erased = {} /\ ~call[c].ran
  /\ Becomes(c, call, Ended(call[c], "cancelled"))
  /\ UNCHANGED <<disk, member, excl, link>>

\* The spawned job of AddDevice is cancelled: its caller gets the error at
\* once, while vgextend may be at work, or done and not yet reaped.
on_cancelled(c) ==
  /\ call[c].method = "add"
  /\ call[c].step = "command"
  /\ Becomes(c, call, [Ended(call[c], "cancelled") EXCEPT !.step = "late"])
  /\ UNCHANGED <<disk, member, excl, link>>

\* That vgextend had its effect, or the signal came before it.
vgextend_ends(c) ==
  LET r == [call[c] EXCEPT !.ran = TRUE]
  IN  /\ call[c].step = "late"
      /\ \/ /\ vgextend(r)
            /\ Becomes(c, Disturbed({d \in Devices : disk'[d] # disk[d]}, c),
                       [r EXCEPT !.step = "end"])
         \/ /\ Becomes(c, call, [call[c] EXCEPT !.step = "end"])
            /\ UNCHANGED <<disk, member, excl>>
      /\ UNCHANGED link

-----------------------------------------------------------------------------
\* Somebody activates a logical volume of a group...
Activate(d) ==
  /\ excl[d] = "none"
  /\ \E v \in VGs : d \in member[v] /\ Intact(v)
  /\ excl' = [excl EXCEPT ![d] = "active"]
  /\ call' = Disturbed({d}, "user")
  /\ UNCHANGED <<disk, member, link, main>>

\* ... opens it, or mounts a file system...
Use(d) ==
  /\ excl[d] = "active" \/ (excl[d] = "none" /\ disk[d] = "data")
  /\ excl' = [excl EXCEPT ![d] = "user"]
  /\ call' = Disturbed({d}, "user")
  /\ UNCHANGED <<disk, member, link, main>>

\* ... and is done with it.
Release(d) ==
  /\ \/ /\ excl[d] = "user"
        /\ excl' = [excl EXCEPT ![d] = IF disk[d] \in VGs THEN "active" ELSE "none"]
     \/ /\ excl[d] = "active"
        /\ excl' = [excl EXCEPT ![d] = "none"]
  /\ UNCHANGED <<disk, member, link, main, call>>

\* An update of the volume groups (LvmUpdate), when the main loop is free.
UpdateLink(d) ==
  /\ main = "none"
  /\ link' = [link EXCEPT ![d] = IF disk[d] \in VGs THEN disk[d] ELSE "none"]
  /\ link' # link
  /\ UNCHANGED <<disk, member, excl, main, call>>

\* A client names each device once.
DeviceLists == UNION {SetToSeqs(S) : S \in SUBSET Devices}

HandlerNext(c) ==
  \E v \in VGs :
    \/ \E devices \in DeviceLists : handle_volume_group_create(c, v, devices)
    \/ \E d \in Devices : handle_add_device(c, v, d)
    \/ \E wipe \in BOOLEAN :
         \/ handle_delete(c, v, wipe)
         \/ \E d \in Devices : handle_remove_device(c, v, d, wipe)

JobNext(c) ==
  \/ wipe_opens(c) \/ wipe_writes(c) \/ wipefs(c)
  \/ command_runs(c) \/ thread_cancelled(c)
  \/ on_cancelled(c) \/ vgextend_ends(c)

Next ==
  \/ \E c \in Calls : HandlerNext(c) \/ JobNext(c)
  \/ \E d \in Devices : Activate(d) \/ Use(d) \/ Release(d) \/ UpdateLink(d)

Spec == Init /\ [][Next]_vars

-----------------------------------------------------------------------------
\* A device that is mounted, or holds an active volume that is open, keeps what
\* is on it: it may come into use after it was found unused (block.c:242) and
\* after any step of a wipe of it, and every later step must notice.  One that
\* holds active volumes, none of them open, keeps its label too, but for a
\* Delete of its group, whose vgremove takes the volumes with it.
UsedDevicesSurvive ==
  [][\A d \in Devices :
       /\ excl[d] = "user" => disk'[d] = disk[d]
       /\ excl[d] = "active" /\ disk'[d] # disk[d] =>
            \E c \in Calls : /\ call[c].method = "delete"
                             /\ call[c].step = "command"
                             /\ call[c].vg = disk[d]
                             /\ call'[c].ran]_vars

\* manager.c:685, "to avoid start deleting half the block devices while the
\* other half is already in use": a create (or add) that was let in and then
\* fails has erased all of its devices or none, unless a device was opened or
\* changed by somebody else after the check, or a write or wipefs failed.
ErasesAllOrNothing ==
  \A c \in Calls :
    call[c].method \in {"create", "add"}
      /\ call[c].answer \in {"error", "cancelled"} =>
    call[c].erased \in {{}, ToSet(call[c].devices)} \/ call[c].disturbed

\* The first answer tells what happened.  It is success if, and, unless the job
\* was cancelled, only if, the LVM command has run and every device to wipe was
\* wiped by this call, whichever comes first: so a create never puts a group on
\* a device that still has what it had, and a Delete that fails at a wipe is an
\* error although the group is gone.  A create, Delete or RemoveDevice that was
\* cancelled has done nothing.  An AddDevice that was cancelled has wiped its
\* device, and only there is an error answered while the command may have run.
AnswerTellsWhatHappened ==
  \A c \in Calls :
    LET r == call[c]
    IN  /\ r.answer \in {"success", "error"} =>
             (r.answer = "success" <=> r.ran /\ r.erased = ToSet(r.devices))
        /\ r.answer = "cancelled" =>
             IF r.method = "add" THEN r.erased = ToSet(r.devices)
                                 ELSE ~r.ran /\ r.erased = {}
=============================================================================
