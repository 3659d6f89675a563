------------------------------ MODULE Capacity ------------------------------
(***************************************************************************)
(* The capacity controller: the concurrent-upload slots of an account,     *)
(* whose semaphore is exchanged when the account's limit changes, and the  *)
(* reservations of disk space, which are granted against a measurement     *)
(* that is up to a second old.  One account.  Rates are not modelled.      *)
(*                                                                         *)
(* A tenant state and a semaphore are the numbers of their creation, 0 is  *)
(* none.  Disk space is counted in small units; the reserve floor and the  *)
(* hard watermark are numbers of free units.                               *)
(***************************************************************************)
EXTENDS Integers, Sequences, FiniteSets, FiniteSetsExt

CONSTANTS Uploads,
          Slots,         \* values of max_concurrent an operator sets
          MaxChanges,    \* changes of the account
          Jobs,          \* server-side writes of known size
          Sizes,
          Total,         \* size of the disk
          Floor,         \* reserveFloor
          HardFree,      \* free units at the hard watermark
          MaxDeletes, MaxFailures

VARIABLES account,   \* the tenant state in the controller's map
          semOf,     \* the semaphore of each tenant state
          sems,      \* the semaphores: capacity and length
          changes,
          upload,
          free,      \* available on the disk
          reserved,
          snapshot, sample,
          job,
          spent,     \* deletions and failures so far
          outside,   \* history: units used outside a live reservation since the
                     \* measurement that the oldest one was granted on
          since      \* history: the same since the measurement in progress

slotVars == <<account, semOf, sems, changes, upload>>

spaceVars == <<free, reserved, snapshot, sample, job, spent, outside, since>>

vars == <<slotVars, spaceVars>>

NoUpload == [pc |-> "idle", st |-> 0, sem |-> 0]

NoJob == [pc |-> "idle", size |-> 0, done |-> 0]

critical(eff) == eff <= Floor

rejectNew(eff) == eff <= HardFree \/ critical(eff)

Init ==
    /\ \E n \in Slots : sems = <<[cap |-> n, len |-> 0]>>
    /\ account = 1 /\ semOf = <<1>>
    /\ changes = 0
    /\ upload = [u \in Uploads |-> NoUpload]
    /\ free = Total /\ reserved = 0
    /\ snapshot = [avail |-> Total, critical |-> critical(Total), reject |-> rejectNew(Total)]
    /\ sample = [pc |-> "idle", avail |-> 0, eff |-> 0]
    /\ job = [j \in Jobs |-> NoJob]
    /\ spent = [deletes |-> 0, failures |-> 0]
    /\ outside = 0 /\ since = 0

-----------------------------------------------------------------------------
(* Slots.                                                                  *)

At(u, pc) == upload[u].pc = pc

(* A new account gets a state, a changed limit a new semaphore; an account *)
(* that is gone loses its state.                                           *)
SyncTenants(n) ==
    /\ changes < MaxChanges /\ changes' = changes + 1
    /\ IF n = 0 THEN account' = 0 /\ UNCHANGED <<semOf, sems>>
       ELSE IF account # 0 /\ sems[semOf[account]].cap = n THEN UNCHANGED <<account, semOf, sems>>
       ELSE /\ sems' = Append(sems, [cap |-> n, len |-> 0])
            /\ IF account = 0
               THEN semOf' = Append(semOf, Len(sems) + 1) /\ account' = Len(semOf) + 1
               ELSE semOf' = [semOf EXCEPT ![account] = Len(sems) + 1] /\ UNCHANGED account
    /\ UNCHANGED <<upload, spaceVars>>

(* AcquireUpload: without a tenant state there is no limit. *)
AcquireUpload(u) ==
    /\ At(u, "idle")
    /\ upload' = [upload EXCEPT ![u] = [pc |-> IF account = 0 THEN "holding" ELSE "found",
                                        st |-> account, sem |-> 0]]
    /\ UNCHANGED <<account, semOf, sems, changes, spaceVars>>

take(u, sem) ==
    /\ sems[sem].len < sems[sem].cap
    /\ sems' = [sems EXCEPT ![sem].len = @ + 1]
    /\ upload' = [upload EXCEPT ![u].pc = "holding", ![u].sem = sem]

(* The semaphore is read from the tenant state without its lock. *)
Try(u) ==
    /\ At(u, "found")
    /\ LET sem == semOf[upload[u].st] IN
       \/ take(u, sem)
       \/ /\ sems[sem].len >= sems[sem].cap
          /\ upload' = [upload EXCEPT ![u].pc = "waiting", ![u].sem = sem]
          /\ UNCHANGED sems
    /\ UNCHANGED <<account, semOf, changes, spaceVars>>

Get(u) ==
    /\ At(u, "waiting") /\ take(u, upload[u].sem)
    /\ UNCHANGED <<account, semOf, changes, spaceVars>>

(* upload_slot_wait is over, or the client has gone. *)
GiveUp(u) ==
    /\ At(u, "waiting")
    /\ upload' = [upload EXCEPT ![u] = NoUpload]
    /\ UNCHANGED <<account, semOf, sems, changes, spaceVars>>

(* Mutant: the slot goes back to the semaphore of the day. *)
release_current(u) ==
    /\ At(u, "holding")
    /\ LET sem == semOf[upload[u].st] IN
       IF upload[u].sem = 0 THEN UNCHANGED sems
       ELSE sems[sem].len > 0 /\ sems' = [sems EXCEPT ![sem].len = @ - 1]
    /\ upload' = [upload EXCEPT ![u] = NoUpload]
    /\ UNCHANGED <<account, semOf, changes, spaceVars>>

(* The slot goes back to the semaphore it came from. *)
release(u) ==
    /\ At(u, "holding")
    /\ LET sem == upload[u].sem IN
       IF sem = 0 THEN UNCHANGED sems
       ELSE sems[sem].len > 0 /\ sems' = [sems EXCEPT ![sem].len = @ - 1]
    /\ upload' = [upload EXCEPT ![u] = NoUpload]
    /\ UNCHANGED <<account, semOf, changes, spaceVars>>

SlotNext ==
    \/ \E n \in Slots \cup {0} : SyncTenants(n)
    \/ \E u \in Uploads : AcquireUpload(u) \/ Try(u) \/ Get(u) \/ GiveUp(u) \/ release(u)

-----------------------------------------------------------------------------
(* Space.                                                                  *)

Live == {j \in Jobs : job[j].pc = "live"}

(* The total of n units used that no live reservation accounts for. *)
Outside(n) ==
    /\ outside' = Min({Total, outside + n})
    /\ since' = Min({Total, since + n})

Failure ==
    /\ spent.failures < MaxFailures
    /\ spent' = [spent EXCEPT !.failures = @ + 1]

(* Sample: statfs, then what is reserved, then the snapshot. *)
Sample ==
    /\ sample.pc = "idle"
    /\ sample' = [sample EXCEPT !.pc = "measured", !.avail = free]
    /\ since' = 0
    /\ UNCHANGED <<slotVars, free, reserved, snapshot, job, spent, outside>>

(* statfs fails: the disk counts as critical. *)
SampleFails ==
    /\ sample.pc = "idle" /\ Failure
    /\ snapshot' = [snapshot EXCEPT !.critical = TRUE, !.reject = TRUE]
    /\ UNCHANGED <<slotVars, free, reserved, sample, job, outside, since>>

effAvail ==
    /\ sample.pc = "measured"
    /\ sample' = [sample EXCEPT !.pc = "computed", !.eff = Max({0, sample.avail - reserved})]
    /\ UNCHANGED <<slotVars, free, reserved, snapshot, job, spent, outside, since>>

Publish ==
    /\ sample.pc = "computed"
    /\ snapshot' = [avail |-> sample.avail, critical |-> critical(sample.eff),
                    reject |-> rejectNew(sample.eff)]
    /\ sample' = [pc |-> "idle", avail |-> 0, eff |-> 0]
    /\ outside' = IF Live = {} THEN since ELSE outside
    /\ UNCHANGED <<slotVars, free, reserved, job, spent, since>>

(* Mutant: what is reserved already does not count. *)
Reserve_unreserved(j, n) ==
    /\ job[j].pc = "idle"
    /\ ~snapshot.critical /\ ~snapshot.reject
    /\ snapshot.avail >= Floor + n
    /\ reserved' = reserved + n
    /\ job' = [job EXCEPT ![j] = [pc |-> "live", size |-> n, done |-> 0]]
    /\ UNCHANGED <<slotVars, free, snapshot, sample, spent, outside, since>>

Reserve(j, n) ==
    /\ job[j].pc = "idle"
    /\ ~snapshot.critical /\ ~snapshot.reject
    /\ snapshot.avail >= reserved + Floor + n
    /\ reserved' = reserved + n
    /\ job' = [job EXCEPT ![j] = [pc |-> "live", size |-> n, done |-> 0]]
    /\ UNCHANGED <<slotVars, free, snapshot, sample, spent, outside, since>>

(* The job, an assembly or the copy of a file that is appended to, writes. *)
Fill(j) ==
    /\ j \in Live /\ job[j].done < job[j].size /\ free > 0
    /\ free' = free - 1
    /\ job' = [job EXCEPT ![j].done = @ + 1]
    /\ UNCHANGED <<slotVars, reserved, snapshot, sample, spent, outside, since>>

(* The reservation ends, the units stay in use. *)
Unreserve(j) ==
    /\ reserved' = reserved - job[j].size
    /\ job' = [job EXCEPT ![j] = NoJob]
    /\ Outside(job[j].done)
    /\ UNCHANGED <<slotVars, free, snapshot, sample>>

Finish(j) ==
    /\ j \in Live /\ job[j].done = job[j].size
    /\ Unreserve(j) /\ UNCHANGED spent

Break(j) == j \in Live /\ Failure /\ Unreserve(j)

(* WaitN lets a client write. *)
WaitN ==
    /\ ~snapshot.critical /\ free > 0
    /\ free' = free - 1
    /\ Outside(1)
    /\ UNCHANGED <<slotVars, reserved, snapshot, sample, job, spent>>

(* A blob, a partial or the parts of an assembled upload are removed. *)
Delete ==
    /\ spent.deletes < MaxDeletes
    /\ Total - free > MapThenSumSet(LAMBDA j : job[j].done, Live)
    /\ free' = free + 1
    /\ spent' = [spent EXCEPT !.deletes = @ + 1]
    /\ UNCHANGED <<slotVars, reserved, snapshot, sample, job, outside, since>>

SpaceNext ==
    \/ Sample \/ SampleFails \/ effAvail \/ Publish \/ WaitN \/ Delete
    \/ \E j \in Jobs : Fill(j) \/ Finish(j) \/ Break(j) \/ \E n \in Sizes : Reserve(j, n)

Next == SlotNext \/ SpaceNext

Spec == Init /\ [][Next]_vars

-----------------------------------------------------------------------------

(* Every semaphore, the exchanged ones included, is as full as the uploads *)
(* holding one of its slots make it and never fuller than its capacity: an *)
(* upload that outlives a change of its account neither blocks at its end  *)
(* nor takes a slot of the account's new limit away.                       *)
SlotsExact ==
    \A s \in DOMAIN sems :
       /\ sems[s].len = Cardinality({u \in Uploads : At(u, "holding") /\ upload[u].sem = s})
       /\ sems[s].len <= sems[s].cap

Remaining == MapThenSumSet(LAMBDA j : job[j].size - job[j].done, Live)

(* "concurrent reservations cannot all pass against the same free space":  *)
(* what the jobs have still to write fits above the floor, up to what was  *)
(* written outside reservations since the measurement they were granted    *)
(* on, however measurements, failures and releases interleave.             *)
ReservedFits == Live # {} => Remaining + Floor <= free + outside
=============================================================================
