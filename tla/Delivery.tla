------------------------------ MODULE Delivery ------------------------------
(***************************************************************************)
(* The data plane of one xsync store: uploaders publish, remove and rename *)
(* files; downloaders claim, renew, release and commit; one maintenance    *)
(* goroutine expires leases and collects garbage; the process may crash    *)
(* between any two steps.                                                  *)
(*                                                                         *)
(* A step is one bbolt transaction, one read transaction, or one change of *)
(* the blob directory: everything between two of them is private to its    *)
(* goroutine.  A call that only returns an error changes nothing and is    *)
(* not a step.                                                             *)
(***************************************************************************)
EXTENDS Catalog

CONSTANTS Claimers,      \* goroutines serving POST /v1/claims
          TTLs,          \* lease lengths a downloader may ask for
          RetryAfters,   \* delays a downloader may ask for on release
          Prefixes,      \* path prefixes a downloader may ask for
          MaxBatch,      \* delivery.max_batch
          MaxScan,       \* maxClaimScan
          PartialTTL,
          TombstoneTTL,
          MaxTime,       \* bound on the clock
          MaxSeq,        \* bound on the queue sequence, for renames only
          MaxCrashes, MaxFailures, MaxRebuilds

ASSUME DeliveryAssumption ==
    /\ TTLs \subseteq Nat \ {0}
    /\ RetryAfters \subseteq Nat
    /\ {MaxBatch, MaxScan, PartialTTL, TombstoneTTL, MaxTime, MaxSeq,
        MaxCrashes, MaxFailures, MaxRebuilds} \subseteq Nat

VARIABLES db,        \* the catalog (durable)
          blobs,     \* ids whose file is in objects/ (durable)
          now,       \* the wall clock
          drawn,     \* what randomID has returned so far
          claimer,   \* the locals of Claim, per claiming goroutine
          dropping,  \* API deletes between their check and their transaction
          todo,      \* victims of committed requests, not yet unlinked
          gcDone,    \* Store.gcDone: unlinked, entry not yet cleared
          maint,     \* the locals of the maintenance goroutine
          up,        \* Recover has returned: requests are served
          faults     \* how many crashes, failed removals and clean-ups, aborted requests, rebuilds

vars == <<db, blobs, now, drawn, claimer, dropping, todo, gcDone, maint, up, faults>>

Idle == [pc |-> "idle"]

MaintIdle == [pc |-> "idle", slow |-> FALSE, pass |-> 0, at |-> 0, due |-> {},
              held |-> {}, tombs |-> {}, own |-> {}, flush |-> {}]

NoFaults == [crash |-> 0, fail |-> 0, abort |-> 0, rebuild |-> 0]

(* A store opened on an empty directory. *)
Init ==
    /\ db = NewCatalog
    /\ blobs = {}
    /\ now = 0
    /\ drawn = {}
    /\ claimer = [c \in Claimers |-> Idle]
    /\ dropping = {}
    /\ todo = {}
    /\ gcDone = {}
    /\ maint = MaintIdle
    /\ up = TRUE
    /\ faults = NoFaults

(* A request whose transaction commits, turning db into after.  The objects the
   transaction removed are unlinked by later Collect steps of the request. *)
Commits(after) ==
    /\ up
    /\ db' = after
    /\ todo' = todo \cup victims(db, after)
    /\ UNCHANGED <<now, claimer, gcDone, maint, up, faults>>

-----------------------------------------------------------------------------
(* Uploaders. *)

(* The end of an upload: its blob is in place when the transaction runs. *)
Publish(id, t, p) ==
    /\ id \notin drawn
    /\ checkFilePath(db, t, p)
    /\ drawn' = drawn \cup {id}
    /\ blobs' = blobs \cup {id}
    /\ Commits(publish(db, id, t, p, now))
    /\ UNCHANGED dropping

Remove(t, p) ==
    /\ <<t, p>> \in DOMAIN db.namespace
    /\ LET id == db.namespace[<<t, p>>]
       IN  Commits(IF id \in DOMAIN db.objects THEN dropObject(db, id, "removed", now)
                   ELSE [db EXCEPT !.namespace = Delete(@, <<t, p>>)])
    /\ UNCHANGED <<blobs, drawn, dropping>>

(* The checks of renameFile. *)
CanRename(t, p, q, overwrite) ==
    /\ p # q
    /\ <<t, p>> \in DOMAIN db.namespace
    /\ db.namespace[<<t, p>>] \in DOMAIN db.objects
    /\ db.objects[db.namespace[<<t, p>>]].State # "LEASED"
    /\ checkFilePath(db, t, q)
    /\ <<t, q>> \in DOMAIN db.namespace => overwrite
    /\ db.seq < MaxSeq

Rename(t, p, q, overwrite) ==
    /\ CanRename(t, p, q, overwrite)
    /\ Commits(renameFile(db, <<t, p>>, <<t, q>>, now))
    /\ UNCHANGED <<blobs, drawn, dropping>>

(* RenameWith when its transaction fails to commit: the victims it collected
   inside the transaction are unlinked all the same. *)
RenameFails(t, p, q) ==
    /\ up
    /\ CanRename(t, p, q, TRUE)
    /\ faults.abort < MaxFailures
    /\ faults' = [faults EXCEPT !.abort = @ + 1]
    /\ todo' = todo \cup victims(db, renameFile(db, <<t, p>>, <<t, q>>, now))
    /\ UNCHANGED <<db, blobs, now, drawn, claimer, dropping, gcDone, maint, up>>

(* RenameWith on a directory.  A file that is being delivered makes the whole
   tree busy.  (The model has no paths but Paths to move to.) *)
RenameTree(t, old, new) ==
    /\ <<t, old>> \notin DOMAIN db.namespace
    /\ old # new /\ ~isBelow(new, old)
    /\ <<t, new>> \notin DOMAIN db.namespace
    /\ checkFilePath(db, t, new)
    /\ movedFiles(db, t, old) \cup movedDirectories(db, t, old) # {}
    /\ \A k \in movedFiles(db, t, old) :
          /\ db.namespace[k] \in DOMAIN db.objects \ InState(db, "LEASED")
          /\ rebase(db.objects[db.namespace[k]].Path, old, new) \in Paths
    /\ \A k \in movedFiles(db, t, old) \cup movedDirectories(db, t, old) :
          rebase(k[2], old, new) \in Paths
    /\ Commits(renameTree(db, t, old, new, now))
    /\ UNCHANGED <<blobs, drawn, dropping>>

Mkdir(t, p) ==
    /\ <<t, p>> \notin DOMAIN db.namespace
    /\ checkAncestors(db, t, p)
    /\ Commits([db EXCEPT !.directories = @ \cup {<<t, p>>}])
    /\ UNCHANGED <<blobs, drawn, dropping>>

RemoveDir(t, p) ==
    /\ <<t, p>> \in db.directories
    /\ ~hasChildren(db, t, p)
    /\ Commits([db EXCEPT !.directories = @ \ {<<t, p>>}])
    /\ UNCHANGED <<blobs, drawn, dropping>>

-----------------------------------------------------------------------------
(* Downloaders. *)

(* The read transaction of Claim.  With no candidate Claim returns
   ErrNotFound. *)
Search(c, t, prefix, max, ttl, tries) ==
    LET cands == findCandidates(db, t, prefix, max, MaxScan, now)
    IN  claimer' = [claimer EXCEPT ![c] =
          IF cands = {} THEN Idle
          ELSE [pc |-> "found", tenant |-> t, prefix |-> prefix, max |-> max,
                ttl |-> ttl, at |-> now, cands |-> cands, tries |-> tries]]

ClaimBegin(c, t, prefix, max, ttl) ==
    /\ up
    /\ claimer[c].pc = "idle"
    /\ Search(c, t, prefix, max, ttl, 1)
    /\ claimer' # claimer
    /\ UNCHANGED <<db, blobs, now, drawn, dropping, todo, gcDone, maint, up, faults>>

(* The write transaction, when some candidate is still there. *)
ClaimWrite(c, lease) ==
    LET won == stillReady(db, claimer[c].cands)
    IN  /\ up
        /\ claimer[c].pc = "found"
        /\ won # {}
        /\ lease \in [won -> Leases \ drawn]
        /\ \A i, j \in won : i # j => lease[i] # lease[j]
        /\ db' = claimTx(db, won, lease, claimer[c].ttl, claimer[c].at)
        /\ drawn' = drawn \cup {lease[id] : id \in won}
        /\ claimer' = [claimer EXCEPT ![c] = Idle]
        /\ UNCHANGED <<blobs, now, dropping, todo, gcDone, maint, up, faults>>

(* All candidates are gone: Claim searches again, four times in all. *)
ClaimLost(c) ==
    /\ up
    /\ claimer[c].pc = "found"
    /\ stillReady(db, claimer[c].cands) = {}
    /\ claimer' = [claimer EXCEPT ![c] =
                     IF @.tries = 4 THEN Idle
                     ELSE [@ EXCEPT !.pc = "retry", !.cands = {}]]
    /\ UNCHANGED <<db, blobs, now, drawn, dropping, todo, gcDone, maint, up, faults>>

ClaimRetry(c) ==
    /\ up
    /\ claimer[c].pc = "retry"
    /\ Search(c, claimer[c].tenant, claimer[c].prefix, claimer[c].max,
              claimer[c].ttl, claimer[c].tries + 1)
    /\ UNCHANGED <<db, blobs, now, drawn, dropping, todo, gcDone, maint, up, faults>>

(* Any downloader may call with any lease it was ever given. *)
RenewLease(l, ttl) ==
    /\ l \in DOMAIN db.claims
    /\ LET id == db.claims[l].ObjectID
       IN  /\ id \in InState(db, "LEASED")
           /\ db.objects[id].LeaseID = l
           /\ db.objects[id].LeaseUntil > now
    /\ Commits(Renew(db, l, ttl, now))
    /\ UNCHANGED <<blobs, drawn, dropping>>

(* A released object that was retracted is deleted without a Collect: sweepGC
   unlinks its blob later. *)
ReleaseWith(l, opts) ==
    /\ up
    /\ l \in DOMAIN db.claims
    /\ LET id == db.claims[l].ObjectID
       IN  \E num \in Numberings(db, requeued(db, {id}, opts)) :
              db' = releaseTx(db, l, opts, num, now)
    /\ UNCHANGED <<blobs, now, drawn, claimer, dropping, todo, gcDone, maint, up, faults>>

(* Commit with the size and digest of the object.  The deadline of the lease is
   not looked at. *)
CommitObject(id, l) ==
    /\ id \in DOMAIN db.objects
    /\ id \notin DOMAIN db.tombstones
    /\ db.objects[id].LeaseID = l
    /\ db.objects[id].State = "LEASED"
    /\ Commits(deleteObjectTx(db, {id}, "committed", now))
    /\ UNCHANGED <<blobs, drawn, dropping>>

RequeueObject(id) ==
    /\ id \in InState(db, "PARKED")
    /\ Commits(Requeue(db, id, now))
    /\ UNCHANGED <<blobs, drawn, dropping>>

(* DELETE /v1/objects/{id}: the state is read first, in a transaction of its
   own. *)
DropCheck(id) ==
    /\ up
    /\ id \in InState(db, "PARKED") \ dropping
    /\ dropping' = dropping \cup {id}
    /\ UNCHANGED <<db, blobs, now, drawn, claimer, todo, gcDone, maint, up, faults>>

DropWrite(id) ==
    /\ id \in dropping
    /\ dropping' = dropping \ {id}
    /\ Commits(IF id \in DOMAIN db.objects
                 THEN dropObject(db, id, "dropped-by-downloader", now) ELSE db)
    /\ UNCHANGED <<blobs, drawn>>

(* The administrator deletes an object, or purges its tenant. *)
AdminDelete(id) ==
    /\ id \in DOMAIN db.objects
    /\ Commits(dropObject(db, id, "deleted-by-admin", now))
    /\ UNCHANGED <<blobs, drawn, dropping>>

(* /admin/rebuild-indexes, on a running server. *)
RebuildIndexes ==
    /\ faults.rebuild < MaxRebuilds
    /\ up
    /\ db' = rebuildIndexes(db)
    /\ faults' = [faults EXCEPT !.rebuild = @ + 1]
    /\ UNCHANGED <<blobs, now, drawn, claimer, dropping, todo, gcDone, maint, up>>

-----------------------------------------------------------------------------
(* Unlinking blobs. *)

(* collect, by the request whose victim id is, or by the maintenance
   goroutine. *)
Collect(id) ==
    /\ id \in todo \cup maint.own
    /\ blobs' = blobs \ {id}
    /\ gcDone' = gcDone \cup {id}
    /\ \/ id \in todo /\ todo' = todo \ {id} /\ UNCHANGED maint
       \/ id \in maint.own /\ maint' = [maint EXCEPT !.own = @ \ {id}] /\ UNCHANGED todo
    /\ UNCHANGED <<db, now, drawn, claimer, dropping, up, faults>>

(* Mutant: the gc entry is cleared although the blob is still there. *)
CollectFails_done(id) ==
    /\ id \in todo \cup maint.own
    /\ faults.fail < MaxFailures
    /\ faults' = [faults EXCEPT !.fail = @ + 1]
    /\ todo' = todo \ {id}
    /\ maint' = [maint EXCEPT !.own = @ \ {id}]
    /\ gcDone' = gcDone \cup {id}
    /\ UNCHANGED <<db, blobs, now, drawn, claimer, dropping, up>>

(* collect when os.Remove fails: the blob and its gc entry stay. *)
CollectFails(id) ==
    /\ id \in todo \cup maint.own
    /\ faults.fail < MaxFailures
    /\ faults' = [faults EXCEPT !.fail = @ + 1]
    /\ todo' = todo \ {id}
    /\ maint' = [maint EXCEPT !.own = @ \ {id}]
    /\ UNCHANGED <<db, blobs, now, drawn, claimer, dropping, gcDone, up>>

-----------------------------------------------------------------------------
(* The maintenance goroutine.  It collects its own victims before it goes on. *)

MaintStep(from) == maint.pc = from /\ maint.own = {}

(* ExpireLeases reads the lease index; with nothing due it returns, and what
   follows it is next.  A fast tick with nothing due and nothing to flush is no
   step at all. *)
ExpireSearch ==
    LET due == dueLeases(db, now)
    IN  maint' = [maint EXCEPT
                    !.pc = IF due # {} THEN "expire" ELSE IF @ = "search" THEN "list" ELSE "flush",
                    !.at = IF due # {} THEN now ELSE 0,
                    !.due = due]

(* The fast ticker, and the slow one: maintenancePass reads the clock before
   ExpireLeases does. *)
MaintFast ==
    /\ up
    /\ MaintStep("idle")
    /\ dueLeases(db, now) # {} \/ gcDone # {}
    /\ ExpireSearch
    /\ UNCHANGED <<db, blobs, now, drawn, claimer, dropping, todo, gcDone, up, faults>>

MaintSlow ==
    /\ up
    /\ MaintStep("idle")
    /\ maint' = [maint EXCEPT !.pc = "search", !.slow = TRUE, !.pass = now]
    /\ UNCHANGED <<db, blobs, now, drawn, claimer, dropping, todo, gcDone, up, faults>>

MaintPass ==
    /\ MaintStep("search")
    /\ ExpireSearch
    /\ UNCHANGED <<db, blobs, now, drawn, claimer, dropping, todo, gcDone, up, faults>>

LeaseExpired == [RetryAfter |-> 0, Permanent |-> FALSE, Uncounted |-> FALSE]

ExpireWrite ==
    LET ids == lapsed(db, maint.due, maint.at)
    IN  /\ MaintStep("expire")
        /\ \E num \in Numberings(db, requeued(db, ids, LeaseExpired)) :
              db' = endLeases(db, ids, LeaseExpired, num, now)
        /\ maint' = [maint EXCEPT !.pc = IF maint.slow THEN "list" ELSE "flush",
                                  !.due = {}, !.at = 0, !.own = retracted(db, ids)]
        /\ UNCHANGED <<blobs, now, drawn, claimer, dropping, todo, gcDone, up, faults>>

(* ExpireLeases when its transaction fails to commit: the retracted objects it
   met are unlinked all the same; a slow pass gives up. *)
ExpireFails ==
    /\ MaintStep("expire")
    /\ faults.abort < MaxFailures
    /\ faults' = [faults EXCEPT !.abort = @ + 1]
    /\ LET own == retracted(db, lapsed(db, maint.due, maint.at))
       IN  maint' = IF maint.slow THEN [MaintIdle EXCEPT !.own = own]
                    ELSE [maint EXCEPT !.pc = "flush", !.due = {}, !.at = 0, !.own = own]
    /\ UNCHANGED <<db, blobs, now, drawn, claimer, dropping, todo, gcDone, up>>

(* The slow pass lists what its cutoffs select, then works the lists off. *)
MaintList ==
    /\ MaintStep("list")
    /\ maint' = [maint EXCEPT !.pc = "held",
                    !.held = IF PartialTTL = 0 THEN {}
                             ELSE {k[2] : k \in {j \in db.held : j[1] + PartialTTL < maint.pass}},
                    !.tombs = {k[2] : k \in {j \in db.tombTimes :
                                               j[1] + TombstoneTTL < maint.pass}}]
    /\ UNCHANGED <<db, blobs, now, drawn, claimer, dropping, todo, gcDone, up, faults>>

(* The predicate maintenancePass gives to deleteIf, evaluated again in the
   transaction that deletes. *)
abandoned_listed(id) == id \in DOMAIN db.objects  \* Mutant: no second look

abandoned(id) ==
    /\ id \in InState(db, "HELD")
    /\ db.objects[id].CreatedAt + PartialTTL < maint.pass

HeldExpire(id) ==
    /\ MaintStep("held")
    /\ id \in maint.held
    /\ db' = IF abandoned(id) THEN deleteObjectTx(db, {id}, "held-expired", now) ELSE db
    /\ maint' = [maint EXCEPT !.held = @ \ {id}, !.own = IF abandoned(id) THEN {id} ELSE {}]
    /\ UNCHANGED <<blobs, now, drawn, claimer, dropping, todo, gcDone, up, faults>>

TombExpire ==
    /\ MaintStep("held")
    /\ maint.held = {}
    /\ db' = IF maint.tombs = {} THEN db
             ELSE dropTombstones(db, maint.tombs, maint.pass - TombstoneTTL)
    /\ maint' = [maint EXCEPT !.pc = "sweep", !.tombs = {}]
    /\ UNCHANGED <<blobs, now, drawn, claimer, dropping, todo, gcDone, up, faults>>

(* Mutant: nothing is swept. *)
SweepGC_nothing ==
    /\ MaintStep("sweep")
    /\ maint' = [maint EXCEPT !.pc = "flush"]
    /\ UNCHANGED <<db, blobs, now, drawn, claimer, dropping, todo, gcDone, up, faults>>

(* sweepGC, which Recover runs too. *)
SweepGC ==
    /\ MaintStep("sweep")
    /\ maint' = [maint EXCEPT !.pc = "flush", !.own = db.gc]
    /\ UNCHANGED <<db, blobs, now, drawn, claimer, dropping, todo, gcDone, up, faults>>

(* flushGC takes what has been unlinked so far; with nothing it returns. *)
FlushTake ==
    /\ MaintStep("flush")
    /\ gcDone' = {}
    /\ IF gcDone = {} THEN maint' = MaintIdle /\ up' = TRUE
       ELSE maint' = [maint EXCEPT !.pc = "flushing", !.flush = gcDone] /\ UNCHANGED up
    /\ UNCHANGED <<db, blobs, now, drawn, claimer, dropping, todo, faults>>

FlushWrite ==
    /\ MaintStep("flushing")
    /\ db' = flushGC(db, maint.flush)
    /\ maint' = MaintIdle
    /\ up' = TRUE
    /\ UNCHANGED <<blobs, now, drawn, claimer, dropping, todo, gcDone, faults>>

FlushFails ==
    /\ MaintStep("flushing")
    /\ faults.fail < MaxFailures
    /\ faults' = [faults EXCEPT !.fail = @ + 1]
    /\ gcDone' = gcDone \cup maint.flush
    /\ maint' = MaintIdle
    /\ up' = TRUE
    /\ UNCHANGED <<db, blobs, now, drawn, claimer, dropping, todo>>

-----------------------------------------------------------------------------
(* The catalog and the files survive a crash; nothing else does.  The restarted
   process sweeps the garbage before it serves requests. *)
Crash ==
    /\ faults.crash < MaxCrashes
    /\ faults' = [faults EXCEPT !.crash = @ + 1]
    /\ claimer' = [c \in Claimers |-> Idle]
    /\ dropping' = {}
    /\ todo' = {}
    /\ gcDone' = {}
    /\ maint' = [MaintIdle EXCEPT !.pc = "sweep"]
    /\ up' = FALSE
    /\ UNCHANGED <<db, blobs, now, drawn>>

Tick ==
    /\ now < MaxTime
    /\ now' = now + 1
    /\ UNCHANGED <<db, blobs, drawn, claimer, dropping, todo, gcDone, maint, up, faults>>

Uploader ==
    \E t \in Tenants, p \in Paths :
       \/ \E id \in Ids : Publish(id, t, p)
       \/ Remove(t, p) \/ Mkdir(t, p) \/ RemoveDir(t, p)
       \/ \E q \in Paths : RenameTree(t, p, q)
       \/ \E q \in Paths : \/ \E overwrite \in BOOLEAN : Rename(t, p, q, overwrite)
                            \/ RenameFails(t, p, q)

ClaimStep ==
    \E c \in Claimers :
       \/ \E t \in Tenants, prefix \in Prefixes, max \in 1..MaxBatch, ttl \in TTLs :
             ClaimBegin(c, t, prefix, max, ttl)
       \/ /\ claimer[c].pc = "found"
          /\ \E lease \in [stillReady(db, claimer[c].cands) -> Leases \ drawn] :
                ClaimWrite(c, lease)
       \/ ClaimLost(c)
       \/ ClaimRetry(c)

Downloader ==
    \/ ClaimStep
    \/ \E l \in Leases :
          \/ \E ttl \in TTLs \cup {0} : RenewLease(l, ttl)
          \/ \E after \in RetryAfters, permanent, uncounted \in BOOLEAN :
                ReleaseWith(l, [RetryAfter |-> after, Permanent |-> permanent,
                                Uncounted |-> uncounted])
          \/ \E id \in Ids : CommitObject(id, l)
    \/ \E id \in Ids : RequeueObject(id) \/ DropCheck(id) \/ DropWrite(id)

Admin == RebuildIndexes \/ \E id \in Ids : AdminDelete(id)

Maintenance ==
    \/ MaintFast \/ MaintSlow \/ MaintPass \/ ExpireWrite \/ ExpireFails
    \/ MaintList \/ TombExpire \/ SweepGC \/ FlushTake \/ FlushWrite \/ FlushFails
    \/ \E id \in Ids : HeldExpire(id)

Next ==
    \/ Uploader \/ Downloader \/ Admin \/ Maintenance \/ Crash \/ Tick
    \/ \E id \in Ids : Collect(id) \/ CollectFails(id)

Spec == Init /\ [][Next]_vars

-----------------------------------------------------------------------------
(* Properties. *)

ClaimLocals(pc, rounds) ==
    [pc : {pc}, tenant : Tenants, prefix : Prefixes, max : Nat, ttl : TTLs, at : Nat,
     cands : SUBSET [seq : Nat, id : Ids], tries : 1..rounds]

ClaimerType == {Idle} \cup ClaimLocals("found", 4) \cup ClaimLocals("retry", 3)

MaintType == [pc : {"idle", "search", "expire", "list", "held", "sweep", "flush", "flushing"},
              slow : BOOLEAN, pass : Nat, at : Nat, due : SUBSET Ids, held : SUBSET Ids,
              tombs : SUBSET Ids, own : SUBSET Ids, flush : SUBSET Ids]

(* Every variable has its type. *)
TypeOK ==
    /\ CatalogType(db)
    /\ blobs \subseteq Ids
    /\ now \in Nat
    /\ drawn \subseteq Ids \cup Leases
    /\ claimer \in [Claimers -> ClaimerType]
    /\ dropping \subseteq Ids
    /\ todo \subseteq Ids
    /\ gcDone \subseteq Ids
    /\ maint \in MaintType
    /\ up \in BOOLEAN
    /\ faults \in [crash : Nat, fail : Nat, abort : Nat, rebuild : Nat]

(* What catalog check verifies, and more: after any sequence of transactions the
   fields of every object agree with its state and every index bucket holds
   exactly what its primary records call for (Store.Check: READY but not queued,
   LEASED without a lease index entry).  The uploader's tree never leads to a
   deleted, moved or withdrawn object, and never holds a file and a directory of
   one name, or anything below a file ("the namespace never holds both", Mkdir). *)
IndexesAgree ==
    /\ StatesAgree(db) /\ QueueAgrees(db) /\ QueueOrdered(db) /\ LeasesAgree(db) /\ TimesAgree(db)
    /\ NamespaceAgrees(db) /\ FilesApart(db)

(* A lease has one object and a leased object one claim, so that an old holder
   can neither commit nor renew what somebody else now holds. *)
OneHolder == ClaimsAgree(db)

(* Every object in the catalog has its blob on disk (Store.Check: blob missing),
   as long as no rename or lease sweep failed to commit. *)
BlobPresent == faults.abort = 0 => DOMAIN db.objects \subseteq blobs

(* Every blob on disk belongs to an object or waits in the gc bucket, whatever
   crashed in between: none is leaked. *)
NoLeak == blobs \subseteq DOMAIN db.objects \cup db.gc

(* Under the supersede policy, only the newest version at a path can be
   delivered: every object that was not withdrawn is what its path leads to. *)
CurrentOnly ==
    \A id \in DOMAIN db.objects :
       LET o == db.objects[id]
       IN  o.Tenant \in Supersede /\ ~o.Retracted =>
             nsKey(o) \in DOMAIN db.namespace /\ db.namespace[nsKey(o)] = id

(* An object waits for delivery only while it has attempts left. *)
AttemptBudget ==
    \A id \in DOMAIN db.objects :
       /\ id \in InState(db, "READY") => db.objects[id].Attempts < MaxAttempts
       /\ id \in InState(db, "LEASED") => db.objects[id].Attempts \in 1..MaxAttempts

(* The objects that are offered, or out, under a temporary name. *)
OfferedHeld(cat) ==
    {id \in InState(cat, "READY") \cup InState(cat, "LEASED") :
       cat.objects[id].Path \in HeldPaths}

(* A file under a temporary name is not put into the queue, whatever its renames
   cross: the one exception is a dead letter that was renamed and then requeued,
   which Requeue does not hold back. *)
HeldBack == [][OfferedHeld(db') \ OfferedHeld(db) \subseteq InState(db, "PARKED")]_vars

(* Only a temporary file that is still held and older than PartialTTL is removed
   as abandoned: one renamed to its final name after maintenancePass listed it is
   safe. *)
AbandonedOnly ==
    [][\A id \in DOMAIN db.objects \ DOMAIN db'.objects :
         db'.tombstones[id].Reason = "held-expired" =>
            /\ db.objects[id].State = "HELD"
            /\ db.objects[id].CreatedAt + PartialTTL < now]_vars

(* A tombstone outlives TombstoneTTL, so a commit repeated within it succeeds:
   maintenancePass lists the old tombstones and deletes the list in a later
   transaction that does not look at their age again. *)
TombstoneKept ==
    [][\A id \in DOMAIN db.tombstones \ DOMAIN db'.tombstones :
         db.tombstones[id].DeletedAt + TombstoneTTL < now]_vars

(* A delayed object is not handed out before it becomes visible, although the
   search that saw it visible ran earlier than the claim.  (A rebuild uses queue
   positions again, and a claim that spans one may be deceived.) *)
DelayHonoured ==
    [][\A id \in InState(db, "READY") \cap InState(db', "LEASED") :
         faults.rebuild = 0 => db.objects[id].VisibleAt <= now]_vars

(* A lease that has run out ends: the sweep gives the object back, parks it or
   deletes it, or its holder commits after all. *)
LapsedLeaseEnds ==
    \A l \in Leases :
       (l \in DOMAIN db.claims /\ db.claims[l].LeaseUntil <= now) ~> (l \notin DOMAIN db.claims)

(* The blob of a deleted object is unlinked and its gc entry cleared, although
   the step that unlinks it may be lost in a crash. *)
GarbageCollected ==
    \A id \in Ids : (id \in db.gc) ~> (id \notin db.gc \cup blobs)

-----------------------------------------------------------------------------
(* What the documents or comments promise and the code does not keep. *)

(* "It returns the deleted object, whose blob the caller unlinks after commit"
   (replacePath): an object that is in the catalog keeps its blob. *)
UnlinkedAfterCommit == DOMAIN db.objects \subseteq blobs
=============================================================================
