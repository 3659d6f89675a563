------------------------------ MODULE Catalog -------------------------------
(***************************************************************************)
(* The bbolt catalog and the transactions the store runs on it.            *)
(*                                                                         *)
(* A catalog is a record of buckets; a transaction is an operator from the *)
(* catalog before it (and the instant s.now() it reads) to the catalog     *)
(* after it.  bbolt serialises write transactions and makes each of them   *)
(* atomic and durable, so nothing finer than this is observable.  The      *)
(* state machines that run these transactions are in Delivery.             *)
(*                                                                         *)
(* A definition named X_y and marked Mutant is X with a plausible slip; no *)
(* behaviour uses it.  PROJECT.json says which property rejects it.        *)
(*                                                                         *)
(* Where the code loops over several objects inside one transaction (a     *)
(* batch claim, a lease sweep, an index rebuild), the operator updates the *)
(* whole set at once: the iterations touch different objects and only the  *)
(* order of the new queue positions is observable, which num records.      *)
(***************************************************************************)
EXTENDS Naturals, FiniteSets, Sequences, Bucket

CONSTANTS Ids,        \* what randomID may return for an upload, later an object
          Leases,     \* what randomID may return for a lease
          Tenants,
          Paths,      \* cleaned file paths: nonempty sequences of segments
          HeldPaths,  \* the paths Held() reports: a hold pattern matches their base name
          Shadows,    \* pairs <<s, d>> of segments: d is s followed by a byte below "/"
          Supersede,  \* the tenants whose policy is supersede rather than keep
          MaxAttempts,
          PublishDelay,
          NoLease

ASSUME CatalogAssumption ==
    /\ IsFiniteSet(Ids)
    /\ <<>> \notin Paths
    /\ HeldPaths \subseteq Paths
    /\ \A p, q \in Paths : p[Len(p)] = q[Len(q)] => (p \in HeldPaths <=> q \in HeldPaths)
    /\ Supersede \subseteq Tenants
    /\ MaxAttempts \in Nat \ {0}
    /\ PublishDelay \in Nat
    /\ NoLease \notin Leases

States == {"READY", "LEASED", "HELD", "PARKED"}

Object == [ID : Ids, Tenant : Tenants, Path : Paths, State : States,
           Version : Nat, QueueSeq : Nat, VisibleAt : Nat, CreatedAt : Nat,
           LeaseID : Leases \cup {NoLease}, LeaseUntil : Nat, Attempts : Nat,
           ParkedAt : Nat, Retracted : BOOLEAN]

Claim == [ObjectID : Ids, Tenant : Tenants, LeaseUntil : Nat, LeaseSeconds : Nat]

Reasons == {"committed", "retracted", "superseded", "removed", "held-expired",
            "dropped-by-downloader", "deleted-by-admin"}

Tombstone == [Tenant : Tenants, Reason : Reasons, DeletedAt : Nat]

Buckets == {"objects", "namespace", "claims", "tombstones", "gc", "directories", "queue",
            "queueSeg", "leases", "held", "parked", "tombTimes", "seq", "versions"}

NewCatalog ==
    [objects |-> EmptyBucket, namespace |-> EmptyBucket, claims |-> EmptyBucket,
     tombstones |-> EmptyBucket, gc |-> {}, directories |-> {},
     queue |-> EmptyBucket, queueSeg |-> EmptyBucket, leases |-> EmptyBucket,
     held |-> {}, parked |-> {}, tombTimes |-> {},
     seq |-> 0, versions |-> 0]

-----------------------------------------------------------------------------
(* Keys of the index buckets. *)

nsKey(o) == <<o.Tenant, o.Path>>
firstSegment(p) == p[1]
queueKey(o) == <<o.Tenant, o.QueueSeq, o.ID>>
queueSegKey(o) == <<o.Tenant, firstSegment(o.Path), o.QueueSeq, o.ID>>
queueValue(o) == <<o.VisibleAt, o.Path>>
leaseKey(o) == <<o.LeaseUntil, o.ID>>
heldKey(o) == <<o.CreatedAt, o.ID>>
parkedKey(o) == <<o.Tenant, o.ParkedAt, o.ID>>

(* pathHasPrefix: matching is on whole segments; the empty prefix is every
   path. *)
pathHasPrefix(p, prefix) ==
    /\ Len(prefix) <= Len(p)
    /\ \A i \in 1..Len(prefix) : p[i] = prefix[i]

(* p lies strictly below the directory d. *)
isBelow(p, d) == p # d /\ pathHasPrefix(p, d)

(* The objects in a given state. *)
InState(db, st) == {id \in DOMAIN db.objects : db.objects[id].State = st}

-----------------------------------------------------------------------------
(* The checks that keep files and directories apart. *)

hasChildren(db, t, p) ==
    \E k \in DOMAIN db.namespace \cup db.directories : k[1] = t /\ isBelow(k[2], p)

isDirectory(db, t, p) == <<t, p>> \in db.directories \/ hasChildren(db, t, p)

checkAncestors(db, t, p) ==
    \A k \in DOMAIN db.namespace : ~(k[1] = t /\ isBelow(p, k[2]))

checkFilePath(db, t, p) == ~isDirectory(db, t, p) /\ checkAncestors(db, t, p)

-----------------------------------------------------------------------------
(* The delivery queue. *)

putQueueEntries(db, o) ==
    [db EXCEPT !.queue = Put(@, queueKey(o), queueValue(o)),
               !.queueSeg = Put(@, queueSegKey(o), queueValue(o))]

(* enqueue, with the put of the object that follows it at every call. *)
enqueue(db, o, visible) ==
    LET q == [o EXCEPT !.QueueSeq = db.seq + 1, !.VisibleAt = visible]
    IN  [putQueueEntries(db, q) EXCEPT !.seq = db.seq + 1,
                                       !.objects = Put(@, o.ID, q)]

(* Mutant: the entry by first segment stays. *)
dequeue_oneIndex(db, o) ==
    IF o.QueueSeq = 0 THEN db ELSE [db EXCEPT !.queue = Delete(@, queueKey(o))]

dequeue(db, o) ==
    IF o.QueueSeq = 0 THEN db
    ELSE [db EXCEPT !.queue = Delete(@, queueKey(o)),
                    !.queueSeg = Delete(@, queueSegKey(o))]

-----------------------------------------------------------------------------
(* deleteObjectTx, for every object of a set: with an object go its namespace
   entry, if the path is still its own, its queue entries, its claim and lease,
   its held or parked entry.  A tombstone and a garbage-collection entry stay. *)
deleteObjectTx(db, ids, reason, now) ==
    LET own == {id \in ids : /\ nsKey(db.objects[id]) \in DOMAIN db.namespace
                             /\ db.namespace[nsKey(db.objects[id])] = id}
        queued == {id \in ids : db.objects[id].QueueSeq # 0}
        leased == {id \in ids : db.objects[id].LeaseID # NoLease}
        parked == {id \in ids : db.objects[id].State = "PARKED"}
        held == {id \in ids : db.objects[id].State = "HELD"}
    IN  [db EXCEPT
           !.namespace = DeleteAll(@, {nsKey(db.objects[id]) : id \in own}),
           !.queue = DeleteAll(@, {queueKey(db.objects[id]) : id \in queued}),
           !.queueSeg = DeleteAll(@, {queueSegKey(db.objects[id]) : id \in queued}),
           !.claims = DeleteAll(@, {db.objects[id].LeaseID : id \in leased}),
           !.leases = DeleteAll(@, {leaseKey(db.objects[id]) : id \in leased}),
           !.parked = @ \ {parkedKey(db.objects[id]) : id \in parked},
           !.held = @ \ {heldKey(db.objects[id]) : id \in held},
           !.tombstones = [i \in DOMAIN @ \cup ids |->
                             IF i \in ids
                               THEN [Tenant |-> db.objects[i].Tenant,
                                     Reason |-> reason, DeletedAt |-> now]
                               ELSE @[i]],
           !.tombTimes = @ \cup {<<now, id>> : id \in ids},
           !.gc = @ \cup ids,
           !.objects = DeleteAll(@, ids)]

(* A leased object is not deleted but retracted: it loses its path and is
   deleted when its lease ends without a commit. *)
retract(db, id) ==
    LET k == nsKey(db.objects[id])
        own == k \in DOMAIN db.namespace /\ db.namespace[k] = id
    IN  [db EXCEPT !.objects[id].Retracted = TRUE,
                   !.namespace = IF own THEN Delete(@, k) ELSE @]

(* Mutant: an object being delivered is deleted at once. *)
dropObject_leased(db, id, reason, now) == deleteObjectTx(db, {id}, reason, now)

(* DeleteObject, Remove and replacePath share this choice. *)
dropObject(db, id, reason, now) ==
    IF db.objects[id].State = "LEASED" THEN retract(db, id)
                                       ELSE deleteObjectTx(db, {id}, reason, now)

(* Mutant: the blob of a retracted object is unlinked with the others. *)
victims_retracted(before, after) ==
    {id \in DOMAIN before.objects :
       id \in DOMAIN after.objects => after.objects[id].Retracted}

(* The blobs the caller unlinks once the transaction has committed. *)
victims(before, after) == DOMAIN before.objects \ DOMAIN after.objects

-----------------------------------------------------------------------------
(* Publishing. *)

(* place stores o in the state its name calls for. *)
place(db, o, now) ==
    IF o.Path \in HeldPaths
      THEN [db EXCEPT !.held = @ \cup {heldKey(o)},
                      !.objects = Put(@, o.ID, [o EXCEPT !.State = "HELD"])]
      ELSE enqueue(db, [o EXCEPT !.State = "READY"], now + PublishDelay)

(* Mutant: the replaced object is only detached, whatever the policy. *)
replacePath_keep(db, k, now) == [db EXCEPT !.namespace = Delete(@, k)]

(* replacePath detaches whatever is published at the key k. *)
replacePath(db, k, now) ==
    IF k \notin DOMAIN db.namespace THEN db
    ELSE LET id == db.namespace[k]
             detached == [db EXCEPT !.namespace = Delete(@, k)]
         IN  IF k[1] \notin Supersede \/ id \notin DOMAIN db.objects THEN detached
             ELSE dropObject(detached, id, "superseded", now)

(* publish: the transaction that turns a finished upload into an object. *)
publish(db, id, t, p, now) ==
    LET o == [ID |-> id, Tenant |-> t, Path |-> p, State |-> "READY",
              Version |-> db.versions + 1, QueueSeq |-> 0, VisibleAt |-> 0,
              CreatedAt |-> now, LeaseID |-> NoLease, LeaseUntil |-> 0,
              Attempts |-> 0, ParkedAt |-> 0, Retracted |-> FALSE]
        numbered == [db EXCEPT !.versions = @ + 1]
        placed == place(replacePath(numbered, <<t, p>>, now), o, now)
    IN  [placed EXCEPT !.namespace = Put(@, <<t, p>>, id)]

(* Mutant: a name is only looked at when it is left. *)
moveObject_offered(db, o, p, now) ==
    LET moved == [o EXCEPT !.Path = p]
        out == dequeue(db, o)
    IN  IF o.State = "HELD" /\ p \notin HeldPaths
          THEN place([out EXCEPT !.held = @ \ {heldKey(o)}], moved, now)
          ELSE [IF o.QueueSeq # 0 THEN putQueueEntries(out, moved) ELSE out
                  EXCEPT !.objects = Put(@, o.ID, moved)]

(* moveObject: the new path, the same queue position; the object changes state
   only when the rename crosses a hold pattern. *)
moveObject(db, o, p, now) ==
    LET moved == [o EXCEPT !.Path = p]
        out == dequeue(db, o)
    IN  CASE o.State = "HELD" /\ p \notin HeldPaths ->
               place([out EXCEPT !.held = @ \ {heldKey(o)}], moved, now)
          [] o.State = "READY" /\ p \in HeldPaths ->
               place(out, [moved EXCEPT !.QueueSeq = 0], now)
          [] OTHER ->
               [IF o.QueueSeq # 0 THEN putQueueEntries(out, moved) ELSE out
                  EXCEPT !.objects = Put(@, o.ID, moved)]

(* renameFile, once its checks have passed: whatever is published at the
   destination is replaced first. *)
renameFile(db, from, to, now) ==
    LET id == db.namespace[from]
        moved == moveObject(replacePath(db, to, now), db.objects[id], to[2], now)
    IN  [moved EXCEPT !.namespace = Delete(Put(@, to, id), from)]

(* The directory entries collectTreeMoves finds: the cursor starts at the entry
   of old itself and stops at the first key that is neither old nor below it.  A
   directory whose name sorts between old and what is below old hides the
   latter. *)
movedDirectories(db, t, old) ==
    LET n == Len(old)
        hidden == \E k \in db.directories :
                     /\ k[1] = t /\ Len(k[2]) >= n
                     /\ SubSeq(k[2], 1, n - 1) = SubSeq(old, 1, n - 1)
                     /\ <<old[n], k[2][n]>> \in Shadows
    IN  {k \in db.directories : k[1] = t /\ (k[2] = old \/ (isBelow(k[2], old) /\ ~hidden))}

movedFiles(db, t, old) == {k \in DOMAIN db.namespace : k[1] = t /\ isBelow(k[2], old)}

(* The path p, below or at old, after old has become new. *)
rebase(p, old, new) == new \o SubSeq(p, Len(old) + 1, Len(p))

(* renameTree, once its checks have passed: moveObject for every file below old.
   A file keeps its base name, so none leaves the held state here. *)
renameTree(db, t, old, new, now) ==
    LET files == movedFiles(db, t, old)
        dirs == movedDirectories(db, t, old)
        ids == {db.namespace[k] : k \in files}
        At(id) == db.objects[id]
        Moved(id) == [At(id) EXCEPT !.Path = rebase(@, old, new)]
        hold == {id \in ids : At(id).State = "READY" /\ Moved(id).Path \in HeldPaths}
        queued == {id \in ids : At(id).QueueSeq # 0} \ hold
        outKeys == {queueKey(At(id)) : id \in hold \cup queued}
        outSegs == {queueSegKey(At(id)) : id \in hold \cup queued}
        inKeys == {queueKey(Moved(id)) : id \in queued}
        inSegs == {queueSegKey(Moved(id)) : id \in queued}
        into == {<<t, rebase(k[2], old, new)>> : k \in files}
        from(k) == <<t, rebase(k[2], new, old)>>
    IN  [db EXCEPT
           !.objects = [id \in DOMAIN @ |->
                          CASE id \in hold -> [Moved(id) EXCEPT !.State = "HELD", !.QueueSeq = 0]
                            [] id \in ids \ hold -> Moved(id)
                            [] OTHER -> @[id]],
           !.namespace = [k \in (DOMAIN @ \ files) \cup into |->
                            IF k \in into THEN @[from(k)] ELSE @[k]],
           !.directories = (@ \ dirs) \cup {<<t, rebase(k[2], old, new)>> : k \in dirs},
           !.held = @ \cup {heldKey(At(id)) : id \in hold},
           !.queue = [k \in (DOMAIN @ \ outKeys) \cup inKeys |->
                        IF k \in inKeys THEN queueValue(Moved(k[3])) ELSE @[k]],
           !.queueSeg = [k \in (DOMAIN @ \ outSegs) \cup inSegs |->
                           IF k \in inSegs THEN queueValue(Moved(k[4])) ELSE @[k]]]

-----------------------------------------------------------------------------
(* Claiming.  A candidate is a queue entry seen by an earlier read
   transaction. *)

(* findCandidates: at most max visible entries under prefix, the front of the
   queue first; the scan gives up after scan entries.  A prefix is searched
   through the index by first segment. *)
findCandidates(db, t, prefix, max, scan, now) ==
    LET entries ==
          IF prefix = <<>>
            THEN {[seq |-> k[2], id |-> k[3], visible |-> db.queue[k][1],
                   path |-> db.queue[k][2]] :
                    k \in {j \in DOMAIN db.queue : j[1] = t}}
            ELSE {[seq |-> k[3], id |-> k[4], visible |-> db.queueSeg[k][1],
                   path |-> db.queueSeg[k][2]] :
                    k \in {j \in DOMAIN db.queueSeg :
                              j[1] = t /\ j[2] = firstSegment(prefix)}}
        First(n, S) == {e \in S : Cardinality({f \in S : f.seq < e.seq}) < n}
        visible == {e \in First(scan, entries) :
                      e.visible <= now /\ pathHasPrefix(e.path, prefix)}
    IN  {[seq |-> e.seq, id |-> e.id] : e \in First(max, visible)}

(* Mutant: the state, or the queue position, is not checked again. *)
stillReady_anyState(db, cands) == {id \in DOMAIN db.objects : \E c \in cands : c.id = id}
stillReady_anySeq(db, cands) == {id \in InState(db, "READY") : \E c \in cands : c.id = id}

(* The candidates that are still what the search saw. *)
stillReady(db, cands) ==
    {id \in DOMAIN db.objects :
       /\ db.objects[id].State = "READY"
       /\ [seq |-> db.objects[id].QueueSeq, id |-> id] \in cands}

(* The write transaction of Claim.  lease maps each object won to its new lease
   ID; now is the instant of the search, not of the transaction. *)
claimTx(db, won, lease, ttl, now) ==
    LET os == {db.objects[id] : id \in won}
        Leased(o) == [o EXCEPT !.State = "LEASED", !.LeaseID = lease[o.ID],
                               !.LeaseUntil = now + ttl, !.QueueSeq = 0,
                               !.Attempts = @ + 1]
        given == {lease[id] : id \in won}
        ObjectOf(l) == CHOOSE id \in won : lease[id] = l
    IN  [db EXCEPT
           !.queue = DeleteAll(@, {queueKey(o) : o \in os}),
           !.queueSeg = DeleteAll(@, {queueSegKey(o) : o \in os}),
           !.objects = [id \in DOMAIN @ |-> IF id \in won THEN Leased(@[id]) ELSE @[id]],
           !.claims = [l \in DOMAIN @ \cup given |->
                         IF l \in given
                           THEN [ObjectID |-> ObjectOf(l),
                                 Tenant |-> db.objects[ObjectOf(l)].Tenant,
                                 LeaseUntil |-> now + ttl, LeaseSeconds |-> ttl]
                           ELSE @[l]],
           !.leases = [k \in DOMAIN @ \cup {<<now + ttl, id>> : id \in won} |->
                         IF k[1] = now + ttl /\ k[2] \in won THEN lease[k[2]]
                                                            ELSE @[k]]]

-----------------------------------------------------------------------------
(* Leases. *)

(* Renew, once its checks have passed.  A zero ttl asks for the length granted
   at claim time. *)
Renew(db, l, ttl, now) ==
    LET id == db.claims[l].ObjectID
        o == db.objects[id]
        until == now + (IF ttl > 0 THEN ttl ELSE db.claims[l].LeaseSeconds)
    IN  [db EXCEPT !.objects[id].LeaseUntil = until,
                   !.claims[l].LeaseUntil = until,
                   !.leases = Put(Delete(@, leaseKey(o)), <<until, id>>, l)]

(* The objects of ids whose lease ends here go where afterDelivery sends them:
   deleted if retracted, parked if they failed too often or for good, else back
   to the tail of the queue.  num gives the new queue positions. *)
ReleaseOptions == [RetryAfter : Nat, Permanent : BOOLEAN, Uncounted : BOOLEAN]

attemptsAfter(o, opts) ==
    IF opts.Uncounted /\ o.Attempts > 0 THEN o.Attempts - 1 ELSE o.Attempts

(* Mutant: a withdrawn object is given back like any other. *)
retracted_none(db, ids) == {}

retracted(db, ids) == {id \in ids : db.objects[id].Retracted}

exhausted(db, ids, opts) ==
    {id \in ids \ retracted(db, ids) :
       opts.Permanent \/ attemptsAfter(db.objects[id], opts) >= MaxAttempts}

requeued(db, ids, opts) == ids \ (retracted(db, ids) \cup exhausted(db, ids, opts))

(* The claim and the lease entry of every object of ids are dropped, then
   afterDelivery runs for each. *)
endLeases(db, ids, opts, num, now) ==
    LET parks == exhausted(db, ids, opts)
        back == requeued(db, ids, opts)
        Ended(id) == [db.objects[id] EXCEPT !.LeaseID = NoLease, !.LeaseUntil = 0,
                                            !.Attempts = attemptsAfter(db.objects[id], opts)]
        Parked(id) == [Ended(id) EXCEPT !.State = "PARKED", !.ParkedAt = now]
        Ready(id) == [Ended(id) EXCEPT !.State = "READY", !.QueueSeq = num[id],
                                       !.VisibleAt = now + opts.RetryAfter]
        entries == {queueKey(Ready(id)) : id \in back}
        segEntries == {queueSegKey(Ready(id)) : id \in back}
        gone == deleteObjectTx(db, retracted(db, ids), "retracted", now)
    IN  [gone EXCEPT
           !.objects = [id \in DOMAIN @ |-> CASE id \in parks -> Parked(id)
                                              [] id \in back -> Ready(id)
                                              [] OTHER -> @[id]],
           !.claims = DeleteAll(@, {db.objects[id].LeaseID : id \in ids}),
           !.leases = DeleteAll(@, {leaseKey(db.objects[id]) : id \in ids}),
           !.parked = @ \cup {parkedKey(Parked(id)) : id \in parks},
           !.queue = [k \in DOMAIN @ \cup entries |->
                        IF k \in entries THEN queueValue(Ready(k[3])) ELSE @[k]],
           !.queueSeg = [k \in DOMAIN @ \cup segEntries |->
                           IF k \in segEntries THEN queueValue(Ready(k[4])) ELSE @[k]],
           !.seq = @ + Cardinality(back)]

(* ReleaseWith, on a lease that has a claim: the claim goes even if the object
   is no longer held under it. *)
releaseTx(db, l, opts, num, now) ==
    LET id == db.claims[l].ObjectID
    IN  IF /\ id \in InState(db, "LEASED")
           /\ db.objects[id].LeaseID = l
          THEN endLeases(db, {id}, opts, num, now)
          ELSE [db EXCEPT !.claims = Delete(@, l)]

(* The ways NextSequence may number the objects of back: in the order of their
   lease entries, which is the order the sweep visits them. *)
Numberings(db, back) ==
    {num \in [back -> (db.seq + 1)..(db.seq + Cardinality(back))] :
       \A i, j \in back : i # j =>
          /\ num[i] # num[j]
          /\ db.objects[i].LeaseUntil < db.objects[j].LeaseUntil => num[i] < num[j]}

(* Mutant: the sweep is one instant late. *)
dueLeases_late(db, now) == {k[2] : k \in {j \in DOMAIN db.leases : j[1] < now}}

(* The leases ExpireLeases ends: due when the read transaction looked at the
   lease index, and still lapsed in the write transaction. *)
dueLeases(db, now) == {k[2] : k \in {j \in DOMAIN db.leases : j[1] <= now}}

lapsed(db, due, now) ==
    {id \in due \cap DOMAIN db.objects :
       db.objects[id].State = "LEASED" /\ db.objects[id].LeaseUntil <= now}

(* Mutant: the attempts of the parked object are kept. *)
Requeue_spent(db, id, now) ==
    LET o == db.objects[id]
    IN  enqueue([db EXCEPT !.parked = @ \ {parkedKey(o)}],
                [o EXCEPT !.State = "READY", !.ParkedAt = 0], now)

(* Requeue gives a parked object a fresh attempt budget. *)
Requeue(db, id, now) ==
    LET o == db.objects[id]
    IN  enqueue([db EXCEPT !.parked = @ \ {parkedKey(o)}],
                [o EXCEPT !.State = "READY", !.Attempts = 0, !.ParkedAt = 0], now)

-----------------------------------------------------------------------------
(* Maintenance. *)

(* flushGC clears the entries of blobs already unlinked. *)
flushGC(db, done) == [db EXCEPT !.gc = @ \ done]

(* Mutant: every tombstone goes. *)
dropTombstones_all(db, tombs, cutoff) ==
    [db EXCEPT !.tombstones = EmptyBucket, !.tombTimes = {}]

(* The tombstone transaction of maintenancePass: the listed tombstones go, and
   every index entry older than the cutoff. *)
dropTombstones(db, tombs, cutoff) ==
    LET listed == {<<db.tombstones[id].DeletedAt, id>> :
                     id \in tombs \cap DOMAIN db.tombstones}
    IN  [db EXCEPT !.tombstones = DeleteAll(@, tombs),
                   !.tombTimes = {k \in @ \ listed : k[1] >= cutoff}]

(* Mutant: counted from zero. *)
versionRank_zero(db, id) ==
    Cardinality({j \in InState(db, "READY") : db.objects[j].Version < db.objects[id].Version})

(* sortObjectsByVersion: the place of a READY object in the rebuilt queue. *)
versionRank(db, id) ==
    Cardinality({j \in InState(db, "READY") : db.objects[j].Version <= db.objects[id].Version})

(* The claims a rebuild keeps: those of leased objects. *)
liveClaims(db) ==
    {l \in DOMAIN db.claims :
       LET id == db.claims[l].ObjectID
       IN  id \in InState(db, "LEASED") /\ db.objects[id].LeaseID = l}

(* rebuildIndexes recreates every index from the primary records; the queue is
   renumbered from 1, in version order.  (The conversion of records that only a
   schema-1 catalog holds is left out.) *)
rebuildIndexes(db) ==
    LET ready == InState(db, "READY")
        Renumbered(id) == [db.objects[id] EXCEPT
                             !.QueueSeq = CASE db.objects[id].State = "READY" -> versionRank(db, id)
                                            [] db.objects[id].State = "LEASED" -> 0
                                            [] OTHER -> @]
        os == {Renumbered(id) : id \in ready}
    IN  [db EXCEPT
           !.objects = [id \in DOMAIN @ |-> Renumbered(id)],
           !.queue = [k \in {queueKey(o) : o \in os} |-> queueValue(Renumbered(k[3]))],
           !.queueSeg = [k \in {queueSegKey(o) : o \in os} |-> queueValue(Renumbered(k[4]))],
           !.leases = [k \in {leaseKey(db.objects[id]) : id \in InState(db, "LEASED")} |->
                         db.objects[k[2]].LeaseID],
           !.held = {heldKey(db.objects[id]) : id \in InState(db, "HELD")},
           !.parked = {parkedKey(db.objects[id]) : id \in InState(db, "PARKED")},
           !.claims = [l \in liveClaims(db) |-> @[l]],
           !.tombTimes = {<<db.tombstones[id].DeletedAt, id>> : id \in DOMAIN db.tombstones},
           !.seq = Cardinality(ready)]

-----------------------------------------------------------------------------
(* What every committed catalog satisfies. *)

CatalogType(db) ==
    /\ DOMAIN db = Buckets
    /\ DOMAIN db.objects \subseteq Ids
    /\ \A id \in DOMAIN db.objects : db.objects[id] \in Object /\ db.objects[id].ID = id
    /\ DOMAIN db.namespace \subseteq Tenants \X Paths
    /\ db.directories \subseteq Tenants \X Paths
    /\ DOMAIN db.claims \subseteq Leases
    /\ \A l \in DOMAIN db.claims : db.claims[l] \in Claim
    /\ DOMAIN db.tombstones \subseteq Ids
    /\ \A id \in DOMAIN db.tombstones : db.tombstones[id] \in Tombstone
    /\ db.gc \subseteq Ids
    /\ DOMAIN db.queue \subseteq Tenants \X Nat \X Ids
    /\ \A k \in DOMAIN db.queueSeg : k[3] \in Nat /\ k[4] \in Ids
    /\ DOMAIN db.leases \subseteq Nat \X Ids
    /\ db.held \subseteq Nat \X Ids
    /\ db.tombTimes \subseteq Nat \X Ids
    /\ db.seq \in Nat
    /\ db.versions \in Nat

(* The fields of an object agree with its state: only a queued object has a
   queue position, only a leased one a lease, only a leased one is retracted. *)
StatesAgree(db) ==
    \A id \in DOMAIN db.objects :
       LET o == db.objects[id]
       IN  /\ o.State = "READY" <=> o.QueueSeq # 0
           /\ o.State = "LEASED" <=> o.LeaseID # NoLease
           /\ o.Retracted => o.State = "LEASED"

(* Both queue indexes hold exactly the READY objects, at their present
   position, visibility and path. *)
QueueAgrees(db) ==
    /\ \A id \in InState(db, "READY") :
         LET o == db.objects[id]
         IN  /\ queueKey(o) \in DOMAIN db.queue
             /\ queueSegKey(o) \in DOMAIN db.queueSeg
             /\ db.queue[queueKey(o)] = queueValue(o)
             /\ db.queueSeg[queueSegKey(o)] = queueValue(o)
    /\ \A k \in DOMAIN db.queue :
         \E id \in InState(db, "READY") : k = queueKey(db.objects[id])
    /\ \A k \in DOMAIN db.queueSeg :
         \E id \in InState(db, "READY") : k = queueSegKey(db.objects[id])

(* Queue positions are distinct and none is ahead of the counter, so the next
   object enqueued is behind all others. *)
QueueOrdered(db) ==
    \A i, j \in InState(db, "READY") :
       /\ db.objects[i].QueueSeq <= db.seq
       /\ i # j => db.objects[i].QueueSeq # db.objects[j].QueueSeq

(* The lease index holds exactly the LEASED objects, at their present
   deadline. *)
LeasesAgree(db) ==
    /\ \A id \in InState(db, "LEASED") :
         LET o == db.objects[id]
         IN  leaseKey(o) \in DOMAIN db.leases /\ db.leases[leaseKey(o)] = o.LeaseID
    /\ \A k \in DOMAIN db.leases :
         \E id \in InState(db, "LEASED") : k = leaseKey(db.objects[id])

(* Claims and leased objects name each other: every claim is the claim of
   exactly one leased object, and agrees with it on tenant and deadline. *)
ClaimsAgree(db) ==
    /\ \A l \in DOMAIN db.claims :
         LET id == db.claims[l].ObjectID
         IN  /\ id \in InState(db, "LEASED")
             /\ db.objects[id].LeaseID = l
             /\ db.objects[id].Tenant = db.claims[l].Tenant
             /\ db.objects[id].LeaseUntil = db.claims[l].LeaseUntil
    /\ \A id \in InState(db, "LEASED") :
         /\ db.objects[id].LeaseID \in DOMAIN db.claims
         /\ db.claims[db.objects[id].LeaseID].ObjectID = id

(* The held, parked and tombstone indexes hold exactly the records they
   index. *)
TimesAgree(db) ==
    /\ db.held = {heldKey(db.objects[id]) : id \in InState(db, "HELD")}
    /\ db.parked = {parkedKey(db.objects[id]) : id \in InState(db, "PARKED")}
    /\ db.tombTimes = {<<db.tombstones[id].DeletedAt, id>> : id \in DOMAIN db.tombstones}

(* A path leads to an object of that path that the uploader has not
   withdrawn. *)
NamespaceAgrees(db) ==
    \A k \in DOMAIN db.namespace :
       LET id == db.namespace[k]
       IN  /\ id \in DOMAIN db.objects
           /\ nsKey(db.objects[id]) = k
           /\ ~db.objects[id].Retracted

(* A path is a file or a directory, never both, and nothing is below a file. *)
FilesApart(db) ==
    \A k \in DOMAIN db.namespace :
       \A j \in DOMAIN db.namespace \cup db.directories :
          j[1] = k[1] => ~isBelow(j[2], k[2]) /\ (j[2] = k[2] => j \notin db.directories)

(* A deleted object stays deleted: no id is both live and in the records its
   deletion leaves. *)
DeletedApart(db) ==
    DOMAIN db.objects \cap (DOMAIN db.tombstones \cup db.gc) = {}
=============================================================================
