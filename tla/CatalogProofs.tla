--------------------------- MODULE CatalogProofs ----------------------------
(***************************************************************************)
(* What every transaction of Catalog does to the types of the catalog and  *)
(* to the set of ids it accounts for, for any number of objects, leases,   *)
(* tenants and paths.                                                      *)
(***************************************************************************)
EXTENDS Catalog, FiniteSetTheorems, TLAPS

(* The ids the catalog answers for: a blob under any other id is leaked. *)
Known(db) == DOMAIN db.objects \cup db.gc

(* r is a catalog that accounts for the same ids as db, and no object is new. *)
Keeps(db, r) ==
    CatalogType(r) /\ Known(r) = Known(db) /\ DOMAIN r.objects \subseteq DOMAIN db.objects

(* r is a catalog with the objects of db and the object id. *)
Stores(db, id, r) ==
    CatalogType(r) /\ DOMAIN r.objects = DOMAIN db.objects \cup {id} /\ r.gc = db.gc

(* deleteObjectTx moves ids from the objects bucket to the gc bucket. *)
LEMMA DeleteObjectTyped ==
  ASSUME NEW db, CatalogType(db), NEW ids \in SUBSET DOMAIN db.objects,
         NEW reason \in Reasons, NEW now \in Nat,
         NEW r, r = deleteObjectTx(db, ids, reason, now)
  PROVE  Keeps(db, r)
<1> DEFINE own == {id \in ids : /\ nsKey(db.objects[id]) \in DOMAIN db.namespace
                                /\ db.namespace[nsKey(db.objects[id])] = id}
           queued == {id \in ids : db.objects[id].QueueSeq # 0}
           leased == {id \in ids : db.objects[id].LeaseID # NoLease}
           parked == {id \in ids : db.objects[id].State = "PARKED"}
           held == {id \in ids : db.objects[id].State = "HELD"}
<1>1. DOMAIN db = Buckets
  BY DEF CatalogType
<1>2. /\ DOMAIN r = Buckets
      /\ r.objects = DeleteAll(db.objects, ids)
      /\ r.namespace = DeleteAll(db.namespace, {nsKey(db.objects[id]) : id \in own})
      /\ r.directories = db.directories
      /\ r.queue = DeleteAll(db.queue, {queueKey(db.objects[id]) : id \in queued})
      /\ r.queueSeg = DeleteAll(db.queueSeg, {queueSegKey(db.objects[id]) : id \in queued})
      /\ r.claims = DeleteAll(db.claims, {db.objects[id].LeaseID : id \in leased})
      /\ r.leases = DeleteAll(db.leases, {leaseKey(db.objects[id]) : id \in leased})
      /\ r.held = db.held \ {heldKey(db.objects[id]) : id \in held}
      /\ r.tombTimes = db.tombTimes \cup {<<now, id>> : id \in ids}
      /\ r.gc = db.gc \cup ids
      /\ r.seq = db.seq
      /\ r.versions = db.versions
      /\ r.tombstones = [i \in DOMAIN db.tombstones \cup ids |->
                             IF i \in ids
                               THEN [Tenant |-> db.objects[i].Tenant,
                                     Reason |-> reason, DeletedAt |-> now]
                               ELSE db.tombstones[i]]
  BY <1>1, Zenon DEF Buckets, deleteObjectTx
<1> HIDE DEF own, queued, leased, parked, held
<1>3. /\ DOMAIN r.objects = DOMAIN db.objects \ ids
      /\ \A id \in DOMAIN r.objects : r.objects[id] = db.objects[id]
  BY <1>2 DEF DeleteAll
<1>4. \A id \in ids : id \in Ids /\ db.objects[id].Tenant \in Tenants
  BY DEF CatalogType, Object
<1>5. DOMAIN r.tombstones \subseteq Ids /\ \A id \in DOMAIN r.tombstones : r.tombstones[id] \in Tombstone
  BY <1>2, <1>4 DEF CatalogType, Tombstone
<1>6. /\ DOMAIN r.claims \subseteq Leases
      /\ \A l \in DOMAIN r.claims : r.claims[l] \in Claim
  BY <1>2 DEF CatalogType, DeleteAll
<1>7. /\ DOMAIN r.namespace \subseteq DOMAIN db.namespace
      /\ DOMAIN r.queue \subseteq DOMAIN db.queue
      /\ DOMAIN r.queueSeg \subseteq DOMAIN db.queueSeg
      /\ DOMAIN r.leases \subseteq DOMAIN db.leases
  BY <1>2 DEF DeleteAll
<1>8. r.tombTimes \subseteq Nat \X Ids
  BY <1>2, <1>4 DEF CatalogType
<1>9. CatalogType(r)
  BY <1>2, <1>3, <1>4, <1>5, <1>6, <1>7, <1>8, ZenonT(40) DEF CatalogType
<1> QED BY <1>2, <1>3, <1>9 DEF Known, Keeps

(* Flipping one field of a record keeps it an Object. *)
LEMMA ObjectEdits ==
  ASSUME NEW o \in Object
  PROVE  /\ [o EXCEPT !.Retracted = TRUE] \in Object
         /\ \A st \in States : [o EXCEPT !.State = st] \in Object
         /\ \A p \in Paths : [o EXCEPT !.Path = p] \in Object
         /\ [o EXCEPT !.QueueSeq = 0] \in Object
         /\ \A s, v \in Nat : [o EXCEPT !.QueueSeq = s, !.VisibleAt = v] \in Object
         /\ \A n \in Nat : [o EXCEPT !.LeaseUntil = n] \in Object
BY Zenon DEF Object

(* Withdrawing a leased object changes neither bucket of ids. *)
LEMMA RetractTyped ==
  ASSUME NEW db, CatalogType(db), NEW id \in DOMAIN db.objects, NEW r, r = retract(db, id)
  PROVE  Keeps(db, r)
<1>1. DOMAIN db = Buckets
  BY DEF CatalogType
<1>2. /\ DOMAIN r = Buckets
      /\ r.objects = [db.objects EXCEPT ![id] = [@ EXCEPT !.Retracted = TRUE]]
      /\ DOMAIN r.namespace \subseteq DOMAIN db.namespace
      /\ \A f \in Buckets \ {"objects", "namespace"} : r[f] = db[f]
  BY <1>1, Zenon DEF Buckets, retract, Delete
<1>3. /\ DOMAIN r.objects = DOMAIN db.objects
      /\ \A i \in DOMAIN r.objects : r.objects[i] \in Object /\ r.objects[i].ID = i
  <2>1. /\ db.objects[id] \in Object /\ db.objects[id].ID = id
        /\ [db.objects[id] EXCEPT !.Retracted = TRUE] \in Object
    BY ObjectEdits, Zenon DEF CatalogType
  <2>2. [db.objects[id] EXCEPT !.Retracted = TRUE].ID = id
    BY <2>1 DEF Object
  <2>3. /\ r.objects[id] = [db.objects[id] EXCEPT !.Retracted = TRUE]
        /\ \A i \in DOMAIN db.objects \ {id} : r.objects[i] = db.objects[i]
        /\ DOMAIN r.objects = DOMAIN db.objects
    BY <1>2
  <2> QED BY <2>1, <2>2, <2>3, ZenonT(40) DEF CatalogType
<1>4. CatalogType(r) /\ r.gc = db.gc
  BY <1>2, <1>3, Zenon DEF CatalogType, Buckets
<1> QED BY <1>3, <1>4 DEF Keeps, Known

(* Remove, DeleteObject and replacePath keep every id accounted for. *)
LEMMA DropObjectTyped ==
  ASSUME NEW db, CatalogType(db), NEW id \in DOMAIN db.objects,
         NEW reason \in Reasons, NEW now \in Nat, NEW r, r = dropObject(db, id, reason, now)
  PROVE  Keeps(db, r)
<1>1. CASE db.objects[id].State = "LEASED"
  BY <1>1, RetractTyped DEF dropObject
<1>2. CASE db.objects[id].State # "LEASED"
  <2>1. PICK ids \in SUBSET DOMAIN db.objects : r = deleteObjectTx(db, ids, reason, now)
    BY <1>2 DEF dropObject
  <2> QED BY <2>1, DeleteObjectTyped
<1> QED BY <1>1, <1>2

(* So does a change of the namespace, of the directories or of the version
   counter alone. *)
LEMMA NamesTyped ==
  ASSUME NEW db, CatalogType(db), NEW r, DOMAIN r = Buckets,
         \A f \in Buckets \ {"namespace", "directories", "versions"} : r[f] = db[f],
         DOMAIN r.namespace \subseteq Tenants \X Paths,
         r.directories \subseteq Tenants \X Paths, r.versions \in Nat
  PROVE  Keeps(db, r)
BY DEF CatalogType, Buckets, Known, Keeps

(* replacePath keeps every id accounted for: what it takes off the path is
   detached, withdrawn or deleted. *)
LEMMA ReplacePathTyped ==
  ASSUME NEW db, CatalogType(db), NEW k \in Tenants \X Paths, NEW now \in Nat,
         NEW r, r = replacePath(db, k, now)
  PROVE  Keeps(db, r)
<1>1. CASE k \notin DOMAIN db.namespace
  BY <1>1 DEF replacePath, Keeps
<1>2. CASE k \in DOMAIN db.namespace
  <2> DEFINE detached == [db EXCEPT !.namespace = Delete(@, k)]
  <2>1. /\ CatalogType(detached) /\ Known(detached) = Known(db)
        /\ DOMAIN detached.objects = DOMAIN db.objects
    <3>1. DOMAIN db = Buckets /\ DOMAIN db.namespace \subseteq Tenants \X Paths
          /\ db.directories \subseteq Tenants \X Paths /\ db.versions \in Nat
      BY DEF CatalogType
    <3>2. /\ DOMAIN detached = Buckets
          /\ \A f \in Buckets \ {"namespace", "directories", "versions"} : detached[f] = db[f]
          /\ DOMAIN detached.namespace \subseteq DOMAIN db.namespace
          /\ detached.directories = db.directories
          /\ detached.versions = db.versions
      BY <3>1 DEF Buckets, Delete
    <3> HIDE DEF detached
    <3>3. Keeps(db, detached)
      BY <3>1, <3>2, NamesTyped
    <3> QED BY <3>2, <3>3 DEF Keeps, Buckets
  <2>2. \/ r = detached
        \/ /\ db.namespace[k] \in DOMAIN detached.objects
           /\ r = dropObject(detached, db.namespace[k], "superseded", now)
    BY <1>2, <2>1 DEF replacePath
  <2> HIDE DEF detached
  <2>3. "superseded" \in Reasons
    BY DEF Reasons
  <2>4. Keeps(detached, r) \/ r = detached
    BY <2>1, <2>2, <2>3, DropObjectTyped
  <2> QED BY <2>1, <2>4 DEF Keeps
<1> QED BY <1>1, <1>2

(* Storing one more object, or another version of one, under its own id. *)
LEMMA StoreTyped ==
  ASSUME NEW db, CatalogType(db), NEW o \in Object, NEW r, DOMAIN r = Buckets,
         r.objects = Put(db.objects, o.ID, o),
         r.namespace = db.namespace, r.directories = db.directories, r.claims = db.claims,
         r.tombstones = db.tombstones, r.gc = db.gc, r.leases = db.leases,
         r.tombTimes = db.tombTimes, r.versions = db.versions,
         DOMAIN r.queue \subseteq Tenants \X Nat \X Ids,
         \A k \in DOMAIN r.queueSeg : k[3] \in Nat /\ k[4] \in Ids,
         r.held \subseteq Nat \X Ids,
         r.seq \in Nat
  PROVE  CatalogType(r)
<1>1. o.ID \in Ids
  BY DEF Object
<1>2. /\ DOMAIN r.objects = DOMAIN db.objects \cup {o.ID}
      /\ \A i \in DOMAIN r.objects : r.objects[i] = IF i = o.ID THEN o ELSE db.objects[i]
  BY DEF Put
<1>3. \A i \in DOMAIN r.objects : r.objects[i] \in Object /\ r.objects[i].ID = i
  BY <1>2 DEF CatalogType
<1>4. DOMAIN r.objects \subseteq Ids
  BY <1>1, <1>2 DEF CatalogType
<1> QED BY <1>2, <1>3, <1>4 DEF CatalogType

(* The queue buckets change alone when an object is entered in them, *)
LEMMA PutQueueTyped ==
  ASSUME NEW db, CatalogType(db), NEW o \in Object, NEW r, r = putQueueEntries(db, o)
  PROVE  CatalogType(r) /\ \A f \in Buckets \ {"queue", "queueSeg"} : r[f] = db[f]
<1>1. /\ DOMAIN r = Buckets
      /\ \A f \in Buckets \ {"queue", "queueSeg"} : r[f] = db[f]
      /\ DOMAIN r.queue = DOMAIN db.queue \cup {queueKey(o)}
      /\ DOMAIN r.queueSeg = DOMAIN db.queueSeg \cup {queueSegKey(o)}
  BY Zenon DEF CatalogType, Buckets, putQueueEntries, Put
<1>2. /\ queueKey(o) \in Tenants \X Nat \X Ids
      /\ queueSegKey(o)[3] \in Nat /\ queueSegKey(o)[4] \in Ids
  BY DEF Object, queueKey, queueSegKey
<1> QED BY <1>1, <1>2, SMTT(30) DEF CatalogType, Buckets

(* or taken out of them. *)
LEMMA DequeueTyped ==
  ASSUME NEW db, CatalogType(db), NEW o, NEW r, r = dequeue(db, o)
  PROVE  CatalogType(r) /\ \A f \in Buckets \ {"queue", "queueSeg"} : r[f] = db[f]
<1>1. /\ DOMAIN r = Buckets
      /\ \A f \in Buckets \ {"queue", "queueSeg"} : r[f] = db[f]
      /\ DOMAIN r.queue \subseteq DOMAIN db.queue
      /\ DOMAIN r.queueSeg \subseteq DOMAIN db.queueSeg
  BY Zenon DEF CatalogType, Buckets, dequeue, Delete
<1> QED BY <1>1, SMTT(30) DEF CatalogType, Buckets

(* enqueue stores the object it queues. *)
LEMMA EnqueueTyped ==
  ASSUME NEW db, CatalogType(db), NEW o \in Object, NEW visible \in Nat,
         NEW r, r = enqueue(db, o, visible)
  PROVE  Stores(db, o.ID, r)
<1> DEFINE q == [o EXCEPT !.QueueSeq = db.seq + 1, !.VisibleAt = visible]
           e == putQueueEntries(db, q)
<1>1. q \in Object /\ q.ID = o.ID /\ db.seq + 1 \in Nat
  <2>1. db.seq + 1 \in Nat
    BY DEF CatalogType
  <2> QED BY <2>1, ObjectEdits, Zenon DEF Object
<1> HIDE DEF q
<1>2. CatalogType(e) /\ \A f \in Buckets \ {"queue", "queueSeg"} : e[f] = db[f]
  BY <1>1, PutQueueTyped
<1>3. r = [e EXCEPT !.seq = db.seq + 1, !.objects = Put(@, o.ID, q)]
  BY DEF enqueue, q
<1> HIDE DEF e
<1>4. /\ DOMAIN r = Buckets
      /\ r.objects = Put(e.objects, q.ID, q)
      /\ r.seq = db.seq + 1
      /\ \A f \in Buckets \ {"objects", "seq"} : r[f] = e[f]
  <2>1. DOMAIN e = Buckets
    BY <1>2 DEF CatalogType
  <2> QED BY <1>1, <1>3, <2>1, Zenon DEF Buckets
<1>5. CatalogType(r) /\ DOMAIN r.objects = DOMAIN e.objects \cup {q.ID} /\ r.gc = e.gc
  <2>1. /\ r.namespace = e.namespace /\ r.directories = e.directories /\ r.claims = e.claims
        /\ r.tombstones = e.tombstones /\ r.gc = e.gc /\ r.leases = e.leases
        /\ r.tombTimes = e.tombTimes /\ r.versions = e.versions
        /\ r.queue = e.queue /\ r.queueSeg = e.queueSeg /\ r.held = e.held
    BY <1>4 DEF Buckets
  <2>2. /\ DOMAIN e.queue \subseteq Tenants \X Nat \X Ids
        /\ \A k \in DOMAIN e.queueSeg : k[3] \in Nat /\ k[4] \in Ids
        /\ e.held \subseteq Nat \X Ids
    BY <1>2 DEF CatalogType
  <2>3. /\ DOMAIN r.queue \subseteq Tenants \X Nat \X Ids
        /\ \A k \in DOMAIN r.queueSeg : k[3] \in Nat /\ k[4] \in Ids
        /\ r.held \subseteq Nat \X Ids
        /\ r.seq \in Nat
    BY <1>1, <1>4, <2>1, <2>2
  <2>4. DOMAIN r = Buckets /\ r.objects = Put(e.objects, q.ID, q) /\ CatalogType(e)
    BY <1>2, <1>4
  <2>5. CatalogType(r)
    BY <1>1, <2>1, <2>3, <2>4, StoreTyped
  <2> QED BY <2>1, <2>4, <2>5 DEF Put
<1> QED BY <1>1, <1>2, <1>5, SMTT(30) DEF Buckets, Stores

(* place stores the object it holds or queues. *)
LEMMA PlaceTyped ==
  ASSUME NEW db, CatalogType(db), NEW o \in Object, NEW now \in Nat,
         NEW r, r = place(db, o, now)
  PROVE  Stores(db, o.ID, r)
<1>1. CASE o.Path \in HeldPaths
  <2> DEFINE h == [o EXCEPT !.State = "HELD"]
  <2>1. h \in Object /\ h.ID = o.ID /\ heldKey(o) \in Nat \X Ids
    BY ObjectEdits, Zenon DEF Object, States, heldKey
  <2>2. r = [db EXCEPT !.held = @ \cup {heldKey(o)}, !.objects = Put(@, o.ID, h)]
    BY <1>1 DEF place
  <2> HIDE DEF h
  <2>3. DOMAIN db = Buckets /\ db.held \subseteq Nat \X Ids
    BY DEF CatalogType
  <2>4. /\ DOMAIN r = Buckets /\ r.objects = Put(db.objects, h.ID, h)
        /\ r.held = db.held \cup {heldKey(o)}
        /\ r.namespace = db.namespace /\ r.directories = db.directories /\ r.claims = db.claims
        /\ r.tombstones = db.tombstones /\ r.gc = db.gc /\ r.leases = db.leases
        /\ r.tombTimes = db.tombTimes /\ r.versions = db.versions
        /\ r.queue = db.queue /\ r.queueSeg = db.queueSeg /\ r.seq = db.seq
    BY <2>1, <2>2, <2>3 DEF Buckets
  <2>5. /\ DOMAIN r.queue \subseteq Tenants \X Nat \X Ids
        /\ \A k \in DOMAIN r.queueSeg : k[3] \in Nat /\ k[4] \in Ids
        /\ r.held \subseteq Nat \X Ids
        /\ r.seq \in Nat
    BY <2>1, <2>4 DEF CatalogType
  <2>6. CatalogType(r)
    BY <2>1, <2>4, <2>5, StoreTyped
  <2> QED BY <2>1, <2>4, <2>6, SMTT(30) DEF Put, Stores
<1>2. CASE o.Path \notin HeldPaths
  <2>1. [o EXCEPT !.State = "READY"] \in Object /\ [o EXCEPT !.State = "READY"].ID = o.ID
    BY ObjectEdits, Zenon DEF Object, States
  <2>2. now + PublishDelay \in Nat
    BY CatalogAssumption
  <2> QED BY <1>2, <2>1, <2>2, EnqueueTyped, Zenon DEF place
<1> QED BY <1>1, <1>2

(* A publication accounts for the new id and keeps accounting for the others. *)
LEMMA PublishTyped ==
  ASSUME NEW db, CatalogType(db), NEW id \in Ids, NEW t \in Tenants, NEW p \in Paths,
         NEW now \in Nat, NEW r, r = publish(db, id, t, p, now)
  PROVE  /\ CatalogType(r)
         /\ Known(r) = Known(db) \cup {id}
         /\ DOMAIN r.objects \subseteq DOMAIN db.objects \cup {id}
<1> DEFINE o == [ID |-> id, Tenant |-> t, Path |-> p, State |-> "READY",
                 Version |-> db.versions + 1, QueueSeq |-> 0, VisibleAt |-> 0,
                 CreatedAt |-> now, LeaseID |-> NoLease, LeaseUntil |-> 0,
                 Attempts |-> 0, ParkedAt |-> 0, Retracted |-> FALSE]
           numbered == [db EXCEPT !.versions = @ + 1]
           replaced == replacePath(numbered, <<t, p>>, now)
           placed == place(replaced, o, now)
<1>1. DOMAIN db = Buckets /\ db.versions + 1 \in Nat
      /\ DOMAIN db.namespace \subseteq Tenants \X Paths
      /\ db.directories \subseteq Tenants \X Paths
  BY DEF CatalogType
<1>2. o \in Object /\ o.ID = id
  BY <1>1 DEF Object, States
<1>3. r = [placed EXCEPT !.namespace = Put(@, <<t, p>>, id)]
  BY DEF publish
<1> HIDE DEF o
<1>4. /\ DOMAIN numbered = Buckets
      /\ \A f \in Buckets \ {"namespace", "directories", "versions"} : numbered[f] = db[f]
      /\ numbered.namespace = db.namespace
      /\ numbered.directories = db.directories
      /\ numbered.versions = db.versions + 1
  BY <1>1 DEF Buckets
<1> HIDE DEF numbered
<1>5. Keeps(db, numbered)
  BY <1>1, <1>4, NamesTyped
<1>6. Keeps(numbered, replaced)
  BY <1>5, ReplacePathTyped DEF Keeps
<1> HIDE DEF replaced
<1>7. Stores(replaced, id, placed)
  BY <1>2, <1>6, PlaceTyped DEF Keeps
<1> HIDE DEF placed
<1>8. Keeps(placed, r)
  <2>1. /\ DOMAIN placed = Buckets /\ DOMAIN placed.namespace \subseteq Tenants \X Paths
        /\ placed.directories \subseteq Tenants \X Paths /\ placed.versions \in Nat
        /\ CatalogType(placed)
    BY <1>7 DEF CatalogType, Stores
  <2>2. /\ DOMAIN r = Buckets
        /\ \A f \in Buckets \ {"namespace", "directories", "versions"} : r[f] = placed[f]
        /\ DOMAIN r.namespace = DOMAIN placed.namespace \cup {<<t, p>>}
        /\ r.directories = placed.directories
        /\ r.versions = placed.versions
    BY <1>3, <2>1 DEF Buckets, Put
  <2>3. DOMAIN r.namespace \subseteq Tenants \X Paths
    BY <2>1, <2>2
  <2> QED BY <2>1, <2>2, <2>3, NamesTyped
<1> QED BY <1>5, <1>6, <1>7, <1>8 DEF Keeps, Stores, Known

(* moveObject stores the object under its new path, whatever state the rename
   leaves it in. *)
LEMMA MoveObjectTyped ==
  ASSUME NEW db, CatalogType(db), NEW o \in Object, NEW p \in Paths, NEW now \in Nat,
         NEW r, r = moveObject(db, o, p, now)
  PROVE  Stores(db, o.ID, r)
<1> DEFINE moved == [o EXCEPT !.Path = p]
           unqueued == [moved EXCEPT !.QueueSeq = 0]
           out == dequeue(db, o)
           unheld == [out EXCEPT !.held = @ \ {heldKey(o)}]
           back == IF o.QueueSeq # 0 THEN putQueueEntries(out, moved) ELSE out
<1>1. moved \in Object /\ moved.ID = o.ID
  BY DEF Object
<1>2. unqueued \in Object /\ unqueued.ID = o.ID
  BY Zenon DEF Object
<1>3. CASE o.State = "HELD" /\ p \notin HeldPaths
  <2>1. r = place(unheld, moved, now)
    BY <1>3 DEF moveObject
  <2>2. CatalogType(out) /\ \A f \in Buckets \ {"queue", "queueSeg"} : out[f] = db[f]
    BY DequeueTyped
  <2> HIDE DEF moved, unqueued, out
  <2>3. /\ DOMAIN unheld = Buckets
        /\ \A f \in Buckets \ {"held"} : unheld[f] = out[f]
        /\ unheld.held \subseteq out.held
    BY <2>2 DEF CatalogType, Buckets
  <2>4. CatalogType(unheld)
    BY <2>2, <2>3 DEF CatalogType, Buckets
  <2>5. unheld.objects = db.objects /\ unheld.gc = db.gc
    BY <2>2, <2>3 DEF Buckets
  <2> HIDE DEF unheld
  <2>6. Stores(unheld, o.ID, r)
    BY <1>1, <2>1, <2>4, PlaceTyped
  <2> QED BY <2>5, <2>6 DEF Stores
<1>4. CASE ~(o.State = "HELD" /\ p \notin HeldPaths) /\ o.State = "READY" /\ p \in HeldPaths
  <2>1. r = place(out, unqueued, now)
    BY <1>4 DEF moveObject
  <2>2. CatalogType(out) /\ \A f \in Buckets \ {"queue", "queueSeg"} : out[f] = db[f]
    BY DequeueTyped
  <2> HIDE DEF moved, unqueued, out
  <2>3. Stores(out, o.ID, r)
    BY <1>2, <2>1, <2>2, PlaceTyped
  <2> QED BY <2>2, <2>3 DEF Stores, Buckets
<1>5. CASE /\ ~(o.State = "HELD" /\ p \notin HeldPaths)
           /\ ~(o.State = "READY" /\ p \in HeldPaths)
  <2>1. r = [back EXCEPT !.objects = Put(@, o.ID, moved)]
    BY <1>5 DEF moveObject
  <2>2. CatalogType(out) /\ \A f \in Buckets \ {"queue", "queueSeg"} : out[f] = db[f]
    BY DequeueTyped
  <2> HIDE DEF moved, unqueued, out
  <2>3. CatalogType(back) /\ \A f \in Buckets \ {"queue", "queueSeg"} : back[f] = out[f]
    BY <1>1, <2>2, PutQueueTyped
  <2> HIDE DEF back
  <2>4. DOMAIN back = Buckets
    BY <2>3 DEF CatalogType
  <2>5. /\ DOMAIN r = Buckets /\ r.objects = Put(back.objects, moved.ID, moved)
        /\ r.namespace = back.namespace /\ r.directories = back.directories
        /\ r.claims = back.claims /\ r.tombstones = back.tombstones /\ r.gc = back.gc
        /\ r.leases = back.leases /\ r.tombTimes = back.tombTimes
        /\ r.versions = back.versions /\ r.queue = back.queue
        /\ r.queueSeg = back.queueSeg /\ r.seq = back.seq /\ r.held = back.held
    BY <1>1, <2>1, <2>4 DEF Buckets
  <2>6. /\ DOMAIN r.queue \subseteq Tenants \X Nat \X Ids
        /\ \A k \in DOMAIN r.queueSeg : k[3] \in Nat /\ k[4] \in Ids
        /\ r.held \subseteq Nat \X Ids
        /\ r.seq \in Nat
    BY <2>3, <2>5 DEF CatalogType
  <2>7. CatalogType(r)
    BY <1>1, <2>3, <2>5, <2>6, StoreTyped
  <2> QED BY <1>1, <2>2, <2>3, <2>5, <2>7 DEF Put, Stores, Buckets
<1> QED BY <1>3, <1>4, <1>5

(* A rename that overwrites accounts for what it overwrites. *)
LEMMA RenameFileTyped ==
  ASSUME NEW db, CatalogType(db), NEW from, NEW to \in Tenants \X Paths, NEW now \in Nat,
         db.namespace[from] \in DOMAIN db.objects,
         NEW r, r = renameFile(db, from, to, now)
  PROVE  Keeps(db, r)
<1> DEFINE id == db.namespace[from]
           replaced == replacePath(db, to, now)
           moved == moveObject(replaced, db.objects[id], to[2], now)
<1>1. r = [moved EXCEPT !.namespace = Delete(Put(@, to, id), from)]
  BY DEF renameFile
<1>2. db.objects[id] \in Object /\ db.objects[id].ID = id /\ to[2] \in Paths
  BY DEF CatalogType
<1>3. Keeps(db, replaced)
  BY ReplacePathTyped
<1> HIDE DEF replaced
<1>4. Stores(replaced, id, moved)
  BY <1>2, <1>3, MoveObjectTyped DEF Keeps
<1> HIDE DEF moved
<1>5. Keeps(moved, r)
  <2>1. /\ DOMAIN moved = Buckets /\ DOMAIN moved.namespace \subseteq Tenants \X Paths
        /\ moved.directories \subseteq Tenants \X Paths /\ moved.versions \in Nat
        /\ CatalogType(moved)
    BY <1>4 DEF CatalogType, Stores
  <2>2. /\ DOMAIN r = Buckets
        /\ \A f \in Buckets \ {"namespace", "directories", "versions"} : r[f] = moved[f]
        /\ DOMAIN r.namespace \subseteq DOMAIN moved.namespace \cup {to}
        /\ r.directories = moved.directories
        /\ r.versions = moved.versions
    BY <1>1, <2>1 DEF Buckets, Put, Delete
  <2>3. DOMAIN r.namespace \subseteq Tenants \X Paths
    BY <2>1, <2>2
  <2> QED BY <2>1, <2>2, <2>3, NamesTyped
<1> QED BY <1>3, <1>4, <1>5 DEF Keeps, Stores, Known

(* Rewriting records in place, with the index buckets that follow. *)
LEMMA RewriteTyped ==
  ASSUME NEW db, CatalogType(db), NEW r, DOMAIN r = Buckets,
         DOMAIN r.objects = DOMAIN db.objects,
         \A id \in DOMAIN db.objects : r.objects[id] \in Object /\ r.objects[id].ID = id,
         DOMAIN r.namespace \subseteq Tenants \X Paths,
         r.directories \subseteq Tenants \X Paths,
         DOMAIN r.claims \subseteq Leases,
         \A l \in DOMAIN r.claims : r.claims[l] \in Claim,
         DOMAIN r.queue \subseteq Tenants \X Nat \X Ids,
         \A k \in DOMAIN r.queueSeg : k[3] \in Nat /\ k[4] \in Ids,
         DOMAIN r.leases \subseteq Nat \X Ids,
         r.held \subseteq Nat \X Ids,
         r.tombTimes \subseteq Nat \X Ids,
         r.tombstones = db.tombstones, r.gc = db.gc, r.versions = db.versions,
         r.seq \in Nat
  PROVE  Keeps(db, r)
<1>1. CatalogType(r)
  BY DEF CatalogType
<1> QED BY <1>1 DEF Keeps, Known

(* A directory rename loses no file. *)
LEMMA RenameTreeTyped ==
  ASSUME NEW db, CatalogType(db), NEW t \in Tenants, NEW old, NEW new, NEW now \in Nat,
         \A k \in movedFiles(db, t, old) :
            /\ db.namespace[k] \in DOMAIN db.objects
            /\ rebase(db.objects[db.namespace[k]].Path, old, new) \in Paths,
         \A k \in movedFiles(db, t, old) \cup movedDirectories(db, t, old) :
            rebase(k[2], old, new) \in Paths,
         NEW r, r = renameTree(db, t, old, new, now)
  PROVE  Keeps(db, r)
<1> DEFINE files == movedFiles(db, t, old)
           dirs == movedDirectories(db, t, old)
           ids == {db.namespace[k] : k \in files}
           At(id) == db.objects[id]
           Moved(id) == [At(id) EXCEPT !.Path = rebase(@, old, new)]
           hold == {id \in ids : At(id).State = "READY" /\ Moved(id).Path \in HeldPaths}
           queued == {id \in ids : At(id).QueueSeq # 0} \ hold
           outKeys == {queueKey(At(id)) : id \in hold \cup queued}
           outSegs == {queueSegKey(At(id)) : id \in hold \cup queued}
           inKeys == {queueKey(Moved(id)) : id \in queued}
           inSegs == {queueSegKey(Moved(id)) : id \in queued}
           into == {<<t, rebase(k[2], old, new)>> : k \in files}
<1>1. DOMAIN db = Buckets
  BY SMTT(30) DEF CatalogType
<1>2. /\ DOMAIN r = Buckets
      /\ r.objects = [id \in DOMAIN db.objects |->
                        CASE id \in hold -> [Moved(id) EXCEPT !.State = "HELD", !.QueueSeq = 0]
                          [] id \in ids \ hold -> Moved(id)
                          [] OTHER -> db.objects[id]]
      /\ DOMAIN r.namespace = (DOMAIN db.namespace \ files) \cup into
      /\ r.directories = (db.directories \ dirs) \cup {<<t, rebase(k[2], old, new)>> : k \in dirs}
      /\ r.held = db.held \cup {heldKey(At(id)) : id \in hold}
      /\ DOMAIN r.queue = (DOMAIN db.queue \ outKeys) \cup inKeys
      /\ DOMAIN r.queueSeg = (DOMAIN db.queueSeg \ outSegs) \cup inSegs
      /\ r.claims = db.claims /\ r.leases = db.leases /\ r.tombTimes = db.tombTimes
      /\ r.tombstones = db.tombstones /\ r.gc = db.gc
      /\ r.versions = db.versions /\ r.seq = db.seq
  BY <1>1, Zenon DEF Buckets, renameTree
<1>3. \A id \in ids : /\ id \in DOMAIN db.objects
                      /\ At(id) \in Object /\ At(id).ID = id
                      /\ Moved(id) \in Object /\ Moved(id).ID = id
  <2>1. \A id \in ids : /\ id \in DOMAIN db.objects
                        /\ At(id) \in Object /\ At(id).ID = id
                        /\ rebase(At(id).Path, old, new) \in Paths
    BY DEF CatalogType
  <2>2. \A id \in ids : Moved(id) = [At(id) EXCEPT !.Path = rebase(At(id).Path, old, new)]
    BY SMTT(30)
  <2>3. \A id \in ids : Moved(id) \in Object
    BY Zenon, <2>1, <2>2, ObjectEdits
  <2> QED BY <2>1, <2>2, <2>3 DEF Object
<1>4. /\ hold \subseteq ids /\ queued \subseteq ids
      /\ files \subseteq DOMAIN db.namespace /\ dirs \subseteq db.directories
      /\ \A k \in files \cup dirs : rebase(k[2], old, new) \in Paths
  BY Zenon DEF movedFiles, movedDirectories
<1>5. \A k \in inKeys : k \in Tenants \X Nat \X Ids
  <2> HIDE DEF Moved, queued, ids
  <2> QED BY <1>3, <1>4 DEF Object, queueKey
<1>6. \A k \in inSegs : k[3] \in Nat /\ k[4] \in Ids
  <2> HIDE DEF Moved, queued, ids
  <2> QED BY <1>3, <1>4 DEF Object, queueSegKey
<1>7. \A id \in hold : heldKey(At(id)) \in Nat \X Ids
  <2> HIDE DEF At, hold, ids, Moved
  <2> QED BY <1>3, <1>4 DEF Object, heldKey
<1>8. \A id \in DOMAIN db.objects : r.objects[id] \in Object /\ r.objects[id].ID = id
  <2> SUFFICES ASSUME NEW id \in DOMAIN db.objects
               PROVE  r.objects[id] \in Object /\ r.objects[id].ID = id
    OBVIOUS
  <2> HIDE DEF Moved, ids, hold
  <2>1. CASE id \in hold
    <3>1. Moved(id) \in Object /\ Moved(id).ID = id
      BY SMTT(30), <1>3, <1>4, <2>1
    <3>2. r.objects[id] = [Moved(id) EXCEPT !.State = "HELD", !.QueueSeq = 0]
      BY ZenonT(40), <1>2, <2>1
    <3>3. [Moved(id) EXCEPT !.State = "HELD"] \in Object
      BY <3>1, ObjectEdits, ZenonT(40) DEF States
    <3>5. r.objects[id] \in Object
      BY Zenon, <3>2, <3>3, ObjectEdits
    <3>4. r.objects[id].ID = id
      BY <3>1, <3>2, SMTT(30) DEF Object
    <3> QED BY <3>4, <3>5
  <2>2. CASE id \in ids \ hold
    BY Zenon, <1>2, <1>3, <2>2
  <2>3. CASE id \notin ids
    <3>1. r.objects[id] = db.objects[id]
      BY Zenon, <1>2, <1>4, <2>3
    <3> QED BY <3>1, SMTT(30) DEF CatalogType
  <2> QED BY <2>1, <2>2, <2>3
<1>9. into \subseteq Tenants \X Paths
      /\ {<<t, rebase(k[2], old, new)>> : k \in dirs} \subseteq Tenants \X Paths
  BY SMTT(30), <1>4
<1> HIDE DEF files, dirs, ids, Moved, At, hold, queued, outKeys, outSegs, inKeys, inSegs, into
<1>10. /\ DOMAIN r.objects = DOMAIN db.objects
       /\ DOMAIN r.namespace \subseteq Tenants \X Paths
       /\ r.directories \subseteq Tenants \X Paths
       /\ DOMAIN r.claims \subseteq Leases
       /\ \A l \in DOMAIN r.claims : r.claims[l] \in Claim
       /\ DOMAIN r.queue \subseteq Tenants \X Nat \X Ids
       /\ DOMAIN r.leases \subseteq Nat \X Ids
       /\ r.held \subseteq Nat \X Ids
       /\ r.tombTimes \subseteq Nat \X Ids
       /\ r.seq \in Nat
  <2>1. DOMAIN r.objects = DOMAIN db.objects
    BY Zenon, <1>2
  <2>2. /\ DOMAIN db.namespace \subseteq Tenants \X Paths
        /\ db.directories \subseteq Tenants \X Paths
        /\ DOMAIN db.claims \subseteq Leases
        /\ \A l \in DOMAIN db.claims : db.claims[l] \in Claim
        /\ DOMAIN db.queue \subseteq Tenants \X Nat \X Ids
        /\ DOMAIN db.leases \subseteq Nat \X Ids
        /\ db.held \subseteq Nat \X Ids
        /\ db.tombTimes \subseteq Nat \X Ids
        /\ db.seq \in Nat
    BY SMTT(30) DEF CatalogType
  <2>3. /\ DOMAIN r.namespace \subseteq Tenants \X Paths
        /\ r.directories \subseteq Tenants \X Paths
    BY ZenonT(40), <1>2, <1>9, <2>2
  <2>4. DOMAIN r.queue \subseteq Tenants \X Nat \X Ids
    BY Zenon, <1>2, <1>5, <2>2
  <2>5. r.held \subseteq Nat \X Ids
    <3>1. r.held = db.held \cup {heldKey(At(id)) : id \in hold}
      BY ZenonT(40), <1>2
    <3> QED BY SMTT(30), <1>7, <2>2, <3>1
  <2> QED BY ZenonT(40), <1>2, <2>1, <2>2, <2>3, <2>4, <2>5
<1>11. \A k \in DOMAIN r.queueSeg : k[3] \in Nat /\ k[4] \in Ids
  BY <1>2, <1>6, ZenonT(40) DEF CatalogType
<1>12. /\ DOMAIN r = Buckets /\ r.tombstones = db.tombstones /\ r.gc = db.gc
       /\ r.versions = db.versions
  BY Zenon, <1>2
<1> QED BY <1>8, <1>10, <1>11, <1>12, RewriteTyped

(* So does setting a field that a lease, its end or a requeue changes. *)
LEMMA LeaseEdits ==
  ASSUME NEW o \in Object
  PROVE  /\ \A l \in Leases \cup {NoLease} : [o EXCEPT !.LeaseID = l] \in Object
         /\ \A n \in Nat : [o EXCEPT !.QueueSeq = n] \in Object
         /\ \A n \in Nat : [o EXCEPT !.VisibleAt = n] \in Object
         /\ \A n \in Nat : [o EXCEPT !.Attempts = n] \in Object
         /\ \A n \in Nat : [o EXCEPT !.ParkedAt = n] \in Object
BY DEF Object

(* A batch claim rewrites the records it wins and stores their claims. *)
LEMMA ClaimTyped ==
  ASSUME NEW db, CatalogType(db), NEW won \in SUBSET DOMAIN db.objects,
         NEW lease \in [won -> Leases], NEW ttl \in Nat, NEW now \in Nat,
         NEW r, r = claimTx(db, won, lease, ttl, now)
  PROVE  Keeps(db, r)
<1> DEFINE os == {db.objects[id] : id \in won}
           Leased(o) == [o EXCEPT !.State = "LEASED", !.LeaseID = lease[o.ID],
                                  !.LeaseUntil = now + ttl, !.QueueSeq = 0,
                                  !.Attempts = @ + 1]
           given == {lease[id] : id \in won}
           ObjectOf(l) == CHOOSE id \in won : lease[id] = l
<1>1. DOMAIN db = Buckets
  BY DEF CatalogType
<1>2. /\ DOMAIN r = Buckets
      /\ r.objects = [id \in DOMAIN db.objects |->
                        IF id \in won THEN Leased(db.objects[id]) ELSE db.objects[id]]
      /\ r.claims = [l \in DOMAIN db.claims \cup given |->
                       IF l \in given
                         THEN [ObjectID |-> ObjectOf(l),
                               Tenant |-> db.objects[ObjectOf(l)].Tenant,
                               LeaseUntil |-> now + ttl, LeaseSeconds |-> ttl]
                         ELSE db.claims[l]]
      /\ DOMAIN r.queue \subseteq DOMAIN db.queue
      /\ DOMAIN r.queueSeg \subseteq DOMAIN db.queueSeg
      /\ DOMAIN r.leases = DOMAIN db.leases \cup {<<now + ttl, id>> : id \in won}
      /\ r.namespace = db.namespace /\ r.directories = db.directories /\ r.held = db.held
      /\ r.tombTimes = db.tombTimes /\ r.tombstones = db.tombstones /\ r.gc = db.gc
      /\ r.versions = db.versions /\ r.seq = db.seq
  BY <1>1, Zenon DEF Buckets, claimTx, DeleteAll
<1>3. now + ttl \in Nat
  OBVIOUS
<1>4. \A id \in won : Leased(db.objects[id]) \in Object /\ Leased(db.objects[id]).ID = id
  <2> SUFFICES ASSUME NEW id \in won
               PROVE  Leased(db.objects[id]) \in Object /\ Leased(db.objects[id]).ID = id
    BY Zenon
  <2>1. db.objects[id] \in Object /\ db.objects[id].ID = id
    BY DEF CatalogType
  <2>2. lease[db.objects[id].ID] \in Leases
    BY <2>1
  <2>3. ASSUME NEW o \in Object, NEW l \in Leases, NEW n \in Nat
        PROVE  [o EXCEPT !.State = "LEASED", !.LeaseID = l, !.LeaseUntil = n,
                         !.QueueSeq = 0, !.Attempts = @ + 1] \in Object
    <3> DEFINE o1 == [o EXCEPT !.State = "LEASED"]
               o2 == [o1 EXCEPT !.LeaseID = l]
               o3 == [o2 EXCEPT !.LeaseUntil = n]
               o4 == [o3 EXCEPT !.QueueSeq = 0]
    <3>0. o.Attempts + 1 \in Nat
      BY DEF Object
    <3>1. o1 \in Object
      BY ObjectEdits, Zenon DEF States
    <3> HIDE DEF o1
    <3>2. o2 \in Object
      BY <3>1, LeaseEdits
    <3> HIDE DEF o2
    <3>3. o3 \in Object
      BY Zenon, <3>2, ObjectEdits
    <3> HIDE DEF o3
    <3>4. o4 \in Object
      BY Zenon, <3>3, ObjectEdits
    <3> HIDE DEF o4
    <3>5. [o4 EXCEPT !.Attempts = o.Attempts + 1] \in Object
      BY <3>0, <3>4, LeaseEdits
    <3> QED BY <3>5, Zenon DEF o1, o2, o3, o4
  <2>4. Leased(db.objects[id]) \in Object
    BY Zenon, <1>3, <2>1, <2>2, <2>3
  <2>5. Leased(db.objects[id]).ID = id
    <3>1. "ID" \in DOMAIN db.objects[id]
      BY <2>1 DEF Object
    <3> QED BY <2>1, <3>1
  <2> QED BY <2>4, <2>5
<1>5. \A id \in DOMAIN db.objects : r.objects[id] \in Object /\ r.objects[id].ID = id
  <2> HIDE DEF Leased
  <2>1. \A id \in DOMAIN db.objects : db.objects[id] \in Object /\ db.objects[id].ID = id
    BY DEF CatalogType
  <2>2. \A id \in DOMAIN db.objects :
           r.objects[id] = IF id \in won THEN Leased(db.objects[id]) ELSE db.objects[id]
    BY <1>2
  <2> QED BY <1>4, <2>1, <2>2
<1>6. \A l \in given : /\ ObjectOf(l) \in won
                       /\ ObjectOf(l) \in Ids
                       /\ db.objects[ObjectOf(l)].Tenant \in Tenants
  <2>1. \A l \in given : ObjectOf(l) \in won
    OBVIOUS
  <2>2. \A id \in won : id \in Ids /\ db.objects[id].Tenant \in Tenants
    BY DEF CatalogType, Object
  <2> HIDE DEF ObjectOf, given
  <2> QED BY <2>1, <2>2
<1>7. DOMAIN r.claims \subseteq Leases /\ \A l \in DOMAIN r.claims : r.claims[l] \in Claim
  <2>1. given \subseteq Leases
    OBVIOUS
  <2>2. DOMAIN db.claims \subseteq Leases /\ \A l \in DOMAIN db.claims : db.claims[l] \in Claim
    BY DEF CatalogType
  <2> HIDE DEF ObjectOf, given, Leased
  <2>3. \A l \in given : [ObjectID |-> ObjectOf(l), Tenant |-> db.objects[ObjectOf(l)].Tenant,
                          LeaseUntil |-> now + ttl, LeaseSeconds |-> ttl] \in Claim
    BY <1>3, <1>6 DEF Claim
  <2>4. r.claims = [l \in DOMAIN db.claims \cup given |->
                      IF l \in given
                        THEN [ObjectID |-> ObjectOf(l),
                              Tenant |-> db.objects[ObjectOf(l)].Tenant,
                              LeaseUntil |-> now + ttl, LeaseSeconds |-> ttl]
                        ELSE db.claims[l]]
    BY <1>2
  <2> QED BY <2>1, <2>2, <2>3, <2>4
<1>8. DOMAIN r.leases \subseteq Nat \X Ids
  <2>1. DOMAIN r.leases = DOMAIN db.leases \cup {<<now + ttl, id>> : id \in won}
    BY Zenon, <1>2
  <2>2. won \subseteq Ids /\ DOMAIN db.leases \subseteq Nat \X Ids
    BY DEF CatalogType
  <2> QED BY <1>3, <2>1, <2>2
<1> HIDE DEF os, Leased, given, ObjectOf
<1>9. /\ DOMAIN r.objects = DOMAIN db.objects
      /\ DOMAIN r.namespace \subseteq Tenants \X Paths
      /\ r.directories \subseteq Tenants \X Paths
      /\ DOMAIN r.queue \subseteq Tenants \X Nat \X Ids
      /\ r.held \subseteq Nat \X Ids
      /\ r.tombTimes \subseteq Nat \X Ids
      /\ r.seq \in Nat
  BY <1>2 DEF CatalogType
<1>10. \A k \in DOMAIN r.queueSeg : k[3] \in Nat /\ k[4] \in Ids
  BY <1>2 DEF CatalogType
<1>11. /\ DOMAIN r = Buckets /\ r.tombstones = db.tombstones /\ r.gc = db.gc
       /\ r.versions = db.versions
  BY <1>2
<1> QED BY <1>5, <1>7, <1>8, <1>9, <1>10, <1>11, RewriteTyped

(* A renewal moves a deadline. *)
LEMMA RenewTyped ==
  ASSUME NEW db, CatalogType(db), NEW l \in DOMAIN db.claims, NEW ttl \in Nat, NEW now \in Nat,
         NEW r, r = Renew(db, l, ttl, now)
  PROVE  Keeps(db, r)
<1> DEFINE id == db.claims[l].ObjectID
           until == now + (IF ttl > 0 THEN ttl ELSE db.claims[l].LeaseSeconds)
<1>1. DOMAIN db = Buckets
  BY DEF CatalogType
<1>2. db.claims[l] \in Claim /\ id \in Ids /\ until \in Nat
  BY DEF CatalogType, Claim
<1>3. /\ DOMAIN r = Buckets
      /\ r.objects = [db.objects EXCEPT ![id] = [@ EXCEPT !.LeaseUntil = until]]
      /\ r.claims = [db.claims EXCEPT ![l] = [@ EXCEPT !.LeaseUntil = until]]
      /\ r.leases = Put(Delete(db.leases, leaseKey(db.objects[id])), <<until, id>>, l)
      /\ r.namespace = db.namespace /\ r.directories = db.directories /\ r.held = db.held
      /\ r.queue = db.queue /\ r.queueSeg = db.queueSeg
      /\ r.tombTimes = db.tombTimes /\ r.tombstones = db.tombstones /\ r.gc = db.gc
      /\ r.versions = db.versions /\ r.seq = db.seq
  BY <1>1, Zenon DEF Buckets, Renew
<1> HIDE DEF until, id
<1>4. \A i \in DOMAIN db.objects : r.objects[i] \in Object /\ r.objects[i].ID = i
  <2> SUFFICES ASSUME NEW i \in DOMAIN db.objects
               PROVE  r.objects[i] \in Object /\ r.objects[i].ID = i
    OBVIOUS
  <2>1. db.objects[i] \in Object /\ db.objects[i].ID = i
    BY DEF CatalogType
  <2>2. r.objects[i] = db.objects[i] \/ r.objects[i] = [db.objects[i] EXCEPT !.LeaseUntil = until]
    BY <1>3
  <2>3. [db.objects[i] EXCEPT !.LeaseUntil = until] \in Object
    BY Zenon, <1>2, <2>1, ObjectEdits
  <2>4. [db.objects[i] EXCEPT !.LeaseUntil = until].ID = i
    BY <2>1 DEF Object
  <2> QED BY Zenon, <2>1, <2>2, <2>3, <2>4
<1>5. DOMAIN r.claims \subseteq Leases /\ \A k \in DOMAIN r.claims : r.claims[k] \in Claim
  <2>1. DOMAIN db.claims \subseteq Leases /\ \A k \in DOMAIN db.claims : db.claims[k] \in Claim
    BY DEF CatalogType
  <2>2. [db.claims[l] EXCEPT !.LeaseUntil = until] \in Claim
    BY <1>2 DEF Claim
  <2>3. r.claims = [db.claims EXCEPT ![l] = [@ EXCEPT !.LeaseUntil = until]]
    BY <1>3
  <2> QED BY <2>1, <2>2, <2>3
<1>6. DOMAIN r.leases \subseteq Nat \X Ids
  <2>1. DOMAIN db.leases \subseteq Nat \X Ids
    BY DEF CatalogType
  <2>2. DOMAIN r.leases \subseteq DOMAIN db.leases \cup {<<until, id>>}
    BY <1>3 DEF Put, Delete
  <2> QED BY <1>2, <2>1, <2>2
<1>7. /\ DOMAIN r.objects = DOMAIN db.objects
      /\ DOMAIN r.namespace \subseteq Tenants \X Paths
      /\ r.directories \subseteq Tenants \X Paths
      /\ DOMAIN r.queue \subseteq Tenants \X Nat \X Ids
      /\ r.held \subseteq Nat \X Ids
      /\ r.tombTimes \subseteq Nat \X Ids
      /\ r.seq \in Nat
  BY <1>3 DEF CatalogType
<1>8. \A k \in DOMAIN r.queueSeg : k[3] \in Nat /\ k[4] \in Ids
  BY <1>3 DEF CatalogType
<1>9. /\ DOMAIN r = Buckets /\ r.tombstones = db.tombstones /\ r.gc = db.gc
      /\ r.versions = db.versions
  BY <1>3
<1> QED BY <1>4, <1>5, <1>6, <1>7, <1>8, <1>9, RewriteTyped

(* Transactions compose. *)
LEMMA KeepsTransitive ==
  ASSUME NEW db, NEW m, NEW r, Keeps(db, m), Keeps(m, r)
  PROVE  Keeps(db, r)
BY DEF Keeps

(* A lease that ends deletes, parks or requeues its object. *)
LEMMA EndLeasesTyped ==
  ASSUME NEW db, CatalogType(db), NEW ids \in SUBSET DOMAIN db.objects,
         NEW opts \in ReleaseOptions, NEW num \in Numberings(db, requeued(db, ids, opts)),
         NEW now \in Nat, NEW r, r = endLeases(db, ids, opts, num, now)
  PROVE  Keeps(db, r)
<1> DEFINE parks == exhausted(db, ids, opts)
           back == requeued(db, ids, opts)
           Ended(id) == [db.objects[id] EXCEPT !.LeaseID = NoLease, !.LeaseUntil = 0,
                                               !.Attempts = attemptsAfter(db.objects[id], opts)]
           Parked(id) == [Ended(id) EXCEPT !.State = "PARKED", !.ParkedAt = now]
           Ready(id) == [Ended(id) EXCEPT !.State = "READY", !.QueueSeq = num[id],
                                          !.VisibleAt = now + opts.RetryAfter]
           entries == {queueKey(Ready(id)) : id \in back}
           segEntries == {queueSegKey(Ready(id)) : id \in back}
           gone == deleteObjectTx(db, retracted(db, ids), "retracted", now)
<1>1. Keeps(db, gone)
  <2>1. retracted(db, ids) \in SUBSET DOMAIN db.objects /\ "retracted" \in Reasons
    BY SMTT(30) DEF retracted, Reasons
  <2> QED BY <2>1, DeleteObjectTyped
<1>2. DOMAIN gone = Buckets /\ CatalogType(gone)
  BY <1>1, Zenon DEF Keeps, CatalogType
<1>4. r = [gone EXCEPT
             !.objects = [id \in DOMAIN @ |-> CASE id \in parks -> Parked(id)
                                                [] id \in back -> Ready(id)
                                                [] OTHER -> @[id]],
             !.claims = DeleteAll(@, {db.objects[id].LeaseID : id \in ids}),
             !.leases = DeleteAll(@, {leaseKey(db.objects[id]) : id \in ids}),
             !.parked = @ \cup {parkedKey(Parked(id)) : id \in parks},
             !.queue = [k \in DOMAIN @ \cup entries |->
                          IF k \in entries THEN queueValue(Ready(k[3])) ELSE @[k]],
             !.queueSeg = [k \in DOMAIN @ \cup segEntries |->
                             IF k \in segEntries THEN queueValue(Ready(k[4])) ELSE @[k]],
             !.seq = @ + Cardinality(back)]
  BY Zenon DEF endLeases
<1>5. parks \subseteq ids /\ back \subseteq ids
  BY DEF exhausted, requeued
<1>6. \A id \in DOMAIN db.objects : db.objects[id] \in Object /\ db.objects[id].ID = id
  BY DEF CatalogType
<1>7. back \subseteq Ids /\ Cardinality(back) \in Nat /\ db.seq \in Nat /\ gone.seq \in Nat
  <2>1. back \subseteq Ids /\ db.seq \in Nat
    BY <1>5 DEF CatalogType
  <2>2. IsFiniteSet(back)
    BY SMTT(30), <2>1, CatalogAssumption, FS_Subset
  <2>3. gone.seq \in Nat
    BY <1>2 DEF CatalogType
  <2> QED BY <2>1, <2>2, <2>3, FS_CardinalityType
<1>8. \A id \in back : num[id] \in Nat
  BY <1>7 DEF Numberings
<1>9. now + opts.RetryAfter \in Nat
  BY DEF ReleaseOptions
<1>10. \A id \in ids : Ended(id) \in Object /\ Ended(id).ID = id
  <2> SUFFICES ASSUME NEW id \in ids PROVE Ended(id) \in Object /\ Ended(id).ID = id
    BY Zenon
  <2> DEFINE o == db.objects[id]
             o1 == [o EXCEPT !.LeaseID = NoLease]
             o2 == [o1 EXCEPT !.LeaseUntil = 0]
             n == attemptsAfter(o, opts)
  <2>1. o \in Object /\ o.ID = id
    BY <1>6
  <2>2. n \in Nat
    BY <2>1 DEF attemptsAfter, Object
  <2>3. Ended(id) = [o2 EXCEPT !.Attempts = n]
    BY Zenon
  <2> HIDE DEF o, n, Ended
  <2>4. o1 \in Object /\ o1.ID = id
    <3>1. o1 \in Object
      BY <2>1, LeaseEdits
    <3> QED BY <2>1, <3>1 DEF Object
  <2> HIDE DEF o1
  <2>5. o2 \in Object /\ o2.ID = id
    <3>1. o2 \in Object
      BY Zenon, <2>4, ObjectEdits
    <3> QED BY <2>4, <3>1 DEF Object
  <2> HIDE DEF o2
  <2>6. [o2 EXCEPT !.Attempts = n] \in Object
    BY <2>2, <2>5, LeaseEdits
  <2>7. [o2 EXCEPT !.Attempts = n].ID = id
    BY <2>5 DEF Object
  <2> QED BY <2>3, <2>6, <2>7
<1> HIDE DEF Ended
<1>11. \A id \in ids : Parked(id) \in Object /\ Parked(id).ID = id
  <2> SUFFICES ASSUME NEW id \in ids PROVE Parked(id) \in Object /\ Parked(id).ID = id
    BY Zenon
  <2> DEFINE o1 == [Ended(id) EXCEPT !.State = "PARKED"]
  <2>1. Parked(id) = [o1 EXCEPT !.ParkedAt = now]
    BY Zenon
  <2> HIDE DEF Parked
  <2>2. o1 \in Object /\ o1.ID = id
    <3>1. o1 \in Object
      BY <1>10, ObjectEdits, Zenon DEF States
    <3> QED BY <1>10, <3>1 DEF Object
  <2> HIDE DEF o1
  <2>3. [o1 EXCEPT !.ParkedAt = now] \in Object
    BY <2>2, LeaseEdits
  <2> QED BY <2>1, <2>2, <2>3 DEF Object
<1>12. \A id \in back : Ready(id) \in Object /\ Ready(id).ID = id
  <2> SUFFICES ASSUME NEW id \in back PROVE Ready(id) \in Object /\ Ready(id).ID = id
    BY Zenon
  <2> DEFINE o1 == [Ended(id) EXCEPT !.State = "READY"]
             o2 == [o1 EXCEPT !.QueueSeq = num[id]]
             v == now + opts.RetryAfter
  <2>1. Ready(id) = [o2 EXCEPT !.VisibleAt = v]
    BY Zenon
  <2>2. Ended(id) \in Object /\ Ended(id).ID = id /\ num[id] \in Nat /\ v \in Nat
    BY <1>5, <1>8, <1>9, <1>10
  <2> HIDE DEF Ready, v, back
  <2>3. o1 \in Object /\ o1.ID = id
    <3>1. o1 \in Object
      BY <2>2, ObjectEdits, Zenon DEF States
    <3> QED BY <2>2, <3>1 DEF Object
  <2> HIDE DEF o1
  <2>4. o2 \in Object /\ o2.ID = id
    <3>1. o2 \in Object
      BY <2>2, <2>3, LeaseEdits
    <3> QED BY <2>3, <3>1 DEF Object
  <2> HIDE DEF o2
  <2>5. [o2 EXCEPT !.VisibleAt = v] \in Object
    BY <2>2, <2>4, LeaseEdits
  <2> QED BY <2>1, <2>4, <2>5 DEF Object
<1> HIDE DEF Parked, Ready, parks, back, gone
<1>13. /\ DOMAIN r = Buckets
       /\ r.objects = [id \in DOMAIN gone.objects |-> CASE id \in parks -> Parked(id)
                                                        [] id \in back -> Ready(id)
                                                        [] OTHER -> gone.objects[id]]
       /\ r.claims = DeleteAll(gone.claims, {db.objects[id].LeaseID : id \in ids})
       /\ r.leases = DeleteAll(gone.leases, {leaseKey(db.objects[id]) : id \in ids})
       /\ DOMAIN r.queue = DOMAIN gone.queue \cup entries
       /\ DOMAIN r.queueSeg = DOMAIN gone.queueSeg \cup segEntries
       /\ r.seq = gone.seq + Cardinality(back)
       /\ r.namespace = gone.namespace /\ r.directories = gone.directories
       /\ r.held = gone.held /\ r.tombTimes = gone.tombTimes
       /\ r.tombstones = gone.tombstones /\ r.gc = gone.gc /\ r.versions = gone.versions
  BY <1>2, <1>4, Zenon DEF Buckets
<1>14. \A id \in DOMAIN gone.objects : r.objects[id] \in Object /\ r.objects[id].ID = id
  <2>1. \A id \in DOMAIN gone.objects : gone.objects[id] \in Object /\ gone.objects[id].ID = id
    BY <1>2 DEF CatalogType
  <2>2. \A id \in DOMAIN gone.objects :
           r.objects[id] = CASE id \in parks -> Parked(id)
                             [] id \in back -> Ready(id)
                             [] OTHER -> gone.objects[id]
    BY <1>13
  <2> QED BY <1>5, <1>11, <1>12, <2>1, <2>2
<1>15. DOMAIN r.queue \subseteq Tenants \X Nat \X Ids
  <2>1. entries \subseteq Tenants \X Nat \X Ids
    BY <1>12 DEF Object, queueKey
  <2>2. DOMAIN gone.queue \subseteq Tenants \X Nat \X Ids
    BY <1>2 DEF CatalogType
  <2> QED BY <1>13, <2>1, <2>2
<1>16. \A k \in DOMAIN r.queueSeg : k[3] \in Nat /\ k[4] \in Ids
  <2>1. \A k \in segEntries : k[3] \in Nat /\ k[4] \in Ids
    BY <1>12, SMTT(30) DEF Object, queueSegKey
  <2>2. \A k \in DOMAIN gone.queueSeg : k[3] \in Nat /\ k[4] \in Ids
    BY <1>2 DEF CatalogType
  <2> HIDE DEF segEntries
  <2> QED BY <1>13, <2>1, <2>2
<1> HIDE DEF entries, segEntries
<1>17. /\ DOMAIN r.objects = DOMAIN gone.objects
       /\ DOMAIN r.namespace \subseteq Tenants \X Paths
       /\ r.directories \subseteq Tenants \X Paths
       /\ DOMAIN r.claims \subseteq Leases
       /\ \A l \in DOMAIN r.claims : r.claims[l] \in Claim
       /\ DOMAIN r.leases \subseteq Nat \X Ids
       /\ r.held \subseteq Nat \X Ids
       /\ r.tombTimes \subseteq Nat \X Ids
       /\ r.seq \in Nat
  <2>1. /\ DOMAIN gone.namespace \subseteq Tenants \X Paths
        /\ gone.directories \subseteq Tenants \X Paths
        /\ DOMAIN gone.claims \subseteq Leases
        /\ \A l \in DOMAIN gone.claims : gone.claims[l] \in Claim
        /\ DOMAIN gone.leases \subseteq Nat \X Ids
        /\ gone.held \subseteq Nat \X Ids
        /\ gone.tombTimes \subseteq Nat \X Ids
    BY <1>2 DEF CatalogType
  <2>2. r.seq \in Nat
    BY <1>7, <1>13
  <2>3. /\ DOMAIN r.claims \subseteq DOMAIN gone.claims
        /\ \A l \in DOMAIN r.claims : r.claims[l] = gone.claims[l]
        /\ DOMAIN r.leases \subseteq DOMAIN gone.leases
    BY <1>13 DEF DeleteAll
  <2> QED BY SMTT(30), <1>13, <2>1, <2>2, <2>3
<1>18. /\ DOMAIN r = Buckets /\ r.tombstones = gone.tombstones /\ r.gc = gone.gc
       /\ r.versions = gone.versions
  BY SMTT(30), <1>13
<1>19. Keeps(gone, r)
  BY SMTT(30), <1>2, <1>14, <1>15, <1>16, <1>17, <1>18, RewriteTyped
<1> QED BY <1>1, <1>19, KeepsTransitive

(* A release ends the lease, or only drops a claim the object no longer knows. *)
LEMMA ReleaseTyped ==
  ASSUME NEW db, CatalogType(db), NEW l \in DOMAIN db.claims, NEW opts \in ReleaseOptions,
         NEW num \in Numberings(db, requeued(db, {db.claims[l].ObjectID}, opts)),
         NEW now \in Nat, NEW r, r = releaseTx(db, l, opts, num, now)
  PROVE  Keeps(db, r)
<1> DEFINE id == db.claims[l].ObjectID
<1>1. CASE id \in InState(db, "LEASED") /\ db.objects[id].LeaseID = l
  <2>1. r = endLeases(db, {id}, opts, num, now)
    BY <1>1 DEF releaseTx
  <2>2. {id} \in SUBSET DOMAIN db.objects
    BY <1>1 DEF InState
  <2> HIDE DEF id
  <2>3. PICK ids \in SUBSET DOMAIN db.objects : ids = {id}
    BY Zenon, <2>2
  <2>4. num \in Numberings(db, requeued(db, ids, opts)) /\ r = endLeases(db, ids, opts, num, now)
    BY <2>1, <2>3 DEF id
  <2> QED BY <2>4, EndLeasesTyped
<1>2. CASE ~(id \in InState(db, "LEASED") /\ db.objects[id].LeaseID = l)
  <2>1. r = [db EXCEPT !.claims = Delete(@, l)]
    BY <1>2 DEF releaseTx
  <2>2. DOMAIN db = Buckets
    BY DEF CatalogType
  <2>3. /\ DOMAIN r = Buckets
        /\ r.claims = Delete(db.claims, l)
        /\ \A f \in Buckets \ {"claims"} : r[f] = db[f]
    BY <2>1, <2>2 DEF Buckets
  <2>4. /\ DOMAIN r.claims \subseteq DOMAIN db.claims
        /\ \A k \in DOMAIN r.claims : r.claims[k] = db.claims[k]
    BY <2>3, SMTT(30) DEF Delete
  <2>5. CatalogType(r)
    BY <2>3, <2>4 DEF CatalogType, Buckets
  <2> QED BY <2>3, <2>5 DEF Keeps, Known, Buckets
<1> QED BY <1>1, <1>2

(* A parked object goes back to the queue. *)
LEMMA RequeueTyped ==
  ASSUME NEW db, CatalogType(db), NEW id \in DOMAIN db.objects, NEW now \in Nat,
         NEW r, r = Requeue(db, id, now)
  PROVE  Keeps(db, r)
<1> DEFINE o == db.objects[id]
           unparked == [db EXCEPT !.parked = @ \ {parkedKey(o)}]
           o1 == [o EXCEPT !.State = "READY"]
           o2 == [o1 EXCEPT !.Attempts = 0]
           o3 == [o2 EXCEPT !.ParkedAt = 0]
<1>1. r = enqueue(unparked, o3, now)
  BY Zenon DEF Requeue
<1>2. o \in Object /\ o.ID = id /\ DOMAIN db = Buckets
  BY DEF CatalogType
<1> HIDE DEF o
<1>3. o1 \in Object /\ o1.ID = id
  <2>1. o1 \in Object
    BY <1>2, ObjectEdits, Zenon DEF States
  <2> QED BY <1>2, <2>1 DEF Object
<1> HIDE DEF o1
<1>4. o2 \in Object /\ o2.ID = id
  <2>1. o2 \in Object
    BY <1>3, LeaseEdits
  <2> QED BY <1>3, <2>1 DEF Object
<1> HIDE DEF o2
<1>5. o3 \in Object /\ o3.ID = id
  <2>1. o3 \in Object
    BY <1>4, LeaseEdits
  <2> QED BY <1>4, <2>1 DEF Object
<1> HIDE DEF o3
<1>6. /\ DOMAIN unparked = Buckets
      /\ \A f \in Buckets \ {"parked"} : unparked[f] = db[f]
  BY <1>2 DEF Buckets
<1> HIDE DEF unparked
<1>7. CatalogType(unparked)
  BY <1>6 DEF CatalogType, Buckets
<1>8. Stores(unparked, id, r)
  BY <1>1, <1>5, <1>7, EnqueueTyped
<1> QED BY <1>6, <1>8 DEF Stores, Keeps, Known, Buckets

(* flushGC forgets only what it is given. *)
LEMMA FlushTyped ==
  ASSUME NEW db, CatalogType(db), NEW done, NEW r, r = flushGC(db, done)
  PROVE  CatalogType(r) /\ DOMAIN r.objects = DOMAIN db.objects /\ r.gc = db.gc \ done
<1>1. DOMAIN db = Buckets
  BY DEF CatalogType
<1>2. /\ DOMAIN r = Buckets /\ r.gc = db.gc \ done
      /\ \A f \in Buckets \ {"gc"} : r[f] = db[f]
  BY <1>1, SMTT(30) DEF Buckets, flushGC
<1>3. CatalogType(r)
  BY <1>2 DEF CatalogType, Buckets
<1> QED BY <1>2, <1>3 DEF Buckets

(* Dropping tombstones touches no object. *)
LEMMA DropTombstonesTyped ==
  ASSUME NEW db, CatalogType(db), NEW tombs, NEW cutoff, NEW r, r = dropTombstones(db, tombs, cutoff)
  PROVE  Keeps(db, r)
<1>1. DOMAIN db = Buckets
  BY DEF CatalogType
<1>2. /\ DOMAIN r = Buckets
      /\ r.tombstones = DeleteAll(db.tombstones, tombs)
      /\ r.tombTimes \subseteq db.tombTimes
      /\ \A f \in Buckets \ {"tombstones", "tombTimes"} : r[f] = db[f]
  BY <1>1, Zenon DEF Buckets, dropTombstones
<1>3. /\ DOMAIN r.tombstones \subseteq DOMAIN db.tombstones
      /\ \A id \in DOMAIN r.tombstones : r.tombstones[id] = db.tombstones[id]
  BY <1>2 DEF DeleteAll
<1>4. CatalogType(r)
  BY <1>2, <1>3 DEF CatalogType, Buckets
<1> QED BY <1>2, <1>4 DEF Keeps, Known, Buckets

(* Rebuilding the indexes touches no primary record but its queue position. *)
LEMMA RebuildTyped ==
  ASSUME NEW db, CatalogType(db), NEW r, r = rebuildIndexes(db)
  PROVE  Keeps(db, r)
<1> DEFINE ready == InState(db, "READY")
           Rank(id) == CASE db.objects[id].State = "READY" -> versionRank(db, id)
                         [] db.objects[id].State = "LEASED" -> 0
                         [] OTHER -> db.objects[id].QueueSeq
           Renumbered(id) == [db.objects[id] EXCEPT !.QueueSeq = Rank(id)]
           os == {Renumbered(id) : id \in ready}
<1>1. DOMAIN db = Buckets
  BY DEF CatalogType
<1>2. /\ DOMAIN r = Buckets
      /\ r.objects = [id \in DOMAIN db.objects |-> Renumbered(id)]
      /\ DOMAIN r.queue = {queueKey(o) : o \in os}
      /\ DOMAIN r.queueSeg = {queueSegKey(o) : o \in os}
      /\ DOMAIN r.leases = {leaseKey(db.objects[id]) : id \in InState(db, "LEASED")}
      /\ r.held = {heldKey(db.objects[id]) : id \in InState(db, "HELD")}
      /\ r.claims = [l \in liveClaims(db) |-> db.claims[l]]
      /\ r.tombTimes = {<<db.tombstones[id].DeletedAt, id>> : id \in DOMAIN db.tombstones}
      /\ r.seq = Cardinality(ready)
      /\ r.namespace = db.namespace /\ r.directories = db.directories
      /\ r.tombstones = db.tombstones /\ r.gc = db.gc /\ r.versions = db.versions
  BY <1>1, Zenon DEF Buckets, rebuildIndexes
<1>3. ASSUME NEW S \in SUBSET DOMAIN db.objects PROVE Cardinality(S) \in Nat
  <2>1. S \subseteq Ids
    BY DEF CatalogType
  <2> QED BY <2>1, CatalogAssumption, FS_Subset, FS_CardinalityType
<1>4. \A id \in DOMAIN db.objects : Rank(id) \in Nat
  <2> SUFFICES ASSUME NEW id \in DOMAIN db.objects PROVE Rank(id) \in Nat
    OBVIOUS
  <2>1. versionRank(db, id) \in Nat
    BY <1>3 DEF versionRank, InState
  <2>2. db.objects[id].QueueSeq \in Nat
    BY DEF CatalogType, Object
  <2> QED BY <2>1, <2>2
<1> HIDE DEF Rank
<1>5. \A id \in DOMAIN db.objects : Renumbered(id) \in Object /\ Renumbered(id).ID = id
  <2> SUFFICES ASSUME NEW id \in DOMAIN db.objects
               PROVE  Renumbered(id) \in Object /\ Renumbered(id).ID = id
    OBVIOUS
  <2>1. db.objects[id] \in Object /\ db.objects[id].ID = id
    BY DEF CatalogType
  <2>2. Renumbered(id) \in Object
    BY SMTT(30), <1>4, <2>1, LeaseEdits
  <2> QED BY <2>1, <2>2 DEF Object
<1> HIDE DEF Renumbered
<1>6. /\ DOMAIN r.objects = DOMAIN db.objects
      /\ \A id \in DOMAIN db.objects : r.objects[id] \in Object /\ r.objects[id].ID = id
  BY <1>2, <1>5
<1>7. \A o \in os : o \in Object
  BY <1>5 DEF InState
<1> HIDE DEF os
<1>8. DOMAIN r.queue \subseteq Tenants \X Nat \X Ids
  <2>1. \A o \in os : queueKey(o) \in Tenants \X Nat \X Ids
    BY <1>7 DEF Object, queueKey
  <2> QED BY <1>2, <2>1
<1>9. \A k \in DOMAIN r.queueSeg : k[3] \in Nat /\ k[4] \in Ids
  <2>1. \A o \in os : queueSegKey(o)[3] \in Nat /\ queueSegKey(o)[4] \in Ids
    BY <1>7 DEF Object, queueSegKey
  <2> QED BY <1>2, <2>1
<1>10. DOMAIN r.leases \subseteq Nat \X Ids /\ r.held \subseteq Nat \X Ids
  <2>1. \A id \in DOMAIN db.objects : /\ leaseKey(db.objects[id]) \in Nat \X Ids
                                      /\ heldKey(db.objects[id]) \in Nat \X Ids
    BY DEF CatalogType, Object, leaseKey, heldKey
  <2>2. /\ DOMAIN r.leases = {leaseKey(db.objects[id]) : id \in InState(db, "LEASED")}
        /\ r.held = {heldKey(db.objects[id]) : id \in InState(db, "HELD")}
    BY <1>2
  <2> QED BY <2>1, <2>2, SMTT(30) DEF InState
<1>11. r.tombTimes \subseteq Nat \X Ids
  <2>1. \A id \in DOMAIN db.tombstones : id \in Ids /\ db.tombstones[id].DeletedAt \in Nat
    BY SMTT(30) DEF CatalogType, Tombstone
  <2>2. r.tombTimes = {<<db.tombstones[id].DeletedAt, id>> : id \in DOMAIN db.tombstones}
    BY <1>2
  <2> QED BY <2>1, <2>2
<1>12. DOMAIN r.claims \subseteq Leases /\ \A l \in DOMAIN r.claims : r.claims[l] \in Claim
  <2>1. r.claims = [l \in liveClaims(db) |-> db.claims[l]] /\ liveClaims(db) \subseteq DOMAIN db.claims
    BY <1>2, Zenon DEF liveClaims
  <2> QED BY <2>1, SMTT(30) DEF CatalogType
<1>13. r.seq \in Nat
  BY <1>2, <1>3, SMTT(30) DEF InState
<1>14. /\ DOMAIN r.namespace \subseteq Tenants \X Paths
       /\ r.directories \subseteq Tenants \X Paths
  BY <1>2, SMTT(30) DEF CatalogType
<1>15. /\ DOMAIN r = Buckets /\ r.tombstones = db.tombstones /\ r.gc = db.gc
       /\ r.versions = db.versions
  BY <1>2
<1> QED BY SMTT(30), <1>6, <1>8, <1>9, <1>10, <1>11, <1>12, <1>13, <1>14, <1>15, RewriteTyped
=============================================================================
