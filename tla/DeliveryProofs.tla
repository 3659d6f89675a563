--------------------------- MODULE DeliveryProofs ---------------------------
(***************************************************************************)
(* Theorems about Delivery, for any number of objects, leases, tenants,    *)
(* paths, claimers, crashes and failed writes.                             *)
(*                                                                         *)
(* The argument for NoLeak is about who still knows of a blob.  The        *)
(* catalog answers for an id as long as it is in the objects or the gc     *)
(* bucket (Known); every transaction but two leaves that set alone:        *)
(* publish adds an id nobody has used, flushGC takes away ids whose blob   *)
(* has been unlinked.  That flushGC is given only such ids is the part of  *)
(* the invariant NoLeak itself does not say (Accounted).                   *)
(***************************************************************************)
EXTENDS Delivery, CatalogProofs

Accounted ==
    /\ NoLeak
    /\ (gcDone \cup maint.flush) \cap blobs = {}
    /\ Known(db) \cup blobs \cup gcDone \cup maint.flush \cup todo \cup maint.own \subseteq drawn

Inv == TypeOK /\ Accounted

(* A request that commits a transaction which keeps every id accounted for. *)
LEMMA CommitsInv ==
  ASSUME Inv, NEW after, Commits(after), Keeps(db, after),
         blobs' = blobs, drawn' = drawn, dropping' \subseteq Ids
  PROVE  Inv'
<1>1. /\ db' = after /\ todo' = todo \cup (DOMAIN db.objects \ DOMAIN after.objects)
      /\ now' = now /\ claimer' = claimer /\ gcDone' = gcDone
      /\ maint' = maint /\ up' = up /\ faults' = faults
  BY DEF Commits, victims
<1>2. CatalogType(db') /\ Known(db') = Known(db) /\ DOMAIN db.objects \subseteq Ids
  BY <1>1 DEF Keeps, Inv, TypeOK, CatalogType
<1>3. TypeOK'
  BY <1>1, <1>2 DEF Inv, TypeOK
<1>4. Accounted'
  <2>1. todo' \subseteq todo \cup Known(db)
    BY <1>1 DEF Known
  <2> QED BY <1>1, <1>2, <2>1 DEF Inv, Accounted, NoLeak, Known
<1> QED BY <1>3, <1>4 DEF Inv

(* The requests of uploaders. *)
LEMMA UploaderInv ==
  ASSUME Inv, Uploader
  PROVE  Inv'
<1>0. CatalogType(db) /\ now \in Nat /\ dropping \subseteq Ids
  BY DEF Inv, TypeOK
<1>1. ASSUME NEW t \in Tenants, NEW p \in Paths, NEW id \in Ids, Publish(id, t, p)
      PROVE  Inv'
  <2>1. /\ id \notin drawn /\ drawn' = drawn \cup {id} /\ blobs' = blobs \cup {id}
        /\ db' = publish(db, id, t, p, now)
        /\ todo' = todo \cup (DOMAIN db.objects \ DOMAIN db'.objects)
        /\ now' = now /\ claimer' = claimer /\ dropping' = dropping /\ gcDone' = gcDone
        /\ maint' = maint /\ up' = up /\ faults' = faults
    BY <1>1 DEF Publish, Commits, victims
  <2>2. CatalogType(db') /\ Known(db') = Known(db) \cup {id}
    BY <1>0, <2>1, PublishTyped
  <2>3. TypeOK'
    <3>1. DOMAIN db.objects \subseteq Ids
      BY <1>0 DEF CatalogType
    <3> QED BY <2>1, <2>2, <3>1 DEF Inv, TypeOK
  <2>4. Accounted'
    <3>1. todo' \subseteq todo \cup Known(db)
      BY <2>1 DEF Known
    <3>2. NoLeak'
      BY <2>1, <2>2 DEF Inv, Accounted, NoLeak, Known
    <3> QED BY <2>1, <2>2, <3>1, <3>2 DEF Inv, Accounted
  <2> QED BY <2>3, <2>4 DEF Inv
<1>2. ASSUME NEW t \in Tenants, NEW p \in Paths, Remove(t, p)
      PROVE  Inv'
  <2> DEFINE id == db.namespace[<<t, p>>]
             after == IF id \in DOMAIN db.objects THEN dropObject(db, id, "removed", now)
                      ELSE [db EXCEPT !.namespace = Delete(@, <<t, p>>)]
  <2>1. Commits(after) /\ blobs' = blobs /\ drawn' = drawn /\ dropping' \subseteq Ids
    BY <1>0, <1>2 DEF Remove
  <2>2. Keeps(db, after)
    <3>1. CASE id \in DOMAIN db.objects
      <4>1. "removed" \in Reasons
        BY DEF Reasons
      <4> QED BY <1>0, <3>1, <4>1, DropObjectTyped
    <3>2. CASE id \notin DOMAIN db.objects
      <4> DEFINE r == [db EXCEPT !.namespace = Delete(@, <<t, p>>)]
      <4>1. /\ DOMAIN db = Buckets /\ DOMAIN db.namespace \subseteq Tenants \X Paths
            /\ db.directories \subseteq Tenants \X Paths /\ db.versions \in Nat
        BY <1>0 DEF CatalogType
      <4>2. /\ DOMAIN r = Buckets
            /\ \A f \in Buckets \ {"namespace", "directories", "versions"} : r[f] = db[f]
            /\ DOMAIN r.namespace \subseteq DOMAIN db.namespace
            /\ r.directories = db.directories /\ r.versions = db.versions
        BY <4>1 DEF Buckets, Delete
      <4>3. after = r
        BY <3>2
      <4> HIDE DEF r, after
      <4>4. Keeps(db, r)
        BY SMTT(30), <1>0, <4>1, <4>2, NamesTyped
      <4> QED BY <4>3, <4>4
    <3> QED BY <3>1, <3>2
  <2> HIDE DEF after
  <2> QED BY <2>1, <2>2, CommitsInv
<1>3. ASSUME NEW t \in Tenants, NEW p \in Paths, Mkdir(t, p)
      PROVE  Inv'
  <2> DEFINE after == [db EXCEPT !.directories = @ \cup {<<t, p>>}]
  <2>1. Commits(after) /\ blobs' = blobs /\ drawn' = drawn /\ dropping' \subseteq Ids
    BY <1>0, <1>3 DEF Mkdir
  <2>2. /\ DOMAIN db = Buckets /\ DOMAIN db.namespace \subseteq Tenants \X Paths
        /\ db.directories \subseteq Tenants \X Paths /\ db.versions \in Nat
    BY <1>0 DEF CatalogType
  <2>3. /\ DOMAIN after = Buckets
        /\ \A f \in Buckets \ {"namespace", "directories", "versions"} : after[f] = db[f]
        /\ after.directories = db.directories \cup {<<t, p>>}
        /\ after.namespace = db.namespace /\ after.versions = db.versions
    BY <2>2 DEF Buckets
  <2> HIDE DEF after
  <2>4. after.directories \subseteq Tenants \X Paths
    BY <2>2, <2>3
  <2>5. Keeps(db, after)
    BY SMTT(30), <1>0, <2>2, <2>3, <2>4, NamesTyped
  <2> QED BY <2>1, <2>5, CommitsInv
<1>4. ASSUME NEW t \in Tenants, NEW p \in Paths, RemoveDir(t, p)
      PROVE  Inv'
  <2> DEFINE after == [db EXCEPT !.directories = @ \ {<<t, p>>}]
  <2>1. Commits(after) /\ blobs' = blobs /\ drawn' = drawn /\ dropping' \subseteq Ids
    BY <1>0, <1>4 DEF RemoveDir
  <2>2. /\ DOMAIN db = Buckets /\ DOMAIN db.namespace \subseteq Tenants \X Paths
        /\ db.directories \subseteq Tenants \X Paths /\ db.versions \in Nat
    BY <1>0 DEF CatalogType
  <2>3. /\ DOMAIN after = Buckets
        /\ \A f \in Buckets \ {"namespace", "directories", "versions"} : after[f] = db[f]
        /\ after.directories \subseteq db.directories
        /\ after.namespace = db.namespace /\ after.versions = db.versions
    BY <2>2 DEF Buckets
  <2> HIDE DEF after
  <2>4. after.directories \subseteq Tenants \X Paths
    BY <2>2, <2>3
  <2>5. Keeps(db, after)
    BY <1>0, <2>2, <2>3, <2>4, NamesTyped
  <2> QED BY <2>1, <2>5, CommitsInv
<1>5. ASSUME NEW t \in Tenants, NEW old \in Paths, NEW new \in Paths, RenameTree(t, old, new)
      PROVE  Inv'
  <2> DEFINE after == renameTree(db, t, old, new, now)
  <2>1. Commits(after) /\ blobs' = blobs /\ drawn' = drawn /\ dropping' \subseteq Ids
    BY <1>0, <1>5 DEF RenameTree
  <2>2. \A k \in movedFiles(db, t, old) :
           /\ db.namespace[k] \in DOMAIN db.objects
           /\ rebase(db.objects[db.namespace[k]].Path, old, new) \in Paths
    BY <1>5 DEF RenameTree
  <2>3. \A k \in movedFiles(db, t, old) \cup movedDirectories(db, t, old) :
           rebase(k[2], old, new) \in Paths
    BY <1>5 DEF RenameTree
  <2>4. Keeps(db, after)
    BY <1>0, <2>2, <2>3, RenameTreeTyped
  <2> HIDE DEF after
  <2> QED BY <2>1, <2>4, CommitsInv
<1>6. ASSUME NEW t \in Tenants, NEW p \in Paths, NEW q \in Paths, NEW overwrite \in BOOLEAN,
             Rename(t, p, q, overwrite)
      PROVE  Inv'
  <2> DEFINE after == renameFile(db, <<t, p>>, <<t, q>>, now)
  <2>1. Commits(after) /\ blobs' = blobs /\ drawn' = drawn /\ dropping' \subseteq Ids
    BY <1>0, <1>6 DEF Rename
  <2>2. db.namespace[<<t, p>>] \in DOMAIN db.objects /\ <<t, q>> \in Tenants \X Paths
    BY <1>6 DEF Rename, CanRename
  <2>3. Keeps(db, after)
    BY <1>0, <2>2, RenameFileTyped
  <2> HIDE DEF after
  <2> QED BY <2>1, <2>3, CommitsInv
<1>7. ASSUME NEW t \in Tenants, NEW p \in Paths, NEW q \in Paths, RenameFails(t, p, q)
      PROVE  Inv'
  <2>1. /\ db' = db /\ blobs' = blobs /\ now' = now /\ drawn' = drawn /\ claimer' = claimer
        /\ dropping' = dropping /\ gcDone' = gcDone /\ maint' = maint /\ up' = up
        /\ faults' = [faults EXCEPT !.abort = @ + 1]
        /\ todo' \subseteq todo \cup DOMAIN db.objects
    BY <1>7 DEF RenameFails, victims
  <2>2. DOMAIN db.objects \subseteq Ids
    BY <1>0 DEF CatalogType
  <2>3. TypeOK'
    BY <2>1, <2>2 DEF Inv, TypeOK
  <2>4. Accounted'
    BY <2>1 DEF Inv, Accounted, NoLeak, Known
  <2> QED BY <2>3, <2>4 DEF Inv
<1> QED BY <1>1, <1>2, <1>3, <1>4, <1>5, <1>6, <1>7 DEF Uploader

(* A search returns queue entries. *)
LEMMA CandidatesTyped ==
  ASSUME CatalogType(db), NEW t, NEW prefix, NEW max, NEW scan, NEW at
  PROVE  findCandidates(db, t, prefix, max, scan, at) \subseteq [seq : Nat, id : Ids]
<1> DEFINE entries ==
             IF prefix = <<>>
               THEN {[seq |-> k[2], id |-> k[3], visible |-> db.queue[k][1],
                      path |-> db.queue[k][2]] :
                       k \in {j \in DOMAIN db.queue : j[1] = t}}
               ELSE {[seq |-> k[3], id |-> k[4], visible |-> db.queueSeg[k][1],
                      path |-> db.queueSeg[k][2]] :
                       k \in {j \in DOMAIN db.queueSeg :
                                 j[1] = t /\ j[2] = firstSegment(prefix)}}
           First(n, S) == {e \in S : Cardinality({f \in S : f.seq < e.seq}) < n}
           visible == {e \in First(scan, entries) : e.visible <= at /\ pathHasPrefix(e.path, prefix)}
<1>1. findCandidates(db, t, prefix, max, scan, at)
        = {[seq |-> e.seq, id |-> e.id] : e \in First(max, visible)}
  BY Zenon DEF findCandidates
<1>2. \A e \in entries : e.seq \in Nat /\ e.id \in Ids
  <2>1. /\ DOMAIN db.queue \subseteq Tenants \X Nat \X Ids
        /\ \A k \in DOMAIN db.queueSeg : k[3] \in Nat /\ k[4] \in Ids
    BY DEF CatalogType
  <2> QED BY <2>1
<1> HIDE DEF entries
<1>3. First(max, visible) \subseteq entries
  OBVIOUS
<1> HIDE DEF First, visible
<1> QED BY <1>1, <1>2, <1>3

(* The claiming goroutines. *)
LEMMA ClaimStepInv ==
  ASSUME Inv, ClaimStep
  PROVE  Inv'
<1>0. CatalogType(db) /\ now \in Nat /\ claimer \in [Claimers -> ClaimerType]
  BY DEF Inv, TypeOK
<1>1. ASSUME NEW c \in Claimers, NEW v \in ClaimerType, claimer' = [claimer EXCEPT ![c] = v],
             UNCHANGED <<db, blobs, now, drawn, dropping, todo, gcDone, maint, up, faults>>
      PROVE  Inv'
  <2>1. claimer' \in [Claimers -> ClaimerType]
    BY <1>0, <1>1
  <2> QED BY <1>1, <2>1 DEF Inv, TypeOK, Accounted, NoLeak
<1>2. ASSUME NEW c \in Claimers, NEW t \in Tenants, NEW prefix \in Prefixes, NEW max \in Nat,
             NEW ttl \in TTLs, NEW tries \in 1..4, Search(c, t, prefix, max, ttl, tries)
      PROVE  \E v \in ClaimerType : claimer' = [claimer EXCEPT ![c] = v]
  <2> DEFINE cands == findCandidates(db, t, prefix, max, MaxScan, now)
             found == [pc |-> "found", tenant |-> t, prefix |-> prefix, max |-> max,
                       ttl |-> ttl, at |-> now, cands |-> cands, tries |-> tries]
  <2>1. cands \subseteq [seq : Nat, id : Ids]
    BY <1>0, CandidatesTyped
  <2>2. claimer' = [claimer EXCEPT ![c] = IF cands = {} THEN Idle ELSE found]
    BY <1>2 DEF Search
  <2> HIDE DEF cands
  <2>3. found \in ClaimerType /\ Idle \in ClaimerType
    BY <1>0, <2>1 DEF ClaimerType, ClaimLocals
  <2> HIDE DEF found
  <2> QED BY <2>2, <2>3
<1>3. ASSUME NEW c \in Claimers, NEW t \in Tenants, NEW prefix \in Prefixes,
             NEW max \in 1..MaxBatch, NEW ttl \in TTLs, ClaimBegin(c, t, prefix, max, ttl)
      PROVE  Inv'
  <2>1. max \in Nat /\ 1 \in 1..4
    BY DeliveryAssumption
  <2>2. \E v \in ClaimerType : claimer' = [claimer EXCEPT ![c] = v]
    BY <1>2, <1>3, <2>1 DEF ClaimBegin
  <2> QED BY <1>1, <1>3, <2>2, Zenon DEF ClaimBegin
<1>4. ASSUME NEW c \in Claimers
      PROVE  /\ claimer[c].pc = "found" => claimer[c] \in ClaimLocals("found", 4)
             /\ claimer[c].pc = "retry" => claimer[c] \in ClaimLocals("retry", 3)
  BY <1>0 DEF ClaimerType, ClaimLocals, Idle
<1>5. ASSUME NEW c \in Claimers, NEW lease, ClaimWrite(c, lease)
      PROVE  Inv'
  <2> DEFINE won == stillReady(db, claimer[c].cands)
  <2>1. /\ lease \in [won -> Leases \ drawn]
        /\ db' = claimTx(db, won, lease, claimer[c].ttl, claimer[c].at)
        /\ drawn' = drawn \cup {lease[id] : id \in won}
        /\ claimer' = [claimer EXCEPT ![c] = Idle]
        /\ claimer[c].pc = "found"
        /\ UNCHANGED <<blobs, now, dropping, todo, gcDone, maint, up, faults>>
    BY <1>5 DEF ClaimWrite
  <2>2. claimer[c].ttl \in Nat /\ claimer[c].at \in Nat
    BY <1>4, <2>1, DeliveryAssumption, SMTT(30) DEF ClaimLocals
  <2>3. won \in SUBSET DOMAIN db.objects
    BY DEF stillReady
  <2> HIDE DEF won
  <2>4. lease \in [won -> Leases]
    BY <2>1
  <2>5. Keeps(db, db')
    BY SMTT(30), <1>0, <2>1, <2>2, <2>3, <2>4, ClaimTyped
  <2>6. CatalogType(db') /\ Known(db') = Known(db)
    BY <2>5 DEF Keeps
  <2>7. claimer' \in [Claimers -> ClaimerType] /\ drawn' \subseteq drawn \cup Leases
        /\ drawn \subseteq drawn'
    BY <1>0, <2>1, <2>4, SMTT(30) DEF ClaimerType
  <2>8. TypeOK'
    BY <2>1, <2>6, <2>7, SMTT(30) DEF Inv, TypeOK
  <2>9. Accounted'
    BY <2>1, <2>6, <2>7 DEF Inv, Accounted, NoLeak, Known
  <2> QED BY <2>8, <2>9 DEF Inv
<1>6. ASSUME NEW c \in Claimers, ClaimLost(c)
      PROVE  Inv'
  <2> DEFINE v == IF claimer[c].tries = 4 THEN Idle
                  ELSE [claimer[c] EXCEPT !.pc = "retry", !.cands = {}]
  <2>1. claimer' = [claimer EXCEPT ![c] = v] /\ claimer[c].pc = "found"
        /\ UNCHANGED <<db, blobs, now, drawn, dropping, todo, gcDone, maint, up, faults>>
    BY <1>0, <1>6 DEF ClaimLost
  <2>2. v \in ClaimerType
    <3>1. claimer[c] \in ClaimLocals("found", 4)
      BY <1>4, <2>1
    <3>2. claimer[c].tries # 4 => [claimer[c] EXCEPT !.pc = "retry", !.cands = {}] \in ClaimLocals("retry", 3)
      <4> SUFFICES ASSUME NEW x \in ClaimLocals("found", 4), x.tries # 4
                   PROVE  [x EXCEPT !.pc = "retry", !.cands = {}] \in ClaimLocals("retry", 3)
        BY Zenon, <3>1
      <4>1. x.tries \in 1..3
        BY DEF ClaimLocals
      <4> QED BY <4>1, Zenon DEF ClaimLocals
    <3> QED BY <3>2 DEF ClaimerType
  <2> HIDE DEF v
  <2> QED BY Zenon, <1>1, <2>1, <2>2
<1>7. ASSUME NEW c \in Claimers, ClaimRetry(c)
      PROVE  Inv'
  <2>1. claimer[c].pc = "retry"
        /\ UNCHANGED <<db, blobs, now, drawn, dropping, todo, gcDone, maint, up, faults>>
    BY <1>7 DEF ClaimRetry
  <2>2. /\ claimer[c].tenant \in Tenants /\ claimer[c].prefix \in Prefixes
        /\ claimer[c].max \in Nat /\ claimer[c].ttl \in TTLs /\ claimer[c].tries + 1 \in 1..4
    BY <1>4, <2>1 DEF ClaimLocals
  <2>3. \E v \in ClaimerType : claimer' = [claimer EXCEPT ![c] = v]
    BY <1>2, <1>7, <2>2 DEF ClaimRetry
  <2> QED BY Zenon, <1>1, <2>1, <2>3
<1> QED BY <1>3, <1>5, <1>6, <1>7 DEF ClaimStep

(* The other requests of downloaders and the administrator. *)
LEMMA RequestInv ==
  ASSUME Inv, Downloader \/ Admin
  PROVE  Inv'
<1>0. /\ CatalogType(db) /\ now \in Nat /\ dropping \subseteq Ids /\ TTLs \cup {0} \subseteq Nat
      /\ RetryAfters \subseteq Nat
  BY DeliveryAssumption DEF Inv, TypeOK
<1>1. ASSUME NEW l \in Leases, NEW ttl \in TTLs \cup {0}, RenewLease(l, ttl)
      PROVE  Inv'
  <2> DEFINE after == Renew(db, l, ttl, now)
  <2>1. /\ Commits(after) /\ blobs' = blobs /\ drawn' = drawn /\ dropping' \subseteq Ids
        /\ l \in DOMAIN db.claims
    BY <1>0, <1>1 DEF RenewLease
  <2>2. Keeps(db, after)
    BY SMTT(30), <1>0, <2>1, RenewTyped
  <2> HIDE DEF after
  <2> QED BY SMTT(30), <2>1, <2>2, CommitsInv
<1>2. ASSUME NEW l \in Leases, NEW opts \in ReleaseOptions, ReleaseWith(l, opts)
      PROVE  Inv'
  <2>1. /\ l \in DOMAIN db.claims
        /\ UNCHANGED <<blobs, now, drawn, claimer, dropping, todo, gcDone, maint, up, faults>>
    BY <1>2 DEF ReleaseWith
  <2>2. PICK num \in Numberings(db, requeued(db, {db.claims[l].ObjectID}, opts)) :
           db' = releaseTx(db, l, opts, num, now)
    BY <1>2 DEF ReleaseWith
  <2>3. Keeps(db, db')
    BY SMTT(30), <1>0, <2>1, <2>2, ReleaseTyped
  <2> QED BY <2>1, <2>3 DEF Inv, TypeOK, Accounted, NoLeak, Known, Keeps
<1>3. ASSUME NEW id \in Ids, NEW l \in Leases, CommitObject(id, l)
      PROVE  Inv'
  <2>1. PICK ids \in SUBSET DOMAIN db.objects : ids = {id}
    BY <1>3 DEF CommitObject
  <2> DEFINE after == deleteObjectTx(db, ids, "committed", now)
  <2>2. Commits(after) /\ blobs' = blobs /\ drawn' = drawn /\ dropping' \subseteq Ids
    BY <1>0, <1>3, <2>1 DEF CommitObject
  <2>3. "committed" \in Reasons
    BY DEF Reasons
  <2>4. Keeps(db, after)
    BY <1>0, <2>3, DeleteObjectTyped
  <2> HIDE DEF after
  <2> QED BY <2>2, <2>4, CommitsInv
<1>4. ASSUME NEW id \in Ids, RequeueObject(id)
      PROVE  Inv'
  <2> DEFINE after == Requeue(db, id, now)
  <2>1. /\ Commits(after) /\ blobs' = blobs /\ drawn' = drawn /\ dropping' \subseteq Ids
        /\ id \in DOMAIN db.objects
    BY <1>0, <1>4 DEF RequeueObject, InState
  <2>2. Keeps(db, after)
    BY SMTT(30), <1>0, <2>1, RequeueTyped
  <2> HIDE DEF after
  <2> QED BY SMTT(30), <2>1, <2>2, CommitsInv
<1>5. ASSUME NEW id \in Ids, DropCheck(id)
      PROVE  Inv'
  <2>1. /\ dropping' \subseteq dropping \cup {id}
        /\ UNCHANGED <<db, blobs, now, drawn, claimer, todo, gcDone, maint, up, faults>>
    BY <1>5 DEF DropCheck
  <2> QED BY <1>0, <2>1 DEF Inv, TypeOK, Accounted, NoLeak
<1>6. ASSUME NEW id \in Ids, DropWrite(id)
      PROVE  Inv'
  <2> DEFINE after == IF id \in DOMAIN db.objects
                        THEN dropObject(db, id, "dropped-by-downloader", now) ELSE db
  <2>1. Commits(after) /\ blobs' = blobs /\ drawn' = drawn /\ dropping' \subseteq Ids
    BY <1>0, <1>6 DEF DropWrite
  <2>2. "dropped-by-downloader" \in Reasons
    BY DEF Reasons
  <2>3. Keeps(db, after)
    BY <1>0, <2>2, DropObjectTyped, SMTT(30) DEF Keeps
  <2> HIDE DEF after
  <2> QED BY <2>1, <2>3, CommitsInv
<1>7. ASSUME NEW id \in Ids, AdminDelete(id)
      PROVE  Inv'
  <2> DEFINE after == dropObject(db, id, "deleted-by-admin", now)
  <2>1. /\ Commits(after) /\ blobs' = blobs /\ drawn' = drawn /\ dropping' \subseteq Ids
        /\ id \in DOMAIN db.objects
    BY <1>0, <1>7 DEF AdminDelete
  <2>2. "deleted-by-admin" \in Reasons
    BY DEF Reasons
  <2>3. Keeps(db, after)
    BY SMTT(30), <1>0, <2>1, <2>2, DropObjectTyped
  <2> HIDE DEF after
  <2> QED BY <2>1, <2>3, CommitsInv
<1>8. ASSUME RebuildIndexes
      PROVE  Inv'
  <2>1. /\ db' = rebuildIndexes(db) /\ faults' = [faults EXCEPT !.rebuild = @ + 1]
        /\ UNCHANGED <<blobs, now, drawn, claimer, dropping, todo, gcDone, maint, up>>
    BY <1>8 DEF RebuildIndexes
  <2>2. Keeps(db, db')
    BY <1>0, <2>1, RebuildTyped
  <2>3. faults' \in [crash : Nat, fail : Nat, abort : Nat, rebuild : Nat]
    BY <2>1 DEF Inv, TypeOK
  <2> QED BY <2>1, <2>2, <2>3 DEF Inv, TypeOK, Accounted, NoLeak, Known, Keeps
<1>9. ASSUME NEW after \in RetryAfters, NEW permanent \in BOOLEAN, NEW uncounted \in BOOLEAN
      PROVE  [RetryAfter |-> after, Permanent |-> permanent, Uncounted |-> uncounted]
               \in ReleaseOptions
  BY <1>0 DEF ReleaseOptions
<1>10. CASE ClaimStep
  BY <1>10, ClaimStepInv
<1> QED BY <1>1, <1>2, <1>3, <1>4, <1>5, <1>6, <1>7, <1>8, <1>9, <1>10, Zenon DEF Downloader, Admin

(* Unlinking, crashing and the passage of time. *)
LEMMA OtherInv ==
  ASSUME Inv, Crash \/ Tick \/ \E id \in Ids : Collect(id) \/ CollectFails(id)
  PROVE  Inv'
<1>0. maint \in MaintType
  BY DEF Inv, TypeOK
<1>1. ASSUME NEW id \in Ids, Collect(id)
      PROVE  Inv'
  <2>1. /\ id \in todo \cup maint.own /\ blobs' = blobs \ {id} /\ gcDone' = gcDone \cup {id}
        /\ todo' \subseteq todo /\ maint' \in MaintType
        /\ maint'.own \subseteq maint.own /\ maint'.flush = maint.flush
        /\ UNCHANGED <<db, now, drawn, claimer, dropping, up, faults>>
    BY <1>0, <1>1 DEF Collect, MaintType
  <2>2. TypeOK'
    BY <2>1 DEF Inv, TypeOK
  <2>3. Accounted'
    BY <2>1 DEF Inv, Accounted, NoLeak, Known
  <2> QED BY <2>2, <2>3 DEF Inv
<1>2. ASSUME NEW id \in Ids, CollectFails(id)
      PROVE  Inv'
  <2>1. /\ todo' \subseteq todo /\ maint' \in MaintType
        /\ maint'.own \subseteq maint.own /\ maint'.flush = maint.flush
        /\ faults' = [faults EXCEPT !.fail = @ + 1]
        /\ UNCHANGED <<db, blobs, now, drawn, claimer, dropping, gcDone, up>>
    BY <1>0, <1>2 DEF CollectFails, MaintType
  <2>2. TypeOK'
    BY <2>1 DEF Inv, TypeOK
  <2>3. Accounted'
    BY <2>1 DEF Inv, Accounted, NoLeak, Known
  <2> QED BY <2>2, <2>3 DEF Inv
<1>3. CASE Crash
  <2>1. /\ todo' = {} /\ gcDone' = {} /\ dropping' = {} /\ up' \in BOOLEAN
        /\ claimer' = [c \in Claimers |-> Idle]
        /\ maint' \in MaintType /\ maint'.own = {} /\ maint'.flush = {}
        /\ faults' = [faults EXCEPT !.crash = @ + 1]
        /\ UNCHANGED <<db, blobs, now, drawn>>
    BY <1>3, Zenon DEF Crash, MaintIdle, MaintType
  <2>2. claimer' \in [Claimers -> ClaimerType]
    BY <2>1 DEF ClaimerType
  <2>3. TypeOK'
    BY <2>1, <2>2 DEF Inv, TypeOK
  <2>4. Accounted'
    BY <2>1, SMTT(30) DEF Inv, Accounted, NoLeak, Known
  <2> QED BY <2>3, <2>4 DEF Inv
<1>4. CASE Tick
  BY <1>4 DEF Tick, Inv, TypeOK, Accounted, NoLeak
<1> QED BY <1>1, <1>2, <1>3, <1>4

(* The maintenance goroutine. *)
LEMMA MaintenanceInv ==
  ASSUME Inv, Maintenance
  PROVE  Inv'
<1>0. /\ CatalogType(db) /\ now \in Nat /\ maint \in MaintType /\ DOMAIN db.objects \subseteq Ids
      /\ db.gc \subseteq Ids
  BY DEF Inv, TypeOK, CatalogType
(* A step that keeps every id accounted for and changes only the locals. *)
<1>1. ASSUME Keeps(db, db') \/ db' = db, maint' \in MaintType, maint'.flush = maint.flush,
             maint'.own \subseteq maint.own \cup Known(db),
             UNCHANGED <<blobs, now, drawn, claimer, dropping, todo, gcDone, up>>,
             faults' \in [crash : Nat, fail : Nat, abort : Nat, rebuild : Nat]
      PROVE  Inv'
  <2>1. CatalogType(db') /\ Known(db') = Known(db)
    BY <1>0, <1>1, SMTT(30) DEF Keeps
  <2>2. TypeOK'
    BY <1>1, <2>1, SMTT(30) DEF Inv, TypeOK
  <2>3. Accounted'
    BY <1>1, <2>1 DEF Inv, Accounted, NoLeak, Known
  <2> QED BY <2>2, <2>3 DEF Inv
<1>2. faults \in [crash : Nat, fail : Nat, abort : Nat, rebuild : Nat]
      /\ [faults EXCEPT !.fail = @ + 1] \in [crash : Nat, fail : Nat, abort : Nat, rebuild : Nat]
  BY DEF Inv, TypeOK
<1>3. ASSUME ExpireSearch
      PROVE  maint' \in MaintType /\ maint'.flush = maint.flush /\ maint'.own = maint.own
  <2>1. dueLeases(db, now) \subseteq Ids
    BY <1>0 DEF dueLeases, CatalogType
  <2> QED BY <1>0, <1>3, <2>1, Zenon DEF ExpireSearch, MaintType
<1>4. CASE MaintFast
  BY <1>1, <1>2, <1>3, <1>4 DEF MaintFast
<1>5. CASE MaintSlow
  <2>1. maint' \in MaintType /\ maint'.flush = maint.flush /\ maint'.own = maint.own
    BY <1>0, <1>5, Zenon DEF MaintSlow, MaintType
  <2> QED BY <1>1, <1>2, <1>5, <2>1 DEF MaintSlow
<1>6. CASE MaintPass
  BY <1>1, <1>2, <1>3, <1>6 DEF MaintPass
<1>7. CASE ExpireWrite
  <2> DEFINE ids == lapsed(db, maint.due, maint.at)
  <2>1. ids \in SUBSET DOMAIN db.objects /\ retracted(db, ids) \subseteq DOMAIN db.objects
    BY DEF lapsed, retracted
  <2>2. PICK num \in Numberings(db, requeued(db, ids, LeaseExpired)) :
           db' = endLeases(db, ids, LeaseExpired, num, now)
    BY <1>7 DEF ExpireWrite
  <2>3. LeaseExpired \in ReleaseOptions
    BY DEF LeaseExpired, ReleaseOptions
  <2>4. maint' = [maint EXCEPT !.pc = IF maint.slow THEN "list" ELSE "flush",
                               !.due = {}, !.at = 0, !.own = retracted(db, ids)]
        /\ UNCHANGED <<blobs, now, drawn, claimer, dropping, todo, gcDone, up, faults>>
    BY <1>7, SMTT(30) DEF ExpireWrite
  <2> HIDE DEF ids
  <2>5. Keeps(db, db')
    BY SMTT(30), <1>0, <2>1, <2>2, <2>3, EndLeasesTyped
  <2>6. /\ maint' \in MaintType /\ maint'.flush = maint.flush
        /\ maint'.own = retracted(db, ids)
    BY <1>0, <2>1, <2>4, Zenon DEF MaintType
  <2> QED BY <1>1, <1>2, <2>1, <2>4, <2>5, <2>6, SMTT(30) DEF Known
<1>8. CASE ExpireFails
  <2> DEFINE own == retracted(db, lapsed(db, maint.due, maint.at))
  <2>1. own \subseteq DOMAIN db.objects
    BY DEF lapsed, retracted
  <2>2. /\ maint' = IF maint.slow THEN [MaintIdle EXCEPT !.own = own]
                    ELSE [maint EXCEPT !.pc = "flush", !.due = {}, !.at = 0, !.own = own]
        /\ faults' = [faults EXCEPT !.abort = @ + 1]
        /\ UNCHANGED <<db, blobs, now, drawn, claimer, dropping, todo, gcDone, up>>
    BY <1>8 DEF ExpireFails
  <2> HIDE DEF own
  <2>3. /\ maint' \in MaintType /\ maint'.own = own
        /\ maint'.flush = maint.flush \/ maint'.flush = {}
    BY <1>0, <2>1, <2>2, Zenon DEF MaintType, MaintIdle
  <2>4. TypeOK'
    BY <1>2, <2>2, <2>3 DEF Inv, TypeOK
  <2>5. Accounted'
    BY <2>1, <2>2, <2>3 DEF Inv, Accounted, NoLeak, Known
  <2> QED BY <2>4, <2>5 DEF Inv
<1>9. CASE MaintList
  <2>1. /\ {k[2] : k \in {j \in db.held : j[1] + PartialTTL < maint.pass}} \subseteq Ids
        /\ {k[2] : k \in {j \in db.tombTimes : j[1] + TombstoneTTL < maint.pass}} \subseteq Ids
    BY <1>0 DEF CatalogType
  <2>2. maint' \in MaintType /\ maint'.flush = maint.flush /\ maint'.own = maint.own
    BY <1>0, <1>9, <2>1, Zenon DEF MaintList, MaintType
  <2> QED BY <1>1, <1>2, <1>9, <2>2, SMTT(30) DEF MaintList
<1>10. ASSUME NEW id \in Ids, HeldExpire(id)
       PROVE  Inv'
  <2>1. abandoned(id) => id \in DOMAIN db.objects
    BY DEF abandoned, InState
  <2>2. Keeps(db, db') \/ db' = db
    <3>1. CASE abandoned(id)
      <4>1. PICK ids \in SUBSET DOMAIN db.objects : ids = {id}
        BY Zenon, <2>1, <3>1
      <4>2. db' = deleteObjectTx(db, ids, "held-expired", now) /\ "held-expired" \in Reasons
        BY <1>10, <3>1, <4>1 DEF HeldExpire, Reasons
      <4> QED BY <1>0, <4>2, DeleteObjectTyped
    <3>2. CASE ~abandoned(id)
      BY <1>10, <3>2 DEF HeldExpire
    <3> QED BY <3>1, <3>2
  <2>3. /\ maint' = [maint EXCEPT !.held = @ \ {id}, !.own = IF abandoned(id) THEN {id} ELSE {}]
        /\ UNCHANGED <<blobs, now, drawn, claimer, dropping, todo, gcDone, up, faults>>
    BY <1>10 DEF HeldExpire
  <2>4. /\ maint' \in MaintType /\ maint'.flush = maint.flush
        /\ maint'.own = IF abandoned(id) THEN {id} ELSE {}
    BY <1>0, <2>3, Zenon DEF MaintType
  <2>5. maint'.own \subseteq Known(db)
    BY <2>1, <2>4 DEF Known
  <2> QED BY SMTT(30), <1>1, <1>2, <2>2, <2>3, <2>4, <2>5
<1>11. CASE TombExpire
  <2>1. Keeps(db, db') \/ db' = db
    BY <1>0, <1>11, DropTombstonesTyped DEF TombExpire
  <2>2. maint' \in MaintType /\ maint'.flush = maint.flush /\ maint'.own = maint.own
    BY <1>0, <1>11, Zenon DEF TombExpire, MaintType
  <2> QED BY <1>1, <1>2, <1>11, <2>1, <2>2, SMTT(30) DEF TombExpire
<1>12. CASE SweepGC
  <2>1. maint' \in MaintType /\ maint'.flush = maint.flush /\ maint'.own = db.gc
    BY <1>0, <1>12, Zenon DEF SweepGC, MaintType
  <2> QED BY <1>1, <1>2, <1>12, <2>1 DEF SweepGC, Known
<1>13. CASE FlushTake
  <2>1. /\ gcDone' = {} /\ up' \in BOOLEAN
        /\ maint' \in MaintType /\ maint'.flush \subseteq gcDone /\ maint'.own \subseteq maint.own
        /\ UNCHANGED <<db, blobs, now, drawn, claimer, dropping, todo, faults>>
    <3>1. /\ gcDone' = {} /\ maint.own = {}
          /\ UNCHANGED <<db, blobs, now, drawn, claimer, dropping, todo, faults>>
      BY <1>13 DEF FlushTake, MaintStep
    <3>2. CASE gcDone = {}
      <4>1. maint' = MaintIdle /\ up' = TRUE
        BY <1>13, <3>2 DEF FlushTake
      <4> QED BY <3>1, <4>1 DEF MaintType, MaintIdle
    <3>3. CASE gcDone # {}
      <4>1. maint' = [maint EXCEPT !.pc = "flushing", !.flush = gcDone] /\ up' = up
        BY <1>13, <3>3 DEF FlushTake
      <4>2. gcDone \subseteq Ids /\ up \in BOOLEAN
        BY DEF Inv, TypeOK
      <4> QED BY <1>0, <3>1, <4>1, <4>2, Zenon DEF MaintType
    <3> QED BY <3>2, <3>3
  <2>2. TypeOK'
    BY <2>1 DEF Inv, TypeOK
  <2>3. Accounted'
    BY <2>1, SMTT(30) DEF Inv, Accounted, NoLeak, Known
  <2> QED BY <2>2, <2>3 DEF Inv
<1>14. CASE FlushWrite
  <2>1. /\ db' = flushGC(db, maint.flush) /\ up' = TRUE
        /\ maint' \in MaintType /\ maint'.flush = {} /\ maint'.own = {}
        /\ UNCHANGED <<blobs, now, drawn, claimer, dropping, todo, gcDone, faults>>
    BY <1>14, SMTT(30) DEF FlushWrite, MaintType, MaintIdle
  <2>2. /\ CatalogType(db') /\ DOMAIN db'.objects = DOMAIN db.objects
        /\ db'.gc = db.gc \ maint.flush
    BY SMTT(30), <1>0, <2>1, FlushTyped
  <2>3. TypeOK'
    BY <2>1, <2>2, SMTT(30) DEF Inv, TypeOK
  <2>4. Accounted'
    BY <2>1, <2>2 DEF Inv, Accounted, NoLeak, Known
  <2> QED BY <2>3, <2>4 DEF Inv
<1>15. CASE FlushFails
  <2>1. /\ gcDone' = gcDone \cup maint.flush /\ up' = TRUE
        /\ maint' \in MaintType /\ maint'.flush = {} /\ maint'.own = {}
        /\ faults' = [faults EXCEPT !.fail = @ + 1]
        /\ UNCHANGED <<db, blobs, now, drawn, claimer, dropping, todo>>
    BY <1>15 DEF FlushFails, MaintType, MaintIdle
  <2>2. TypeOK'
    BY <1>0, <1>2, <2>1 DEF Inv, TypeOK, MaintType
  <2>3. Accounted'
    BY <2>1 DEF Inv, Accounted, NoLeak, Known
  <2> QED BY <2>2, <2>3 DEF Inv
<1> QED BY SMTT(30), <1>4, <1>5, <1>6, <1>7, <1>8, <1>9, <1>10, <1>11, <1>12, <1>13, <1>14, <1>15
        DEF Maintenance

(* The initial catalog is empty. *)
LEMMA InitInv == Init => Inv
<1> SUFFICES ASSUME Init PROVE Inv
  BY SMTT(30)
<1>1. CatalogType(db) /\ Known(db) = {}
  BY SMTT(30) DEF Init, NewCatalog, CatalogType, Buckets, EmptyBucket, Known
<1>2. claimer \in [Claimers -> ClaimerType] /\ maint \in MaintType
      /\ maint.flush = {} /\ maint.own = {}
  BY SMTT(30) DEF Init, ClaimerType, MaintType, MaintIdle
<1>3. TypeOK
  BY <1>1, <1>2, SMTT(30) DEF Init, TypeOK, NoFaults
<1>4. Accounted
  BY <1>1, <1>2 DEF Init, Accounted, NoLeak
<1> QED BY <1>3, <1>4 DEF Inv

(* Every step of the store preserves the invariant. *)
LEMMA NextInv == Inv /\ [Next]_vars => Inv'
<1> SUFFICES ASSUME Inv, [Next]_vars PROVE Inv'
  BY SMTT(30)
<1>1. CASE UNCHANGED vars
  BY <1>1 DEF vars, Inv, TypeOK, Accounted, NoLeak
<1>2. CASE Next
  BY <1>2, UploaderInv, RequestInv, MaintenanceInv, OtherInv DEF Next
<1> QED BY <1>1, <1>2

(* Every variable has its type, whatever the uploaders, downloaders, the
   administrator and the maintenance goroutine do, with crashes and failed
   writes in between. *)
THEOREM TypeCorrect == Spec => []TypeOK
<1>1. Inv => TypeOK
  BY DEF Inv
<1> QED BY <1>1, InitInv, NextInv, PTL DEF Spec

(* No blob is leaked: every file in objects/ belongs to an object of the catalog
   or to an entry of its gc bucket, however many crashes, failed transactions and
   failed unlinks there were. *)
THEOREM NothingLeaks == Spec => []NoLeak
<1>1. Inv => NoLeak
  BY DEF Inv, Accounted
<1> QED BY <1>1, InitInv, NextInv, PTL DEF Spec
=============================================================================
