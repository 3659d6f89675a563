----------------------------- MODULE MCDelivery -----------------------------
(***************************************************************************)
(* Small instances of Delivery for TLC.  Each scene lets some of the       *)
(* actors of Delivery act, so that the others do not blow up the state     *)
(* space of a question they have no part in; every action of Delivery is   *)
(* in one of them.  The scene is chosen once: a behaviour of a scene is a  *)
(* behaviour of Delivery's Spec.                                           *)
(***************************************************************************)
EXTENDS RelayRefinement, TLC

CONSTANTS o1, o2, l1, l2, l3, c1, c2, t1, t2, a, d, dx, tmp

VARIABLE scene

MCSymmetry == Permutations({o1, o2}) \cup Permutations({l1, l2, l3}) \cup Permutations({c1, c2})

OnePath == {<<a>>}
HoldPaths == {<<a>>, <<tmp>>}
TmpPaths == {<<tmp>>}
TreePaths == {<<a>>, <<d>>, <<dx>>, <<d, a>>, <<d, d>>, <<a, a>>, <<a, d>>}
AllPaths == TreePaths \cup TmpPaths
NoShadow == {}
DirShadow == {<<d, dx>>}
Everything == {<<>>}
UnderDir == {<<>>, <<d>>, <<d, a>>}

Publishes(ts, ps) == \E id \in Ids, t \in ts, p \in ps : Publish(id, t, p)
Removes(ts, ps) == \E t \in ts, p \in ps : Remove(t, p)
Renames(ts, ps) ==
    \E t \in ts, p, q \in ps : Rename(t, p, q, TRUE) \/ Rename(t, p, q, FALSE)

(* ClaimStep with at most max objects a claim and at most leases in all. *)
Claims(ts, prefixes, max, leases) ==
    \E c \in Claimers :
       \/ \E t \in ts, prefix \in prefixes, n \in 1..max, ttl \in TTLs :
             ClaimBegin(c, t, prefix, n, ttl)
       \/ /\ claimer[c].pc = "found"
          /\ \E lease \in [stillReady(db, claimer[c].cands) -> Leases \ drawn] :
                ClaimWrite(c, lease)
          /\ Cardinality(drawn' \cap Leases) <= leases
       \/ ClaimLost(c)
       \/ ClaimRetry(c)

Releases == \E l \in Leases, after \in RetryAfters, permanent, uncounted \in BOOLEAN :
               ReleaseWith(l, [RetryAfter |-> after, Permanent |-> permanent,
                               Uncounted |-> uncounted])
DelayedReleases == \E l \in Leases, after \in RetryAfters :
               ReleaseWith(l, [LeaseExpired EXCEPT !.RetryAfter = after])
CommitsObject == \E id \in Ids, l \in Leases : CommitObject(id, l)
SlowPass == MaintSlow \/ MaintPass \/ MaintList \/ TombExpire \/ SweepGC \/ FlushTake \/ FlushWrite
Collects == \E id \in Ids : Collect(id)

(* Claims, leases and the lease sweep: two claimers race each other, the
   uploader's withdrawal, the sweep and a rebuild of the indexes. *)
LeaseActions ==
    \/ Publishes(Tenants, Paths) \/ Removes(Tenants, Paths)
    \/ ClaimStep \/ DelayedReleases \/ CommitsObject
    \/ \E l \in Leases : RenewLease(l, 0)
    \/ MaintFast \/ ExpireWrite \/ FlushTake \/ FlushWrite
    \/ \E id \in maint.own : Collect(id)
    \/ RebuildIndexes \/ Tick

(* Names: uploaders of two tenants remove, overwrite and rename while a
   downloader claims, gives back and requeues, and both it and the administrator
   delete. *)
NameActions ==
    \/ Publishes({t1, t2}, HoldPaths) \/ Removes({t1, t2}, HoldPaths)
    \/ Renames({t1, t2}, HoldPaths)
    \/ Claims({t1, t2}, Everything, 2, 3) \/ Releases
    \/ \E id \in Ids : RequeueObject(id) \/ DropCheck(id) \/ DropWrite(id) \/ AdminDelete(id)

(* Trees: directories come, move and go around files being delivered. *)
TreeActions ==
    \/ Publishes({t1}, TreePaths) \/ Removes({t1}, TreePaths) \/ Renames({t1}, TreePaths)
    \/ Claims({t1}, UnderDir, 1, 1)
    \/ \E p \in TreePaths : Mkdir(t1, p) \/ RemoveDir(t1, p)
    \/ \E p, q \in TreePaths : RenameTree(t1, p, q)

(* Garbage: deletions of every kind, both maintenance passes, crashes. *)
GarbageActions ==
    \/ Publishes(Tenants, Paths) \/ Removes(Tenants, Paths) \/ ClaimStep \/ CommitsObject
    \/ \E l \in Leases : ReleaseWith(l, LeaseExpired)
    \/ MaintFast \/ ExpireWrite \/ SlowPass \/ Collects \/ Crash
    \/ now < 1 /\ Tick

(* ... with transactions that do not commit and files that are not removed. *)
FailureActions ==
    \/ GarbageActions \/ ExpireFails \/ FlushFails
    \/ \E t \in Tenants, p, q \in Paths : RenameFails(t, p, q)
    \/ \E id \in Ids : CollectFails(id)

(* Expiry: held files and tombstones grow old while files are renamed. *)
ExpiryActions ==
    \/ Publishes(Tenants, Paths) \/ Removes(Tenants, Paths) \/ Renames(Tenants, Paths)
    \/ SlowPass \/ Collects \/ Tick
    \/ \E id \in Ids : HeldExpire(id)

SceneActions ==
    \/ scene = "leases" /\ LeaseActions
    \/ scene = "names" /\ NameActions
    \/ scene = "trees" /\ TreeActions
    \/ scene = "failures" /\ FailureActions
    \/ scene = "expiry" /\ ExpiryActions

allVars == <<vars, scene>>

SceneNext == SceneActions /\ UNCHANGED scene

InitOf(scenes) == Init /\ scene \in scenes

LeaseSpec == InitOf({"leases"}) /\ [][SceneNext]_allVars
NamespaceSpec == InitOf({"names", "trees"}) /\ [][SceneNext]_allVars
GarbageSpec == InitOf({"failures", "expiry"}) /\ [][SceneNext]_allVars
FailureSpec == InitOf({"failures"}) /\ [][SceneNext]_allVars

(* Progress: the goroutines that serve requests and the maintenance goroutine
   keep running, the clock advances, and the select of MaintainWith does not
   ignore the slow ticker for ever.  Nobody is obliged to send a request. *)
LiveActions == GarbageActions \/ \E l \in Leases : RenewLease(l, 0)
LiveSpec ==
    /\ InitOf({"live"}) /\ [][LiveActions /\ UNCHANGED scene]_allVars
    /\ WF_vars(Tick)
    /\ WF_vars(MaintFast \/ MaintPass \/ ExpireWrite \/ MaintList \/ TombExpire \/ SweepGC
                 \/ FlushTake \/ FlushWrite)
    /\ SF_vars(MaintSlow)
    /\ WF_vars(Collects)
=============================================================================
