------------------------------ MODULE MCUpload ------------------------------
(* Upload for TLC: one uploader's bytes, and the life of several uploads. *)
EXTENDS Upload, TLC

CONSTANTS u1, u2, u3, s1, s2, rec, a, b, hole, zero, none

Idle == \A s \in Sessions : handle[s].pc = "none"

(* The bytes: no crash, one session at a time, a path that stays a file, and a
   clock that matters only between two uploads. *)
ContentNext ==
    \/ Open \/ Transfer
    \/ \E s \in Sessions : Settle(s)
    \/ \E id \in Ids : Drop(id)
    \/ Idle /\ Tick

ContentSpec == Init /\ [][ContentNext]_vars

Symmetry == Permutations(Ids) \cup Permutations(Data) \cup Permutations(Sessions)

(* The life of uploads: sessions send one byte at a time, never truncate, and
   meet a transfer error only when they close, a crash comes while something is under way, an object is delivered while a
   session wants to continue it, and a directory made at the path stays. *)
LifeTransfer ==
    \E s \in Sessions :
       \/ \E v \in Data, off \in 0..(MaxLen - 1) : WriteAt(s, <<v>>, off, TRUE)
       \/ \E confirmed \in BOOLEAN : Close(s, confirmed)

Busy == maint.reclaimed # {} \/ \E s \in DOMAIN handle : handle[s].pc # "none"

Wanted(id) ==
    \E s \in Sessions : \E i \in DOMAIN handle[s].cands : handle[s].cands[i].id = id

LifeNext ==
    \/ \E s \in Sessions : OpenAppend(s) \/ \E c \in DOMAIN ftpMode : GetHandle(s, c)
    \/ LifeTransfer
    \/ Busy /\ Crash
    \/ \E s \in Sessions \cup {Recovery} : Settle(s) \/ FinalizeFails(s) \/ MarkFails(s)
    \/ Recovering \/ Maintenance \/ Tick
    \/ ~disk.isDir /\ Mkdir
    \/ \E id \in Ids : Unlink(id) \/ (Wanted(id) /\ Drop(id))

LifeSpec == Init /\ [][LifeNext]_vars

(* Progress: a call under way finishes, a restarted process recovers, and the
   maintenance loops keep turning.  Clients are obliged to nothing. *)
ProgressSpec ==
    /\ LifeSpec
    /\ \A s \in Sessions \cup {Recovery} : WF_vars(Settle(s))
    /\ WF_vars(Recovering)
    /\ WF_vars(maintenancePass)
    /\ \A id \in Ids : /\ WF_vars(ReclaimUpload(id))
                       /\ WF_vars(RemoveReclaimed(id))
                       /\ WF_vars(Reconcile(id))

(* One uploader whose writes arrive out of order, a crash, and a client that
   resumes at the size it is shown. *)
HoleNext ==
    \/ \E s \in Sessions : GetHandle(s, "REST") \/ Close(s, TRUE) \/ Settle(s)
    \/ \E s \in Sessions, v \in Data, off \in 0..(MaxLen - 1) : WriteAt(s, <<v>>, off, TRUE)
    \/ Crash \/ Recovering \/ Tick

HoleSpec == Init /\ [][HoleNext]_vars
=============================================================================
