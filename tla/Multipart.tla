----------------------------- MODULE Multipart ------------------------------
(***************************************************************************)
(* S3 multipart uploads: the directories under staging/s3-multipart, the   *)
(* requests that work on them and the goroutine that removes idle ones.    *)
(*                                                                         *)
(* Every request holds the lock of its upload: parts share it, completion, *)
(* abort and cleanup take it alone.  The lock objects live in a map and    *)
(* are dropped when nobody refers to them.  A step is one operation on the *)
(* lock map, one on a lock, or one change of the directory or the store.   *)
(*                                                                         *)
(* An ETag is the MD5 of a content, so equal exactly when the contents     *)
(* are: the model uses the content itself.  Temporary files that carry a   *)
(* random name are private to their request and left out.  os.WriteFile is *)
(* one step: a half-written n.json.tmp is read by nobody who holds the     *)
(* lock alone.  A crash is a crash of the process, not of the machine.     *)
(***************************************************************************)
EXTENDS Naturals, FiniteSets, Sequences, Bucket

CONSTANTS Uploads,       \* what randomID may return for an upload
          Numbers,       \* part numbers
          Contents,      \* contents of a part
          Lists,         \* what a client may name in CompleteMultipartUpload
          Requests,      \* goroutines serving requests
          Cleaner,       \* the goroutine of MaintainMultipart
          Locks,         \* multipartLock objects
          None,
          MaxAssemblies, \* the capacity of Backend.assembly
          TTL,           \* how long an upload may be idle
          MaxTime,       \* bound on the clock
          MaxCrashes, MaxFailures

ASSUME MultipartAssumption ==
    /\ Cleaner \notin Requests
    /\ None \notin Uploads \cup Contents \cup Locks
    /\ Lists \subseteq Seq([n : Numbers, etag : Contents])
    /\ Cardinality(Locks) > Cardinality(Requests)
    /\ {MaxAssemblies, TTL} \subseteq Nat \ {0}
    /\ {MaxTime, MaxCrashes, MaxFailures} \subseteq Nat

VARIABLES dirs,     \* the upload directories (durable)
          objects,  \* what completions have published, in order (durable)
          drawn,    \* the upload ids given out
          locks,    \* Backend.locks
          refs,     \* refs of every lock object
          req,      \* the locals of every goroutine
          answers,  \* the ETags completions have answered, per upload (history)
          mixed,    \* parts whose .part and .json may be of two contents (history)
          doubled,  \* uploads published without a completion record (history)
          cut,      \* uploads whose removal a crash cut off (history)
          now, faults

vars == <<dirs, objects, drawn, locks, refs, req, answers, mixed, doubled, cut, now, faults>>

files == <<dirs, objects, drawn>>
history == <<answers, mixed, doubled, cut>>
lockMap == <<locks, refs>>

Actors == Requests \cup {Cleaner}

NewDir == [meta |-> FALSE, part |-> EmptyBucket, json |-> EmptyBucket, tmp |-> EmptyBucket,
           complete |-> None, at |-> 0, used |-> 0]

NoRequest == [pc |-> "idle", op |-> None, u |-> None, lock |-> None, n |-> 0, c |-> None,
              list |-> <<>>, buf |-> <<>>, ids |-> {}, at |-> 0]

Init ==
    /\ dirs = EmptyBucket
    /\ objects = <<>>
    /\ drawn = {}
    /\ locks = EmptyBucket
    /\ refs = [l \in Locks |-> 0]
    /\ req = [r \in Actors |-> NoRequest]
    /\ answers = [u \in Uploads |-> {}]
    /\ mixed = {}
    /\ doubled = {}
    /\ cut = {}
    /\ now = 0
    /\ faults = [crash |-> 0, fail |-> 0]

-----------------------------------------------------------------------------
(* Locks. *)

Alone == {"complete", "abort", "clean"}

Holds(r) == req[r].pc \notin {"idle", "create", "scan", "lock", "release"}

lockFor(u) == IF u \in DOMAIN locks THEN locks[u] ELSE CHOOSE l \in Locks : refs[l] = 0

(* retain, by actor r whose locals become to. *)
retain(r, u, to) ==
    LET l == lockFor(u)
    IN  /\ locks' = Put(locks, u, l)
        /\ refs' = [refs EXCEPT ![l] = @ + 1]
        /\ req' = [req EXCEPT ![r] = [to EXCEPT !.pc = "lock", !.u = u, !.lock = l]]

(* lifecycle.RLock for a part, lifecycle.Lock for the others.  sync.RWMutex: a
   Lock that waits keeps new readers out, and Unlock lets in every reader that
   waits. *)
Lock(r) ==
    /\ req[r].pc = "lock"
    /\ \A q \in Actors \ {r} :
          req[q].lock = req[r].lock =>
             /\ Holds(q) => Alone \cap {req[q].op, req[r].op} = {}
             /\ req[r].op = "part" /\ req[q].pc = "lock" => req[q].op \notin Alone
    /\ req' = [req EXCEPT ![r].pc = "in"]
    /\ UNCHANGED <<files, lockMap, history, now, faults>>

Unlock(r) ==
    LET admitted(q) == /\ req[r].op \in Alone /\ req[q].op = "part"
                       /\ req[q].pc = "lock" /\ req[q].lock = req[r].lock
    IN  /\ req[r].pc = "unlock"
        /\ req' = [q \in Actors |-> CASE q = r -> [req[q] EXCEPT !.pc = "release"]
                                      [] q # r /\ admitted(q) -> [req[q] EXCEPT !.pc = "in"]
                                      [] OTHER -> req[q]]
        /\ UNCHANGED <<files, lockMap, history, now, faults>>

(* Mutant: the lock object leaves the map although others wait for it. *)
release_always(r) ==
    /\ req[r].pc = "release"
    /\ refs' = [refs EXCEPT ![req[r].lock] = @ - 1]
    /\ locks' = Delete(locks, req[r].u)
    /\ req' = [req EXCEPT ![r] = IF r = Cleaner
                                  THEN [NoRequest EXCEPT !.pc = "scan", !.op = "clean",
                                          !.ids = req[r].ids, !.at = req[r].at]
                                  ELSE NoRequest]
    /\ UNCHANGED <<files, history, now, faults>>

(* release, which ends a request; the sweep goes on with the next directory. *)
release(r) ==
    LET l == req[r].lock
        u == req[r].u
    IN  /\ req[r].pc = "release"
        /\ refs' = [refs EXCEPT ![l] = @ - 1]
        /\ locks' = IF refs[l] = 1 /\ u \in DOMAIN locks /\ locks[u] = l
                      THEN Delete(locks, u) ELSE locks
        /\ req' = [req EXCEPT ![r] = IF r = Cleaner
                                      THEN [NoRequest EXCEPT !.pc = "scan", !.op = "clean",
                                              !.ids = req[r].ids, !.at = req[r].at]
                                      ELSE NoRequest]
        /\ UNCHANGED <<files, history, now, faults>>

-----------------------------------------------------------------------------
(* Directories.  Every change of a directory or of a file in it shows in what
   lastActivity reports, `at`; `used` (history) is the last of those made by the
   clients of the upload: its creation, and what its parts and completions do. *)

(* Backend.upload finds the upload. *)
found(u) == u \in DOMAIN dirs /\ dirs[u].meta

Touched(d) == [d EXCEPT !.at = now, !.used = now]

Goes(r, pc) == req' = [req EXCEPT ![r].pc = pc]

(* The request returns an error, or nil, without touching a file. *)
Leaves(r) == Goes(r, "unlock") /\ UNCHANGED <<files, lockMap, history, now, faults>>

(* An operation on the file system or the store fails. *)
Fails(r) == faults.fail < MaxFailures /\ faults' = [faults EXCEPT !.fail = @ + 1]

(* CreateMultipartUpload makes the directory, then its meta.json, without the
   lock; no client knows the id before it returns. *)
CreateDir(r, u) ==
    /\ req[r].pc = "idle"
    /\ u \notin drawn
    /\ drawn' = drawn \cup {u}
    /\ dirs' = Put(dirs, u, Touched(NewDir))
    /\ req' = [req EXCEPT ![r] = [NoRequest EXCEPT !.pc = "create", !.u = u]]
    /\ UNCHANGED <<objects, lockMap, history, now, faults>>

CreateMeta(r) ==
    /\ req[r].pc = "create"
    /\ dirs' = IF req[r].u \in DOMAIN dirs
                 THEN [dirs EXCEPT ![req[r].u] = [@ EXCEPT !.meta = TRUE, !.at = now]] ELSE dirs
    /\ req' = [req EXCEPT ![r] = NoRequest]
    /\ UNCHANGED <<objects, drawn, lockMap, history, now, faults>>

-----------------------------------------------------------------------------
(* UploadPart. *)

StartPart(r, u, n, c) ==
    /\ req[r].pc = "idle"
    /\ u \in drawn
    /\ retain(r, u, [NoRequest EXCEPT !.op = "part", !.n = n, !.c = c])
    /\ UNCHANGED <<files, history, now, faults>>

(* The upload is there and not completed: the temporary file is created. *)
PartOpen(r) ==
    LET u == req[r].u
    IN  /\ req[r].pc = "in" /\ req[r].op = "part"
        /\ found(u) /\ dirs[u].complete = None
        /\ dirs' = [dirs EXCEPT ![u] = Touched(@)]
        /\ Goes(r, "copy")
        /\ UNCHANGED <<objects, drawn, lockMap, history, now, faults>>

(* No such upload, or no slot became free in time. *)
PartRefused(r) ==
    /\ req[r].pc = "in" /\ req[r].op = "part"
    /\ Leaves(r)

(* The client goes away, or the copy fails: the temporary file is removed. *)
PartDropped(r) ==
    /\ req[r].pc = "copy"
    /\ dirs' = [dirs EXCEPT ![req[r].u] = Touched(@)]
    /\ Goes(r, "unlock")
    /\ UNCHANGED <<objects, drawn, lockMap, history, now, faults>>

(* Requests that have replaced the part file and not yet its record. *)
Recording(u, n) == {q \in Requests : /\ req[q].pc \in {"json", "rename"}
                                     /\ req[q].u = u /\ req[q].n = n}

(* The copy is complete and synced: it becomes n.part. *)
PartRename(r) ==
    LET u == req[r].u
        n == req[r].n
    IN  /\ req[r].pc = "copy"
        /\ dirs' = [dirs EXCEPT ![u] = Touched([@ EXCEPT !.part = Put(@, n, req[r].c)])]
        /\ mixed' = IF Recording(u, n) # {} THEN mixed \cup {<<u, n>>} ELSE mixed \ {<<u, n>>}
        /\ Goes(r, "json")
        /\ UNCHANGED <<objects, drawn, lockMap, answers, doubled, cut, now, faults>>

(* writeJSONFile: n.json.tmp is written, under a name all requests for part n
   share, then renamed; the rename fails if another request has renamed it. *)
PartWriteJSON(r) ==
    LET n == req[r].n
    IN  /\ req[r].pc = "json"
        /\ dirs' = [dirs EXCEPT ![req[r].u] =
                      Touched([@ EXCEPT !.tmp = Put(@, n, req[r].c)])]
        /\ Goes(r, "rename")
        /\ UNCHANGED <<objects, drawn, lockMap, history, now, faults>>

PartJSONFails(r) ==
    /\ req[r].pc = "json"
    /\ Fails(r)
    /\ mixed' = mixed \cup {<<req[r].u, req[r].n>>}
    /\ Goes(r, "unlock")
    /\ UNCHANGED <<files, lockMap, answers, doubled, cut, now>>

PartRenameJSON(r) ==
    LET u == req[r].u
        n == req[r].n
        d == dirs[u]
    IN  /\ req[r].pc = "rename"
        /\ dirs' = IF n \notin DOMAIN d.tmp THEN dirs
                   ELSE [dirs EXCEPT ![u] = Touched([d EXCEPT !.json = Put(@, n, d.tmp[n]),
                                                              !.tmp = Delete(@, n)])]
        /\ Goes(r, "unlock")
        /\ UNCHANGED <<objects, drawn, lockMap, history, now, faults>>

-----------------------------------------------------------------------------
(* CompleteMultipartUpload. *)

StartComplete(r, u, list) ==
    /\ req[r].pc = "idle"
    /\ u \in drawn
    /\ retain(r, u, [NoRequest EXCEPT !.op = "complete", !.list = list])
    /\ UNCHANGED <<files, history, now, faults>>

(* The parts named are there, with the ETags named, in ascending order. *)
validParts_anyETag(d, list) ==  \* Mutant: the ETag is not compared
    /\ \A i \in DOMAIN list : list[i].n \in DOMAIN d.json
    /\ \A i \in 1..(Len(list) - 1) : list[i].n < list[i + 1].n

validParts(d, list) ==
    /\ \A i \in DOMAIN list : list[i].n \in DOMAIN d.json /\ d.json[list[i].n] = list[i].etag
    /\ \A i \in 1..(Len(list) - 1) : list[i].n < list[i + 1].n

(* The ETag of the whole: the MD5 of the MD5s of its parts, and their number. *)
wholeETag(list) == [i \in DOMAIN list |-> list[i].etag]

(* A completed upload is not assembled again: the answer is on record. *)
CompleteAgain(r) ==
    LET u == req[r].u
    IN  /\ req[r].pc = "in" /\ req[r].op = "complete"
        /\ found(u) /\ dirs[u].complete # None
        /\ answers' = [answers EXCEPT ![u] = @ \cup {dirs[u].complete}]
        /\ Goes(r, "unlock")
        /\ UNCHANGED <<files, lockMap, mixed, doubled, cut, now, faults>>

(* Mutant: the completion record is not looked at. *)
CompleteCheck_again(r) ==
    LET u == req[r].u
    IN  /\ req[r].pc = "in" /\ req[r].op = "complete"
        /\ found(u)
        /\ validParts(dirs[u], req[r].list)
        /\ Goes(r, "wait")
        /\ UNCHANGED <<files, lockMap, history, now, faults>>

(* The parts are valid and the space is reserved. *)
CompleteCheck(r) ==
    LET u == req[r].u
    IN  /\ req[r].pc = "in" /\ req[r].op = "complete"
        /\ found(u) /\ dirs[u].complete = None
        /\ validParts(dirs[u], req[r].list)
        /\ Goes(r, "wait")
        /\ UNCHANGED <<files, lockMap, history, now, faults>>

(* No such upload, invalid parts, or no space. *)
CompleteRefused(r) ==
    LET u == req[r].u
    IN  /\ req[r].pc = "in" /\ req[r].op = "complete"
        /\ ~(found(u) /\ dirs[u].complete # None)
        /\ Leaves(r)

(* Mutant: a place is taken twice. *)
assembling_waiting ==
    {q \in Requests : req[q].pc \in {"wait", "append", "record", "remove"} /\ req[q].op = "complete"}

(* The goroutines that have a place in Backend.assembly. *)
assembling == {q \in Requests : req[q].pc \in {"append", "record", "remove"} /\ req[q].op = "complete"}

(* b.assembly <- struct{}{}, then BeginInternalUpload. *)
Assemble(r) ==
    /\ req[r].pc = "wait"
    /\ Cardinality(assembling) < MaxAssemblies
    /\ Goes(r, "append")
    /\ UNCHANGED <<files, lockMap, history, now, faults>>

(* appendPart copies the next part file into the upload. *)
appendPart(r) ==
    LET d == dirs[req[r].u]
        n == req[r].list[Len(req[r].buf) + 1].n
    IN  /\ req[r].pc = "append"
        /\ Len(req[r].buf) < Len(req[r].list)
        /\ req' = IF n \in DOMAIN d.part
                    THEN [req EXCEPT ![r].buf = Append(@, d.part[n])]
                    ELSE [req EXCEPT ![r].pc = "unlock"]
        /\ UNCHANGED <<files, lockMap, history, now, faults>>

(* h.Close publishes the object. *)
CompletePublish(r) ==
    /\ req[r].pc = "append"
    /\ Len(req[r].buf) = Len(req[r].list)
    /\ objects' = Append(objects, [upload |-> req[r].u, list |-> req[r].list,
                                   content |-> req[r].buf])
    /\ Goes(r, "record")
    /\ UNCHANGED <<dirs, drawn, lockMap, history, now, faults>>

(* The upload into the store fails: the parts are kept. *)
CompleteFails(r) ==
    /\ req[r].pc = "append"
    /\ Fails(r)
    /\ Goes(r, "unlock")
    /\ UNCHANGED <<files, lockMap, history, now>>

CompleteRecord(r) ==
    /\ req[r].pc = "record"
    /\ dirs' = [dirs EXCEPT ![req[r].u] =
                  Touched([@ EXCEPT !.complete = wholeETag(req[r].list)])]
    /\ Goes(r, "remove")
    /\ UNCHANGED <<objects, drawn, lockMap, history, now, faults>>

RecordFails(r) ==
    /\ req[r].pc = "record"
    /\ Fails(r)
    /\ doubled' = doubled \cup {req[r].u}
    /\ Goes(r, "unlock")
    /\ UNCHANGED <<files, lockMap, answers, mixed, cut, now>>

(* removeParts, and the answer. *)
removeParts(r) ==
    LET u == req[r].u
    IN  /\ req[r].pc = "remove" /\ req[r].op = "complete"
        /\ dirs' = [dirs EXCEPT ![u] = Touched([@ EXCEPT !.part = EmptyBucket, !.json = EmptyBucket,
                                                         !.tmp = EmptyBucket])]
        /\ answers' = [answers EXCEPT ![u] = @ \cup {wholeETag(req[r].list)}]
        /\ Goes(r, "unlock")
        /\ UNCHANGED <<objects, drawn, lockMap, mixed, doubled, cut, now, faults>>

-----------------------------------------------------------------------------
(* AbortMultipartUpload and cleanupMultipart. *)

StartAbort(r, u) ==
    /\ req[r].pc = "idle"
    /\ u \in drawn
    /\ retain(r, u, [NoRequest EXCEPT !.op = "abort"])
    /\ UNCHANGED <<files, history, now, faults>>

AbortCheck(r) ==
    /\ req[r].pc = "in" /\ req[r].op = "abort"
    /\ Goes(r, IF found(req[r].u) THEN "remove" ELSE "unlock")
    /\ UNCHANGED <<files, lockMap, history, now, faults>>

(* os.RemoveAll: the files in any order, and the directory last. *)
RemoveSome(r) ==
    LET u == req[r].u
        d == dirs[u]
    IN  /\ req[r].pc = "remove" /\ req[r].op # "complete"
        /\ \E left \in {[d EXCEPT !.meta = FALSE], [d EXCEPT !.complete = None],
                        [d EXCEPT !.part = EmptyBucket], [d EXCEPT !.json = EmptyBucket]} \ {d} :
              dirs' = [dirs EXCEPT ![u] = [left EXCEPT !.at = now]]
        /\ UNCHANGED <<objects, drawn, lockMap, req, history, now, faults>>

RemoveDir(r) ==
    /\ req[r].pc = "remove" /\ req[r].op # "complete"
    /\ dirs' = Delete(dirs, req[r].u)
    /\ Goes(r, "unlock")
    /\ UNCHANGED <<objects, drawn, lockMap, history, now, faults>>

(* A sweep reads the clock once, at its start. *)
CleanStart ==
    /\ req[Cleaner].pc = "idle"
    /\ dirs # EmptyBucket
    /\ req' = [req EXCEPT ![Cleaner] = [NoRequest EXCEPT !.pc = "scan", !.op = "clean",
                                          !.ids = DOMAIN dirs, !.at = now]]
    /\ UNCHANGED <<files, lockMap, history, now, faults>>

(* Mutant: a directory without its meta.json is passed over. *)
idle_found(u) == found(u) /\ dirs[u].at + TTL <= req[Cleaner].at

(* lastActivity is TTL or more before the start of the sweep. *)
idle(u) == u \in DOMAIN dirs /\ dirs[u].at + TTL <= req[Cleaner].at

CleanPick(u) ==
    /\ req[Cleaner].pc = "scan"
    /\ u \in req[Cleaner].ids
    /\ IF idle(u) THEN retain(Cleaner, u, [req[Cleaner] EXCEPT !.ids = @ \ {u}])
                  ELSE req' = [req EXCEPT ![Cleaner].ids = @ \ {u}] /\ UNCHANGED lockMap
    /\ UNCHANGED <<files, history, now, faults>>

(* Mutant: what was idle before the lock was taken is removed. *)
CleanCheck_once ==
    /\ req[Cleaner].pc = "in"
    /\ Goes(Cleaner, "remove")
    /\ UNCHANGED <<files, lockMap, history, now, faults>>

(* Under the lock the directory is looked at again. *)
CleanCheck ==
    /\ req[Cleaner].pc = "in"
    /\ Goes(Cleaner, IF idle(req[Cleaner].u) THEN "remove" ELSE "unlock")
    /\ UNCHANGED <<files, lockMap, history, now, faults>>

CleanEnd ==
    /\ req[Cleaner].pc = "scan"
    /\ req[Cleaner].ids = {}
    /\ req' = [req EXCEPT ![Cleaner] = NoRequest]
    /\ UNCHANGED <<files, lockMap, history, now, faults>>

-----------------------------------------------------------------------------
(* The files and the catalog survive a crash; a part may be left without its
   record, an object without its completion. *)
Crash ==
    /\ faults.crash < MaxCrashes
    /\ faults' = [faults EXCEPT !.crash = @ + 1]
    /\ mixed' = mixed \cup {<<req[r].u, req[r].n>> :
                             r \in {q \in Requests : req[q].pc \in {"json", "rename"}}}
    /\ doubled' = doubled \cup {req[r].u : r \in {q \in Requests : req[q].pc = "record"}}
    /\ cut' = cut \cup {req[r].u : r \in {q \in Actors : req[q].pc = "remove"
                                                       /\ req[q].op # "complete"}}
    /\ locks' = EmptyBucket
    /\ refs' = [l \in Locks |-> 0]
    /\ req' = [r \in Actors |-> NoRequest]
    /\ UNCHANGED <<files, answers, now>>

Tick ==
    /\ now < MaxTime
    /\ now' = now + 1
    /\ UNCHANGED <<files, lockMap, req, history, faults>>

Starts(r) ==
    \E u \in Uploads :
       \/ CreateDir(r, u)
       \/ \E n \in Numbers, c \in Contents : StartPart(r, u, n, c)
       \/ \E list \in Lists : StartComplete(r, u, list)
       \/ StartAbort(r, u)

PartSteps(r) ==
    \/ PartOpen(r) \/ PartRefused(r) \/ PartDropped(r) \/ PartRename(r)
    \/ PartWriteJSON(r) \/ PartJSONFails(r) \/ PartRenameJSON(r)

CompleteSteps(r) ==
    \/ CompleteAgain(r) \/ CompleteCheck(r) \/ CompleteRefused(r) \/ appendPart(r)
    \/ CompletePublish(r) \/ CompleteFails(r) \/ CompleteRecord(r) \/ RecordFails(r)
    \/ removeParts(r)

Works(r) ==
    \/ CreateMeta(r) \/ PartSteps(r) \/ CompleteSteps(r) \/ AbortCheck(r)
    \/ RemoveSome(r) \/ RemoveDir(r) \/ Unlock(r) \/ release(r)

Cleans ==
    \/ CleanStart \/ CleanCheck \/ CleanEnd
    \/ \E u \in Uploads : CleanPick(u)
    \/ RemoveSome(Cleaner) \/ RemoveDir(Cleaner) \/ Unlock(Cleaner) \/ release(Cleaner)

Next ==
    \/ \E r \in Requests : Starts(r) \/ Works(r) \/ Assemble(r)
    \/ \E r \in Actors : Lock(r)
    \/ Cleans \/ Crash \/ Tick

Spec == Init /\ [][Next]_vars

(* A goroutine that can go on does; the mutex and the channel serve those who
   wait in turn. *)
FairSpec ==
    /\ Spec
    /\ WF_vars(Tick) /\ WF_vars(Cleans)
    /\ \A r \in Requests : WF_vars(Works(r)) /\ SF_vars(Assemble(r))
    /\ \A r \in Actors : SF_vars(Lock(r))

-----------------------------------------------------------------------------
(* Properties. *)

(* Whoever completes, aborts or cleans an upload is alone with it: no part is
   recorded, and no other completion runs, between its checks and its last
   change, however the lock object of the upload was dropped and made again. *)
LifecycleExclusive ==
    \A r, q \in Actors :
       r # q /\ Holds(r) /\ Holds(q) /\ req[r].u = req[q].u =>
          {req[r].op, req[q].op} \cap Alone = {}

(* "A retried CompleteMultipartUpload returns the same answer": all answers for
   one upload carry one ETag, that of an object that was published; an upload is
   published twice only if the completion record of the first could not be
   written.  (A crash in the middle of an abort or of a removal may leave the
   upload without the record it had.) *)
CompletedOnce ==
    \A u \in Uploads :
       LET of == {i \in DOMAIN objects : objects[i].upload = u}
       IN  /\ answers[u] \subseteq {wholeETag(objects[i].list) : i \in of}
           /\ Cardinality(answers[u]) > 1 => u \in cut
           /\ Cardinality(of) > 1 => u \in doubled \cup cut

(* A published object consists of the contents its client named by their ETags,
   except for a part that two requests sent at the same time, or whose record
   was cut off by a failure after its file had been replaced. *)
AssembledAsNamed ==
    [][\A i \in DOMAIN objects' \ DOMAIN objects :
         LET o == objects'[i]
         IN  \A j \in DOMAIN o.list :
               o.content[j] = o.list[j].etag \/ <<o.upload, o.list[j].n>> \in mixed]_vars

(* Whatever the sweep takes away belongs to an upload that no request has used
   for the TTL before the sweep began: not before the sweep came to it, not
   while it waited for the lock, and not between one removed file and the next,
   when a part or a completion would be lost to its client.  (A creation that
   takes as long as the TTL itself is not under the lock.) *)
IdleOnly ==
    [][\A u \in DOMAIN dirs :
         /\ req[Cleaner].pc = "remove" /\ req[Cleaner].u = u
         /\ u \in DOMAIN dirs' => dirs'[u] # dirs[u]
         => dirs[u].used + TTL <= req[Cleaner].at]_vars

(* An upload nobody works on any more is removed, completed or not, and although
   a crash may have left it in any condition. *)
AbandonedRemoved ==
    \A u \in Uploads :
       (u \in DOMAIN dirs /\ dirs[u].at + TTL <= now) ~>
          (u \in DOMAIN dirs => dirs[u].at + TTL > now)

(* Every request ends: nobody waits for ever for a lock or for one of the
   places of an assembly. *)
RequestsEnd == \A r \in Requests : (req[r].pc # "idle") ~> (req[r].pc = "idle")
=============================================================================
