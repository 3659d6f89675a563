------------------------------- MODULE Upload -------------------------------
(***************************************************************************)
(* Uploads to one path, from the open of a handle to the published object: *)
(* the bytes of the staging files, the upload records, recovery after a    *)
(* crash and the removal of what nobody resumes.  Uploads to different     *)
(* paths share nothing.                                                    *)
(*                                                                         *)
(* A byte is a member of Data the client wrote, Zero (a client extended    *)
(* the file over it), or Hole: neither written nor inherited, and read     *)
(* back as zero.  A step is what one goroutine does to its handle, to one  *)
(* file or in one transaction.  The handle's mutex makes WriteAt, Append   *)
(* and Truncate atomic, with the base they may have to resolve first.      *)
(***************************************************************************)
EXTENDS Naturals, FiniteSets, Sequences, Bucket

CONSTANTS Ids,          \* what randomID may return
          Sessions,     \* goroutines that may have a handle open
          Recovery,     \* the goroutine running Recover
          NoId,
          Data, Hole, Zero,
          MaxLen,       \* bound on offsets
          MaxReorder,   \* maxReorderBytes
          PartialTTL,
          MaxTime, MaxCrashes, MaxFailures

ASSUME UploadAssumption ==
    /\ Recovery \notin Sessions
    /\ NoId \notin Ids
    /\ Hole \notin Data \cup {Zero}
    /\ {MaxLen, MaxReorder, PartialTTL, MaxTime, MaxCrashes, MaxFailures} \subseteq Nat

Cov == INSTANCE Coverage
Sha == INSTANCE StreamHasher

VARIABLES disk,      \* records and files (durable)
          handle,    \* the open handle of each session, and of Recover
          maint,     \* the maintenance pass under way
          boot,      \* "down", "finishing" (Recover runs) or "up"
          fin,       \* the FINALIZING uploads Recover has still to finish
          acked,     \* published objects whose Close returned nil, not deleted since
          now,
          faults     \* how many crashes and failures so far

vars == <<disk, handle, maint, boot, fin, acked, now, faults>>

(* uploads and stale are buckets, staging and blobs the files of the two
   directories; objects, current and gc are what this module needs of the
   catalog; isDir says that the path is a directory. *)
NewDisk ==
    [uploads |-> EmptyBucket, stale |-> {}, staging |-> EmptyBucket, blobs |-> EmptyBucket,
     objects |-> EmptyBucket, current |-> NoId, gc |-> {}, isDir |-> FALSE, drawn |-> {}]

Closed ==
    [pc |-> "none", mode |-> "truncate", id |-> NoId, resolved |-> FALSE, cands |-> <<>>,
     baseSize |-> 0, fillPrefix |-> FALSE, appendMode |-> "undecided", cov |-> <<>>,
     hasher |-> Sha!Invalid, failed |-> "no", digest |-> NoId]

(* listed: the old entries of the stale index, when the pass began at time at;
   reclaimed: the upload whose record is deleted and whose files are not. *)
NoPass == [listed |-> {}, at |-> 0, reclaimed |-> {}]

Init ==
    /\ disk = NewDisk
    /\ handle = [s \in Sessions \cup {Recovery} |-> Closed]
    /\ maint = NoPass
    /\ boot = "up"
    /\ fin = {}
    /\ acked = {}
    /\ now = 0
    /\ faults = [crash |-> 0, fail |-> 0]

-----------------------------------------------------------------------------
(* Files. *)

Least(m, n) == IF m < n THEN m ELSE n

(* WriteAt past the end leaves a hole. *)
writeFile(f, p, off) ==
    [i \in 1..(Len(f) + off + Len(p) - Least(Len(f), off + Len(p))) |->
       IF i \in (off + 1)..(off + Len(p)) THEN p[i - off]
       ELSE IF i <= Len(f) THEN f[i] ELSE Hole]

(* Bytes from the end of the covered ones on are declared zero. *)
truncateFile(f, end, size) ==
    [i \in 1..size |-> IF i <= end THEN f[i] ELSE Zero]

-----------------------------------------------------------------------------
(* What an upload may continue from. *)

(* The newest interrupted upload, if any; equal times leave the choice open. *)
newestInterrupted(d) ==
    LET S == {id \in DOMAIN d.uploads : d.uploads[id].State = "INTERRUPTED"}
    IN  {id \in S : \A j \in S : d.uploads[j].UpdatedAt <= d.uploads[id].UpdatedAt}

(* baseCandidates: what the uploader sees comes first. *)
baseCandidates(d) ==
    LET partial(u) == [kind |-> "partial", id |-> u, size |-> Len(d.staging[u])]
        cur == IF d.current \in DOMAIN d.objects
                 THEN <<[kind |-> "current", id |-> d.current,
                         size |-> d.objects[d.current].Size]>>
                 ELSE <<>>
        newer(u) == cur = <<>> \/ d.uploads[u].UpdatedAt > d.objects[d.current].CreatedAt
    IN  IF newestInterrupted(d) \cap DOMAIN d.staging = {} THEN {cur}
        ELSE {IF newer(u) THEN <<partial(u)>> \o cur ELSE cur \o <<partial(u)>> :
                u \in newestInterrupted(d) \cap DOMAIN d.staging}

(* The first candidate of size n, else the first larger one. *)
fitting(cands, n) ==
    LET exact == SelectSeq(cands, LAMBDA c : c.size = n)
        larger == SelectSeq(cands, LAMBDA c : c.size > n)
    IN  exact \o larger

-----------------------------------------------------------------------------
(* Operations on a handle, w = [disk, h, err]: what is left of the disk and of
   the handle, and whether the call returned an error.  id is the fresh id an
   operation may draw. *)

markUpload(d, id, state) ==
    LET old == IF id \in DOMAIN d.uploads THEN {<<d.uploads[id].UpdatedAt, id>>} ELSE {}
    IN  [d EXCEPT !.uploads = Put(@, id, [State |-> state, UpdatedAt |-> now]),
                  !.stale = (@ \ old) \cup
                     (IF state \in {"INTERRUPTED", "FAILED"} THEN {<<now, id>>} ELSE {})]

startFresh(w, id) ==
    [disk |-> [w.disk EXCEPT !.uploads = Put(@, id, [State |-> "UPLOADING", UpdatedAt |-> now]),
                             !.staging = Put(@, id, <<>>),
                             !.drawn = @ \cup {id}],
     h |-> [w.h EXCEPT !.id = id, !.resolved = TRUE, !.hasher = Sha!NewHasher],
     err |-> FALSE]

(* The staging file of u is continued in place. *)
continue(w, u) ==
    LET n == Len(w.disk.staging[u])
    IN  [disk |-> markUpload(w.disk, u, "UPLOADING"),
         h |-> [w.h EXCEPT !.id = u, !.resolved = TRUE, !.baseSize = n,
                           !.cov = Cov!add(@, 0, n), !.hasher = Sha!Invalid],
         err |-> FALSE]

(* adoptInterrupted: u is taken over, if it still is interrupted. *)
adoptInterrupted(w, u) ==
    IF u \notin DOMAIN w.disk.uploads \/ w.disk.uploads[u].State # "INTERRUPTED"
      THEN [w EXCEPT !.err = TRUE]
    ELSE IF u \notin DOMAIN w.disk.staging
      THEN [w EXCEPT !.disk = markUpload(@, u, "FAILED"), !.err = TRUE]
    ELSE continue(w, u)

(* The published version is copied.  Its blob may be gone by now: the error
   leaves the new staging file and its record behind. *)
cloneCurrent(w, o, id) ==
    LET new == startFresh(w, id)
        blob == w.disk.blobs[o]
    IN  IF o \notin DOMAIN w.disk.blobs THEN [new EXCEPT !.err = TRUE]
        ELSE [new EXCEPT !.disk.staging[id] = blob,
                         !.h.baseSize = Len(blob),
                         !.h.cov = Cov!add(@, 0, Len(blob)),
                         !.h.hasher = Sha!Invalid]

adopt(w, c, id) == IF c.kind = "partial" THEN adoptInterrupted(w, c.id)
                                         ELSE cloneCurrent(w, c.id, id)

(* resolve: the first offset written decides what the upload continues. *)
resolve(w, off, id) ==
    LET cands == fitting(w.h.cands, off)
    IN  IF off = 0 THEN startFresh(w, id)
        ELSE IF cands # <<>> THEN adopt(w, Head(cands), id)
        ELSE [startFresh(w, id) EXCEPT !.h.fillPrefix = TRUE]

(* appendOffset: the first write tells relative from absolute offsets. *)
appendOffset(h, off) ==
    LET mode == IF h.appendMode # "undecided" THEN h.appendMode
                ELSE IF h.baseSize > 0 /\ off < h.baseSize THEN "relative" ELSE "absolute"
    IN  [mode |-> mode, off |-> IF mode = "relative" THEN off + h.baseSize ELSE off]

(* writeLocked: an error in resolve is fatal.  The gate refuses the bytes, or
   the disk fails, unless ok. *)
writeLocked(w, p, off, translate, ok, id) ==
    LET r == IF w.h.resolved THEN w ELSE resolve(w, off, id)
        to == IF translate THEN appendOffset(r.h, off)
                           ELSE [mode |-> r.h.appendMode, off |-> off]
    IN  IF w.h.failed # "no" THEN [w EXCEPT !.err = TRUE]
        ELSE IF r.err THEN [r EXCEPT !.h.failed = "fatal"]
        ELSE IF ~ok THEN [r EXCEPT !.h.appendMode = to.mode, !.h.failed = "kept", !.err = TRUE]
        ELSE [r EXCEPT !.disk.staging[r.h.id] = writeFile(@, p, to.off),
                       !.h.appendMode = to.mode,
                       !.h.cov = Cov!add(@, to.off, to.off + Len(p)),
                       !.h.hasher = Sha!write(@, p, to.off)]

(* Truncate of an unresolved handle: the first candidate large enough. *)
resolveSize(w, size, id) ==
    LET cands == SelectSeq(w.h.cands, LAMBDA c : c.size >= size)
    IN  IF size = 0 THEN startFresh(w, id)
        ELSE IF cands = <<>> THEN [w EXCEPT !.err = TRUE]
        ELSE adopt(w, Head(cands), id)

(* Truncate does not look at failed; what it adds at the end is covered. *)
truncate(w, size, id) ==
    LET r == IF w.h.resolved THEN w ELSE resolveSize(w, size, id)
        old == Cov!end(r.h.cov)
        kept == Cov!clip(r.h.cov, size)
    IN  IF r.err THEN [r EXCEPT !.h.failed = "fatal"]
        ELSE [r EXCEPT !.disk.staging[r.h.id] = truncateFile(@, old, size),
                       !.h.cov = IF size > old THEN Cov!add(kept, old, size) ELSE kept,
                       !.h.baseSize = Least(@, size),
                       !.h.hasher = Sha!truncate(@, size)]

(* copyPrefix: a source that has become shorter is no error. *)
copyPrefix(w, c, n) ==
    LET files == IF c.kind = "partial" THEN w.disk.staging ELSE w.disk.blobs
    IN  IF c.id \notin DOMAIN files THEN [w EXCEPT !.err = TRUE]
        ELSE [w EXCEPT !.disk.staging[w.h.id] =
                          writeFile(@, SubSeq(files[c.id], 1, Least(n, Len(files[c.id]))), 0),
                       !.h.cov = Cov!add(@, 0, n),
                       !.h.hasher = Sha!Invalid]

(* settle, its first half: the prefix that no write has reached. *)
fillPrefix(w) ==
    LET first == Cov!start(w.h.cov)
        cands == fitting(w.h.cands, first)
    IN  IF ~w.h.fillPrefix \/ first = 0 THEN w
        ELSE IF cands = <<>> THEN [w EXCEPT !.err = TRUE]
        ELSE copyPrefix(w, Head(cands), first)

removeFiles(d, id) == [d EXCEPT !.staging = Delete(@, id), !.blobs = Delete(@, id)]

(* All that matters of a handle once Close has looked at it. *)
closing(h, pc, digest) == [Closed EXCEPT !.pc = pc, !.id = h.id, !.digest = digest]

(* fail up to its transaction, interruptHandle up to its transaction. *)
failing(w) == [w EXCEPT !.disk = removeFiles(@, w.h.id), !.h = closing(@, "failing", NoId)]

interrupting(w) ==
    [w EXCEPT !.disk.staging[w.h.id] = SubSeq(@, 1, Cov!contiguous(w.h.cov)),
              !.h = closing(@, "interrupting", NoId)]

(* settle and what Close does with its result; the digest of the streaming
   hasher is used when it has seen the whole file. *)
settle(w) ==
    LET r == fillPrefix(w)
        file == r.disk.staging[r.h.id]
    IN  IF r.err THEN failing(r)
        ELSE IF ~Cov!covers(r.h.cov, Len(file)) THEN interrupting(r)
        ELSE [r EXCEPT !.h = closing(@, "finalizing",
                               IF r.h.baseSize = 0 /\ Sha!result(r.h.hasher, Len(file))
                                 THEN r.h.hasher.hashed ELSE NoId)]

(* Close up to its first transaction on the record. *)
closeHandle(w, id) ==
    IF w.h.failed # "no"
      THEN IF w.h.id = NoId THEN [w EXCEPT !.h = Closed]
           ELSE IF w.h.failed = "fatal" THEN failing(w) ELSE interrupting(w)
    ELSE IF w.h.resolved THEN settle(w)
    ELSE IF w.h.cands # <<>> THEN [w EXCEPT !.h = Closed]
    ELSE settle(startFresh(w, id))

-----------------------------------------------------------------------------
(* The steps of a session. *)

World(s) == [disk |-> disk, h |-> handle[s], err |-> FALSE]

Becomes(s, w) == disk' = w.disk /\ handle' = [handle EXCEPT ![s] = w.h]

(* The ids a call that may create a staging file may draw. *)
Fresh(s) == IF handle[s].resolved THEN {NoId} ELSE Ids \ disk.drawn

Running == <<maint, boot, fin, now, faults>>

(* How SFTP open flags and FTP commands ask for a mode; O_EXCL is refused when
   Stat finds something at the path. *)
sftpMode == [append |-> "append", trunc |-> "truncate", excl |-> "truncate", none |-> "resume"]

ftpMode == [APPE |-> "append", STOR |-> "truncate", REST |-> "resume"]

statFinds == baseCandidates(disk) # {<<>>} \/ disk.isDir

(* openUpload.  In append mode the candidates are read in a transaction of
   their own, before the base is adopted. *)
openUpload(s, mode) ==
    /\ boot = "up"
    /\ handle[s].pc = "none"
    /\ ~disk.isDir
    /\ LET new == [Closed EXCEPT !.pc = "open", !.mode = mode]
           w == [World(s) EXCEPT !.h = new]
       IN  \/ /\ mode = "truncate"
              /\ \E id \in Ids \ disk.drawn : Becomes(s, startFresh(w, id))
           \/ /\ mode \in {"resume", "append"}
              /\ \E cands \in baseCandidates(disk) :
                    \/ /\ mode = "append" /\ cands = <<>>
                       /\ \E id \in Ids \ disk.drawn : Becomes(s, startFresh(w, id))
                    \/ /\ mode = "resume" \/ cands # <<>>
                       /\ Becomes(s, [w EXCEPT !.h.cands = cands,
                                               !.h.pc = IF mode = "append" THEN "adopting" ELSE @])
    /\ UNCHANGED <<acked, Running>>

Filewrite(s, flag) ==
    /\ flag = "excl" => ~statFinds
    /\ openUpload(s, sftpMode[flag])

GetHandle(s, command) == openUpload(s, ftpMode[command])

(* An S3 PutObject always replaces the whole object. *)
PutObject(s) == openUpload(s, "truncate")

(* The end of openUpload in append mode; after an error nobody has the handle. *)
OpenAppend(s) ==
    /\ handle[s].pc = "adopting"
    /\ \E id \in Ids \ disk.drawn :
          LET r == adopt(World(s), Head(handle[s].cands), id)
          IN  Becomes(s, [r EXCEPT !.h = IF r.err THEN Closed
                                         ELSE [@ EXCEPT !.pc = "open", !.cands = <<>>]])
    /\ UNCHANGED <<acked, Running>>

(* No id, file, record or room for the base: nothing is created. *)
Refused(s) ==
    /\ \/ /\ handle[s].pc = "adopting"
          /\ handle' = [handle EXCEPT ![s] = Closed]
       \/ /\ handle[s].pc = "open" /\ ~handle[s].resolved
          /\ handle' = [handle EXCEPT ![s].failed = "fatal"]
    /\ UNCHANGED <<disk, acked, Running>>

WriteAt(s, p, off, ok) ==
    /\ handle[s].pc = "open"
    /\ handle[s].failed = "no"
    /\ \E id \in Fresh(s) :
          LET w == writeLocked(World(s), p, off, handle[s].mode = "append", ok, id)
          IN  Cov!end(w.h.cov) <= MaxLen /\ Becomes(s, w)
    /\ UNCHANGED <<acked, Running>>

AppendWrite(s, p, ok) ==
    /\ handle[s].pc = "open"
    /\ handle[s].failed = "no"
    /\ \E id \in Fresh(s) :
          LET off == IF handle[s].resolved THEN Cov!end(handle[s].cov) ELSE 0
              w == writeLocked(World(s), p, off, FALSE, ok, id)
          IN  Cov!end(w.h.cov) <= MaxLen /\ Becomes(s, w)
    /\ UNCHANGED <<acked, Running>>

Truncate(s, size) ==
    /\ handle[s].pc = "open"
    /\ \E id \in Fresh(s) : Becomes(s, truncate(World(s), size, id))
    /\ UNCHANGED <<acked, Running>>

transferError(h) == IF h.failed = "no" THEN [h EXCEPT !.failed = "kept"] ELSE h

TransferError(s) ==
    /\ handle[s].pc = "open"
    /\ handle' = [handle EXCEPT ![s] = transferError(@)]
    /\ UNCHANGED <<disk, acked, Running>>

(* PutObject finds that the content has another digest than announced. *)
Fail(s) ==
    /\ handle[s].pc = "open"
    /\ handle' = [handle EXCEPT ![s].failed = "fatal"]
    /\ UNCHANGED <<disk, acked, Running>>

(* Close, called once the client has confirmed the transfer, or after the
   session ended or the announced size was missed. *)
Close(s, confirmed) ==
    /\ handle[s].pc = "open"
    /\ \E id \in Fresh(s) :
          Becomes(s, closeHandle([World(s) EXCEPT !.h = IF confirmed THEN @ ELSE transferError(@)],
                                 id))
    /\ UNCHANGED <<acked, Running>>

(* The SFTP session ended before the client closed the file. *)
abortAll(s) == Close(s, FALSE)

(* The transactions that end interruptHandle and fail. *)
MarkInterrupted(s) ==
    /\ handle[s].pc = "interrupting"
    /\ Becomes(s, [disk |-> markUpload(disk, handle[s].id, "INTERRUPTED"), h |-> Closed])
    /\ UNCHANGED <<acked, Running>>

MarkFailed(s) ==
    /\ handle[s].pc = "failing"
    /\ Becomes(s, [disk |-> markUpload(disk, handle[s].id, "FAILED"), h |-> Closed])
    /\ UNCHANGED <<acked, Running>>

(* finalize: the record, the digest and the rename, the catalog. *)
MarkFinalizing(s) ==
    /\ handle[s].pc = "finalizing"
    /\ Becomes(s, [disk |-> [disk EXCEPT !.uploads[handle[s].id] =
                                [State |-> "FINALIZING", UpdatedAt |-> now]],
                   h |-> [handle[s] EXCEPT !.pc = "marked"]])
    /\ UNCHANGED <<acked, Running>>

MoveIntoPlace(s) ==
    /\ handle[s].pc = "marked"
    /\ LET id == handle[s].id
           file == disk.staging[id]
       IN  Becomes(s, [disk |-> [disk EXCEPT !.staging = Delete(@, id), !.blobs = Put(@, id, file)],
                       h |-> [handle[s] EXCEPT !.pc = "renamed",
                                               !.digest = IF @ = NoId THEN file ELSE @]])
    /\ UNCHANGED <<acked, Running>>

dropUpload(d, id) == [d EXCEPT !.uploads = Delete(@, id)]

dropCurrent(d) ==
    IF d.current \in DOMAIN d.objects
      THEN [d EXCEPT !.objects = Delete(@, d.current), !.gc = @ \cup {d.current}]
      ELSE d

(* The transaction of publish.  The previous version is deleted under the
   supersede policy, unless it is leased. *)
publishTx(d, id, digest, supersede) ==
    IF id \in DOMAIN d.objects THEN dropUpload(d, id)
    ELSE [dropUpload(IF supersede THEN dropCurrent(d) ELSE d, id) EXCEPT
            !.objects = Put(@, id, [SHA256 |-> digest, Size |-> Len(digest), CreatedAt |-> now]),
            !.current = id]

(* Nobody waits for the answer to an upload Recover finishes. *)
acknowledge(s, supersede) ==
    (acked \ (IF supersede THEN {disk.current} ELSE {}))
      \cup (IF s = Recovery THEN {} ELSE {handle[s].id})

(* Mutant: the error of publish is not returned. *)
Publish_swallow(s, supersede) ==
    /\ handle[s].pc = "renamed"
    /\ IF disk.isDir
         THEN Becomes(s, failing(World(s)))
         ELSE Becomes(s, [disk |-> publishTx(disk, handle[s].id, handle[s].digest, supersede),
                          h |-> Closed])
    /\ acked' = acknowledge(s, supersede)
    /\ UNCHANGED Running

(* publish: a path that has become a directory in the meantime is an error. *)
Publish(s, supersede) ==
    /\ handle[s].pc = "renamed"
    /\ IF disk.isDir /\ handle[s].id \notin DOMAIN disk.objects
         THEN Becomes(s, failing(World(s))) /\ UNCHANGED acked
         ELSE /\ Becomes(s, [disk |-> publishTx(disk, handle[s].id, handle[s].digest, supersede),
                             h |-> Closed])
              /\ acked' = acknowledge(s, supersede)
    /\ UNCHANGED Running

(* A transaction or a file operation of finalize fails; fail goes on when it
   cannot remove the files either.  The transaction that ends interruptHandle
   or fail may fail too, and the record keeps its state. *)
FinalizeFails(s) ==
    /\ faults.fail < MaxFailures
    /\ handle[s].pc \in {"finalizing", "marked", "renamed"}
    /\ \/ Becomes(s, failing(World(s)))
       \/ Becomes(s, [failing(World(s)) EXCEPT !.disk = disk])
    /\ faults' = [faults EXCEPT !.fail = @ + 1]
    /\ UNCHANGED <<maint, boot, fin, acked, now>>

MarkFails(s) ==
    /\ faults.fail < MaxFailures
    /\ handle[s].pc \in {"interrupting", "failing"}
    /\ handle' = [handle EXCEPT ![s] = Closed]
    /\ faults' = [faults EXCEPT !.fail = @ + 1]
    /\ UNCHANGED <<disk, maint, boot, fin, acked, now>>

-----------------------------------------------------------------------------
(* Recovery. *)

(* The process dies.  startFresh creates the file before the record, so a
   staging file nobody knows may be left. *)
Crash ==
    /\ faults.crash < MaxCrashes
    /\ \/ disk' = disk
       \/ \E id \in Ids \ disk.drawn :
             disk' = [disk EXCEPT !.staging = Put(@, id, <<>>), !.drawn = @ \cup {id}]
    /\ handle' = [s \in DOMAIN handle |-> Closed]
    /\ maint' = NoPass
    /\ boot' = "down"
    /\ fin' = {}
    /\ faults' = [faults EXCEPT !.crash = @ + 1]
    /\ UNCHANGED <<acked, now>>

InState(d, state) == {id \in DOMAIN d.uploads : d.uploads[id].State = state}

(* Mutant: the interrupted uploads are not entered in the stale index. *)
interruptAll_unindexed(d) ==
    [d EXCEPT !.uploads = [id \in DOMAIN @ |->
        IF id \in InState(d, "UPLOADING") THEN [State |-> "INTERRUPTED", UpdatedAt |-> now]
                                          ELSE @[id]]]

interruptAll(d) ==
    [d EXCEPT !.uploads = [id \in DOMAIN @ |->
                 IF id \in InState(d, "UPLOADING")
                   THEN [State |-> "INTERRUPTED", UpdatedAt |-> now] ELSE @[id]],
              !.stale = @ \cup {<<now, id>> : id \in InState(d, "UPLOADING")}]

(* Mutant: uploads that were being finalized are overlooked. *)
Recover_uploading ==
    /\ boot = "down"
    /\ disk' = interruptAll(disk)
    /\ boot' = "finishing"
    /\ UNCHANGED <<handle, maint, fin, acked, now, faults>>

(* The transaction of Recover. *)
Recover ==
    /\ boot = "down"
    /\ disk' = interruptAll(disk)
    /\ fin' = InState(disk, "FINALIZING")
    /\ boot' = "finishing"
    /\ UNCHANGED <<handle, maint, acked, now, faults>>

(* recoverFinalizing picks up where finalize stopped. *)
recoverFinalizing(id) ==
    /\ boot = "finishing"
    /\ id \in fin
    /\ handle[Recovery].pc = "none"
    /\ fin' = fin \ {id}
    /\ handle' = [handle EXCEPT ![Recovery] =
          closing([id |-> id],
             IF id \in DOMAIN disk.staging THEN "finalizing"
               ELSE IF id \in DOMAIN disk.blobs THEN "renamed" ELSE "failing",
             IF id \notin DOMAIN disk.staging /\ id \in DOMAIN disk.blobs
               THEN disk.blobs[id] ELSE NoId)]
    /\ UNCHANGED <<disk, maint, boot, acked, now, faults>>

(* The sweepGC that ends Recover. *)
Recovered ==
    /\ boot = "finishing"
    /\ fin = {}
    /\ handle[Recovery].pc = "none"
    /\ boot' = "up"
    /\ disk' = [disk EXCEPT !.blobs = DeleteAll(@, disk.gc), !.gc = {}]
    /\ UNCHANGED <<handle, maint, fin, acked, now, faults>>

-----------------------------------------------------------------------------
(* Maintenance, and what happens to the objects elsewhere. *)

old(t, at) == t + PartialTTL < at

expired(u, at) == u.State \in {"INTERRUPTED", "FAILED"} /\ old(u.UpdatedAt, at)

(* The scan of the stale index that starts a slow maintenance pass. *)
maintenancePass ==
    /\ boot = "up"
    /\ maint.listed = {} /\ maint.reclaimed = {}
    /\ LET due == {id \in Ids : \E t \in 0..now : <<t, id>> \in disk.stale /\ old(t, now)}
       IN  due # {} /\ maint' = [listed |-> due, at |-> now, reclaimed |-> {}]
    /\ UNCHANGED <<disk, handle, boot, fin, acked, now, faults>>

(* Mutants: nothing, or only the state, is looked at again. *)
reclaimable_listed(d, id, at) == id \in DOMAIN d.uploads

reclaimable_state(d, id, at) ==
    id \in DOMAIN d.uploads /\ d.uploads[id].State \in {"INTERRUPTED", "FAILED"}

(* What the transaction of reclaimUpload checks. *)
reclaimable(d, id, at) == id \in DOMAIN d.uploads /\ expired(d.uploads[id], at)

(* reclaimUpload: the record in one transaction, then the files. *)
ReclaimUpload(id) ==
    /\ id \in maint.listed
    /\ maint.reclaimed = {}
    /\ IF reclaimable(disk, id, maint.at)
         THEN /\ disk' = [disk EXCEPT !.uploads = Delete(@, id),
                                      !.stale = @ \ {<<disk.uploads[id].UpdatedAt, id>>}]
              /\ maint' = [maint EXCEPT !.listed = @ \ {id}, !.reclaimed = {id}]
         ELSE /\ maint' = [maint EXCEPT !.listed = @ \ {id}]
              /\ UNCHANGED disk
    /\ UNCHANGED <<handle, boot, fin, acked, now, faults>>

(* Mutant: the files are forgotten. *)
RemoveReclaimed_forget(id) ==
    /\ id \in maint.reclaimed
    /\ maint' = [maint EXCEPT !.reclaimed = {}]
    /\ UNCHANGED <<disk, handle, boot, fin, acked, now, faults>>

RemoveReclaimed(id) ==
    /\ id \in maint.reclaimed
    /\ disk' = [disk EXCEPT !.staging = Delete(@, id),
                            !.blobs = IF id \in DOMAIN disk.objects THEN @ ELSE Delete(@, id)]
    /\ maint' = [maint EXCEPT !.reclaimed = {}]
    /\ UNCHANGED <<handle, boot, fin, acked, now, faults>>

knownUpload(d, id) == id \in DOMAIN d.uploads

knownObject(d, id) == id \in DOMAIN d.objects \cup DOMAIN d.uploads \cup d.gc

(* Mutant: only the directory of the objects is walked. *)
Reconcile_blobs(id) ==
    /\ boot = "up"
    /\ id \in DOMAIN disk.blobs /\ ~knownObject(disk, id)
    /\ disk' = [disk EXCEPT !.blobs = Delete(@, id)]
    /\ UNCHANGED <<handle, maint, boot, fin, acked, now, faults>>

(* Reconcile, for one file.  The age it asks for protects a file that is being
   created; here the file and its record are created in one step. *)
Reconcile(id) ==
    /\ boot = "up"
    /\ \/ /\ id \in DOMAIN disk.staging /\ ~knownUpload(disk, id)
          /\ disk' = [disk EXCEPT !.staging = Delete(@, id)]
       \/ /\ id \in DOMAIN disk.blobs /\ ~knownObject(disk, id)
          /\ disk' = [disk EXCEPT !.blobs = Delete(@, id)]
    /\ UNCHANGED <<handle, maint, boot, fin, acked, now, faults>>

(* The object is delivered, superseded or deleted: its blob is queued for
   removal, and removed. *)
Drop(id) ==
    /\ boot = "up"
    /\ id \in DOMAIN disk.objects
    /\ disk' = [disk EXCEPT !.objects = Delete(@, id), !.gc = @ \cup {id},
                            !.current = IF @ = id THEN NoId ELSE @]
    /\ acked' = acked \ {id}
    /\ UNCHANGED <<handle, maint, boot, fin, now, faults>>

Unlink(id) ==
    /\ boot # "down"
    /\ id \in disk.gc
    /\ disk' = [disk EXCEPT !.blobs = Delete(@, id), !.gc = @ \ {id}]
    /\ UNCHANGED <<handle, maint, boot, fin, acked, now, faults>>

(* The path becomes a directory, when no file is there, or stops being one. *)
Mkdir ==
    /\ boot = "up"
    /\ disk.current = NoId
    /\ disk' = [disk EXCEPT !.isDir = ~@]
    /\ UNCHANGED <<handle, maint, boot, fin, acked, now, faults>>

Tick ==
    /\ now < MaxTime
    /\ now' = now + 1
    /\ UNCHANGED <<disk, handle, maint, boot, fin, acked, faults>>

-----------------------------------------------------------------------------
(* The specification. *)

Chunks == {<<v>> : v \in Data} \cup {<<v, v>> : v \in Data}

Open ==
    \E s \in Sessions :
       \/ \E flag \in DOMAIN sftpMode : Filewrite(s, flag)
       \/ \E command \in DOMAIN ftpMode : GetHandle(s, command)
       \/ PutObject(s)
       \/ OpenAppend(s)
       \/ Refused(s)

Transfer ==
    \E s \in Sessions :
       \/ \E p \in Chunks, off \in 0..MaxLen, ok \in BOOLEAN : WriteAt(s, p, off, ok)
       \/ \E p \in Chunks, ok \in BOOLEAN : AppendWrite(s, p, ok)
       \/ \E size \in 0..MaxLen : Truncate(s, size)
       \/ TransferError(s)
       \/ Fail(s)
       \/ \E confirmed \in BOOLEAN : Close(s, confirmed)
       \/ abortAll(s)

Settle(s) ==
    \/ MarkInterrupted(s) \/ MarkFailed(s) \/ MarkFinalizing(s) \/ MoveIntoPlace(s)
    \/ \E supersede \in BOOLEAN : Publish(s, supersede)

Faults ==
    \/ Crash
    \/ \E s \in Sessions \cup {Recovery} : FinalizeFails(s) \/ MarkFails(s)

Recovering == Recover \/ Recovered \/ \E id \in Ids : recoverFinalizing(id)

Maintenance ==
    \/ maintenancePass
    \/ \E id \in Ids : ReclaimUpload(id) \/ RemoveReclaimed(id) \/ Reconcile(id)

Elsewhere == Mkdir \/ Tick \/ \E id \in Ids : Drop(id) \/ Unlink(id)

Next ==
    \/ Open \/ Transfer \/ Faults \/ Recovering \/ Maintenance \/ Elsewhere
    \/ \E s \in Sessions \cup {Recovery} : Settle(s)

Spec == Init /\ [][Next]_vars
-----------------------------------------------------------------------------
(* Properties. *)

(* No published byte is a gap: neither written by a client, nor inherited, nor
   declared zero by a Truncate (settle, coverage). *)
NoHoles ==
    \A id \in DOMAIN disk.objects \cap DOMAIN disk.blobs :
       \A i \in DOMAIN disk.blobs[id] : disk.blobs[id][i] # Hole

(* Digest and size in the catalog are those of the blob. *)
Verified(id) ==
    /\ disk.objects[id].SHA256 = disk.blobs[id]
    /\ disk.objects[id].Size = Len(disk.blobs[id])

(* What the catalog says of an object is what its blob holds: the digest of the
   streaming hasher stands for the whole file, and no byte of it is a gap,
   whatever the order, the overlaps and the truncations of the writes
   (streamHasher, coverage, Close, finalize). *)
ContentVerified ==
    /\ \A id \in DOMAIN disk.objects \cap DOMAIN disk.blobs : Verified(id)
    /\ NoHoles

(* The coverage of an open handle is exactly the set of bytes of its file that
   are no gap, after any writes and truncations (coverage.add, clip). *)
CoverageExact ==
    \A s \in Sessions :
       LET h == handle[s]
           file == disk.staging[h.id]
       IN  h.pc = "open" /\ h.resolved =>
             Cov!Bytes(h.cov) = {i - 1 : i \in {j \in DOMAIN file : file[j] # Hole}}

(* The record and the file of an open handle stay what its next step relies on:
   no reclaim, reconcile, recovery or other session takes them away.  Two
   sessions never write to one staging file, even when both found the same
   interrupted upload to continue (adoptInterrupted). *)
HandleBacked ==
    \A s \in DOMAIN handle :
       LET h == handle[s]
           In(state) == h.id \in InState(disk, state)
       IN  h.id # NoId =>
             /\ \A t \in DOMAIN handle \ {s} : handle[t].id # h.id
             /\ h.pc \in {"open", "interrupting"} => In("UPLOADING") /\ h.id \in DOMAIN disk.staging
             /\ h.pc = "finalizing" => h.id \in DOMAIN disk.staging
             /\ h.pc = "marked" => In("FINALIZING") /\ h.id \in DOMAIN disk.staging
             /\ h.pc = "renamed" => In("FINALIZING") /\ h.id \in DOMAIN disk.blobs

(* An upload whose Close returned nil is in the catalog with a blob of its digest
   and size, through crashes and recovery, until the object is deleted (Close,
   finalize, fail, recoverFinalizing). *)
AckDurable ==
    \A id \in acked : id \in DOMAIN disk.objects \cap DOMAIN disk.blobs /\ Verified(id)

(* The stale index lists exactly the interrupted and failed uploads, at the time
   they became so (markUpload, adoptInterrupted, Recover, reclaimUpload). *)
StaleAgrees ==
    disk.stale = {<<disk.uploads[id].UpdatedAt, id>> :
                    id \in InState(disk, "INTERRUPTED") \cup InState(disk, "FAILED")}

(* A file without a record is the trace of a crash, or about to be removed
   (startFresh, fail, reclaimUpload). *)
FilesKnown ==
    faults.crash = 0 =>
      /\ DOMAIN disk.staging \subseteq DOMAIN disk.uploads \cup maint.reclaimed
      /\ \A id \in DOMAIN disk.blobs : knownObject(disk, id) \/ id \in maint.reclaimed

(* An interrupted upload keeps its bytes as long as it is parked, and only age
   ends it, unless a session takes it over (reclaimUpload, Reconcile). *)
PartialKept ==
    [][\A id \in InState(disk, "INTERRUPTED") :
          \/ id \in DOMAIN disk'.uploads /\ disk'.uploads[id].State # "INTERRUPTED"
          \/ expired(disk.uploads[id], now)
          \/ /\ id \in InState(disk', "INTERRUPTED")
             /\ id \in DOMAIN disk.staging =>
                  id \in DOMAIN disk'.staging /\ disk'.staging[id] = disk.staging[id]]_vars

(* A file no record refers to, or a partial past its lifetime. *)
Leftover(id) ==
    \/ id \in DOMAIN disk.staging /\ ~knownUpload(disk, id)
    \/ id \in DOMAIN disk.blobs /\ ~knownObject(disk, id)
    \/ id \in DOMAIN disk.uploads /\ expired(disk.uploads[id], now)

(* An interrupted or failed upload past its lifetime is reclaimed unless a
   session resumes it, and a file no record refers to is removed in the end,
   whatever step a crash came after (reclaimUpload, Reconcile). *)
LeftoversRemoved == \A id \in Ids : Leftover(id) ~> ~Leftover(id)

(* A restart ends with the service up and no upload left FINALIZING. *)
RestartCompletes ==
    boot = "down" ~> (boot = "up" /\ InState(disk, "FINALIZING") = {})
=============================================================================
