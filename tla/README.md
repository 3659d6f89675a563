# A verification of xsync in TLA+

`xsync-server` is a file relay on one machine. Uploaders write files over SFTP,
FTP or S3; downloaders claim them over HTTPS under a lease, verify them and
commit, which deletes them. Delivery is at least once. This directory holds
TLA+ models of the parts of the program whose correctness depends on the order
in which things happen, TLC configurations that check them on small instances,
and proofs checked by TLAPS.

`PROJECT.json` lists the components, the runs, the source lines each
definition stands for, the hazards and the theorems. A definition keeps the
name of the function it models where TLA+ allows it. A definition named `X_y`
and marked *Mutant* is `X` with a plausible slip; no specification uses it, and
`PROJECT.json` names the property that rejects it.

## 1. The system

| Part | State it owns | Operations that change it | What makes it hard |
|---|---|---|---|
| catalog (`store/schema.go`, `store/store.go`) | bbolt buckets: primary records and indexes that repeat them | every transaction; `RebuildIndexes` | six indexes kept by hand; rebuilt on a running server |
| delivery (`store/delivery.go`) | queue, leases, attempts, dead letters, garbage list | `Claim`, `Renew`, `ReleaseWith`, `Commit`, `Requeue`, `DeleteObject`, `collect`, `flushGC` | a claim searches in one transaction and takes in another; blobs are unlinked after the transaction |
| namespace (`store/namespace.go`) | path to object, directories | `Remove`, `Rename`, `Mkdir`, `RemoveDir` | renames across hold patterns, over files being delivered, of whole trees |
| uploads (`store/upload.go`) | staging files, upload records, open handles | open, `WriteAt`, `Append`, `Truncate`, `Close`, `Fail`, `TransferError` | out-of-order writes, resumption, a digest computed on the fly, a crash at any point of `Close` |
| recovery and maintenance (`store/maintain.go`) | lists made in one transaction and used in later ones | `Recover`, `ExpireLeases`, `maintenancePass`, `reclaimUpload`, `sweepGC`, `Reconcile` | works beside the requests on what it saw earlier |
| store front (`store/store.go`) | counters, the notifier's channels, the draining flag, uploads in flight | `update`, `AdmitUpload`, `Drain`, `WaitIdle` | counters and wake-ups follow the commit, outside the transaction |
| download API (`api/server.go`) | long polls | claim, renew, release, commit, requeue, delete | subscribe, look, sleep; check, then delete |
| capacity (`capacity/controller.go`) | upload slots, watermarks, reservations, rates | `AcquireUpload`, `Sample`, `Reserve`, `WaitN` | decisions on a snapshot taken earlier |
| SFTP, FTP (`protocol/sftp`, `ftp`) | sessions, open files | translate to the operations on uploads | sessions that end in the middle |
| S3 (`protocol/s3/server.go`) | directories of multipart uploads, their locks | create, upload part, complete, abort, cleanup | parts sent at once, retried completions, a sweep beside live uploads |
| accounts (`config/config.go`, `tenant/registry.go`, `app/app.go`, `cmd/.../account.go`) | `config.yaml`, `accounts.yaml`, the list each part of the server works with | `UpdateAccounts`, `Update`, `watchAccounts`, `Replace`, `Subscribe` | two locks for one file; reloads from three sides |
| connections (`netguard/netguard.go`) | open connections, failed authentications | `Accept`, `Close`, `Allow`, `Fail` | closed from several sides; checked, then recorded |
| certificate (`certstore/certstore.go`, `cmd/.../certs.go`) | two files and the pair being served | `issueLeaf`, `maybeReload`, `Reload` | two files that change one after the other |
| process (`app/app.go`) | phases of start and stop | `RunWithOptions` | clients that never finish |
| metrics, bundle, mount | display, files | | section 9 |

What has to hold, and is stated below: an object is held by at most one
downloader and an acknowledged upload is not lost; an object in the catalog has
its blob and a blob on disk has somebody who will remove it; what is delivered
is what the client wrote, without gaps, and its digest describes it; only the
current version is delivered; every index agrees with the records; leases,
partial uploads, abandoned multipart uploads and garbage all end; limits count
what is really there; a changed account or certificate reaches the server.

## 2. Modules

```
Bucket        a bbolt bucket as a function
Catalog       the buckets and every transaction on them: operators db -> db'
Delivery      the goroutines that run those transactions
Relay         what a store promises about every file (abstract)
RelayRefinement  Delivery implements Relay                     MCDelivery
Coverage      the byte ranges of a staging file
StreamHasher  the digest computed while bytes arrive
Upload        handles, staging files, records, recovery        MCUpload
Multipart     S3 multipart uploads                             MCMultipart
Service       update, counters, long polls, slots, shutdown
Accounts      account files, commands, reloads                 MCAccounts
Capacity      upload slots and reservations of disk space
Netguard      connection limits, failed authentications
Certstore     the certificate and its renewal
MCServer      Service, Accounts, Capacity, Netguard, Certstore for TLC
CatalogProofs, DeliveryProofs
```

**Catalog** has one record `db` of fourteen buckets and counters: `objects`,
`namespace`, `claims`, `tombstones`, `gc`, `directories` (primary records),
`queue`, `queueSeg`, `leases`, `held`, `parked`, `tombTimes` (indexes) and two
sequences. A write transaction is an operator from the catalog before it to the
catalog after it; bbolt serialises them, so nothing finer is observable. A
transaction that treats several objects in a loop is one operator on the set;
the order in which the loop hands out queue positions is a parameter (`num`)
that ranges over all orders. Paths are sequences of names, so the prefix and
ancestor tests are those of the code; `Shadows` records which names sort
between a directory and its children, on which the walk of `collectTreeMoves`
depends. Objects carry no content: here only their identity counts.

**Delivery** has a step per transaction, read transaction or change of the blob
directory. `claimer` holds what `Claim` remembers between its search and its
write, `dropping` the API deletes between check and transaction, `todo` the
blobs a finished transaction has still to unlink, `gcDone` the field of the
same name, `maint` the lists of the maintenance goroutine. `Crash` loses all of
them, keeps `db` and `blobs`, and includes the restart up to the sweep of
`Recover`. Operations on the disk and on the catalog may fail
(`CollectFails`, `FlushFails`, `ExpireFails`, `RenameFails`).

**Upload** is about one path, because uploads to different paths share nothing.
`disk` is what survives a crash: upload records, the stale index, the bytes of
staging files and blobs, the published objects. A byte is a value a client
wrote, `Zero` (declared by `Truncate`) or `Hole` (neither written nor
inherited; the file system reads it as zero, which is why the model keeps it
apart). `handle` holds the fields of `UploadHandle`. The handle's mutex makes
a write atomic with the base it resolves first, so `writeLocked`, `truncate`
and `settle` are functions on a *world* `[disk, h, err]`; `Close` is then
broken up at each of its transactions and renames (`MarkFinalizing`,
`MoveIntoPlace`, `Publish`, `MarkInterrupted`, `MarkFailed`). `Coverage` and
`StreamHasher` are the two algorithms behind it, one operator per method. The
SHA-256 digest is the sequence of bytes fed to it: two digests are equal when
the contents are.

**Service** takes the store from the outside. `update` is three steps, the
commit, `Apply` and `Signal`, because other goroutines run between them. A
long poll goes through the steps of the handler: subscribe, find, take, check
the deadline, look for the next delayed object, sleep. The tenant's channel is
the set of polls that hold the open one. An upload is admitted, gets a slot,
opens, and closes; `phase` is where `RunWithOptions` is after the signal.

**Relay** is the promise without the mechanism: a file is absent, queued, set
aside (held or parked), out with one holder under a lease never used before,
delivered, dropped, or forgotten. A withdrawn file that is out may only end.
One step may move several files, each along its own life. `RelayRefinement`
reads the status of a file off the catalog (its object, else its tombstone) and
its holder off the lease; `ImplementsRelay` says that every step of every
goroutine, the maintenance and the online rebuild included, is a step of
`Relay` or leaves it alone.

**Multipart** keeps a directory per upload: meta record, part files, part
records, the temporary record whose name two requests share, completion record
and time of the last change. A request is a goroutine that retains the lock
object from the map, waits for it, works file by file, unlocks and releases.
The lock is Go's `RWMutex`, with its preference for waiting writers. An ETag is
the content it was computed from. `os.RemoveAll` removes files in any order.
The store is seen through one step, `CompletePublish`; what `Close` does in
detail is in `Upload`. Requests may fail at each file operation, and a crash
may come at any point.

**Accounts** has the two files, the commands that rewrite them (each read and
each write a step, with the lock it really holds) and the server: start of the
registry, the watcher and the S3 handler, polls, signals and administrator
requests, and a reload broken up into load, install, copy of the subscribers
and one call for each. Only which accounts a list has is modelled. The history
variable `due` adds up the written changes; `crossed` and `gap` record the
situations in which the code gives no guarantee.

**Capacity** has two independent halves. Slots: a tenant state, the semaphore
it refers to at the moment, older semaphores still in use. Space: the disk, a
measurement in three steps (`statfs`, what is reserved, the snapshot), jobs
that reserve before they write, and clients that write without reservation.
`outside` counts the units no reservation accounts for.

**Netguard** keeps connections and attempts to authenticate apart. A connection
may be closed while an attempt that came over it is being checked, and it may
carry several: the download API and S3 ask `Allow` at every request, HTTP/2
sends requests side by side, and S3 records a failure also after the handler has
answered with a 403 (`Fail` of an attempt that is `serving`). SFTP and FTP
(`Dialogues`) make one attempt after the other and none after the login.

**Certstore** numbers the issues of a certificate; a pair loads when both files
are of one issue. Each look at a file is a step.

**How the modules meet.** `Delivery` and `Upload` share the published object:
`Upload` ends in `Publish`, which is where `Delivery` begins, and `Drop` and
`Unlink` of `Upload` stand for every way `Delivery` deletes an object.
`Multipart` ends in an upload of its own and is one of the jobs of `Capacity`;
the lists `Accounts` installs are what `SyncTenants` of `Capacity` is called
with, at any time; its reload is `AccountsReload` of `Certstore`. `Service`
keeps of `Delivery` and `Upload` what a counter or a poll can see. Each module
lets the others do at its boundary whatever they may do at all, so they need no
common state space.

## 3. The runs

States are distinct states; times are for two workers.

| Run | What it asks | Properties | Size |
|---|---|---|---|
| `Leases` | two claimers, the lease sweep, an uploader that withdraws and overwrites, an online rebuild | `IndexesAgree`, `OneHolder`, `DelayHonoured`, `ImplementsRelay` | 547,000, 2:20 |
| `Namespace` | upload, overwrite, remove, rename over a hold pattern, batches, dead letters, deletion; one tenant supersedes, one keeps. Directories made, removed and renamed around files being delivered | `IndexesAgree`, `CurrentOnly`, `AttemptBudget`, `HeldBack`, `ImplementsRelay` | 299,000, 3:00 |
| `Garbage` | every kind of deletion, both maintenance passes with lists that grow stale, a crash, a failing write or unlink | `BlobPresent`, `NoLeak`, `TombstoneKept`, `AbandonedOnly` | 1,370,000, 2:40 |
| `Progress` | leases and garbage under fairness, with a crash | `LapsedLeaseEnds`, `GarbageCollected` | 235,000, 2:20 |
| `FailedRename` | *violated*: section 6 | `UnlinkedAfterCommit` | |
| `UploadContent` | any writes, appends and truncations of one session after another | `ContentVerified`, `CoverageExact` | 417,000, 2:10 |
| `UploadLife` | two sessions on one path, a crash and a failure anywhere, recovery, reclaiming | `HandleBacked`, `AckDurable`, `StaleAgrees`, `FilesKnown`, `PartialKept` | 805,000, 1:20 |
| `UploadProgress` | recovery and maintenance under fairness, with a crash | `LeftoversRemoved`, `RestartCompletes` | 63,000, 0:30 |
| `UploadHole` | *violated*: section 6 | `NoHoles` | |
| `Server` | seven scenes: the store front through a shutdown; account commands against each other; commands against a starting and reloading server; slots; space; connections; certificates | `CountersExact`, `NoLostWakeup`, `QuotaBound`, `NothingLost`, `AccountsApplied`, `SlotsExact`, `ReservedFits`, `ConnsCounted`, `FailureBudget`, `CertPickedUp` | 762,000, 3:00 |
| `LegacyReload` | *violated*: section 6 | `AppliedWithoutRestart` | |
| `Multipart` | five scenes: one part sent twice at once with failures; two parts and a crash; the sweep and an abort; the same after a crash; two uploads and one place to assemble | `LifecycleExclusive`, `CompletedOnce`, `AssembledAsNamed`, `IdleOnly`, `AbandonedRemoved`, `RequestsEnd` | 116,000, 3:10 |

Each property is stated in words where it is defined.

**Scenes.** The MC modules let some of the actors act, so that the others do
not blow up a question they have no part in. A variable `scene` is chosen in
the initial state and never changes; a behaviour of a scene is a behaviour of
the module's `Spec`, and every action is in one of them. In `MCServer` the
modules share no variable, so a behaviour of the run is one of the module whose
scene it is, with the others at rest. `MCUpload` restricts `UploadLife`
further: sessions write one byte at a time, do not truncate and meet a transfer
error only when they close, a crash comes while something is under way, a
directory made at the path stays, an object is delivered while a session wants
to continue it. `UploadContent` has what these leave out, with one session.

**Bounds.** Two objects (the old and the new version of a path, or two files)
and as many leases as it takes for a lease to be given out again after it was
lost. A clock of one to three ticks with a lease of one: granted, at its
deadline, past it. `MaxAttempts` is 2: a first failure is retried, a second
parks. One crash, one failure and one rebuild, at any point. `MaxSeq` bounds
only the queue positions that renames back and forth would draw without end.
Three bytes and a reorder buffer of two let writes leave a gap, fill it, overlap,
overflow the buffer and truncate into each. Two upload ids are one upload to
interrupt and one to race it. In the scenes of `Server`: two sessions compete
for one slot and a quota of one, and a poll that waits two ticks meets objects
delayed by one, so that its timer may be due before its deadline; three commands for two accounts (one to migrate, two to race)
without the server, two for one account with it, one reload on demand and one failure; two
uploads under limits of one and two that change three times, so that an upload
outlives its semaphore twice; a disk of five units with a floor of one and two
jobs of two, so that both just fit, and after one unit written outside only one
does; three connections of two addresses, one of them a dialogue, under limits
of two, with two attempts at a time, over one connection or two, and a budget of
one, so that the second failure can only come from an attempt that was let
through before the first was recorded; three issues of a certificate, one handshake and one reload that
overlap. In `Multipart`: two requests and the sweep meet on one upload, two
parts are enough for a wrong order and for a mixture, one place to assemble
makes the second completion wait. Model values are permuted where the
specification treats them alike, never in a run with a liveness property.

**Deadlock** is not checked (`CHECK_DEADLOCK FALSE`): when the ids, the leases
and the clock of an instance are used up, nothing is left to do, which is no
state of the program. What would be a deadlock of the program, a poll, a
lease or garbage that nothing ends, is the subject of the liveness
properties.

**Fairness.** `Progress`: the clock runs on, the maintenance goroutine runs on
(weak fairness of its next step), its `select` does not ignore the slow ticker
for ever (strong fairness of `MaintSlow`: Go chooses at random among ready
cases), and a request that has committed goes on to unlink its victims.
`UploadProgress`: a call under way finishes, a restarted process runs
`Recover`, the maintenance loop takes every upload on its list and `Reconcile`
visits every file. No transaction fails for ever there (`MaxFailures = 0`):
with a disk that refuses every write nothing can be promised. `Server`:
a command that runs ends, the server starts, the watcher's ticker fires and the
goroutine of a reload runs (weak fairness); time passes, clients go on
connecting, and a load of the certificate goes on. That clients connect is the
only thing asked of them: without a handshake nobody is served the old
certificate either. `Multipart`: a request under way goes on (a client that
falls silent is cut off, `PartDropped`), the sweep's ticker fires, and the mutex
and the channel do not pass over one who waits (strong fairness of `Lock` and
`Assemble`): `sync.RWMutex` and channels of Go serve waiters in turn. Otherwise
no client is obliged to anything.

## 4. What the runs show

*Delivery.* After any interleaving the indexes hold exactly what the primary
records call for, and a rebuild gives the same; files and directories never
share a name. A lease has one object and a leased object one claim. The recheck
of state and queue position in the second transaction of `Claim` is what
`OneHolder` and `DelayHonoured` rest on; the mutants drop one or the other. The
store implements `Relay`: a version that was overwritten, removed or renamed
away while it was being delivered is never handed out again, a lease is never
reused, nothing leaves the catalog but into a tombstone that tells why, and
nothing that ended comes back. A file under a temporary name is offered only
when it was parked, renamed and requeued. Whatever crashes, a blob belongs to
an object or is listed in `gc`; the list is cleared only of blobs that are
gone.

*Upload.* What is published has no gap, as long as no crash interrupts a sparse
file, and the digest in the catalog is that of the blob whether it comes from
the streaming hasher, from reading the file, or from recovery. Coverage is
exactly the set of bytes written or inherited after any writes and truncations.
Two sessions that found the same partial never write to the same file. An
acknowledged upload survives a crash at any point of `Close`. Partial uploads
are kept until they are old, and go when they are.

*Multipart.* Whoever completes, aborts or sweeps an upload is alone with it,
although lock objects come and go. A retried completion gets the first answer;
a second object appears only when the completion record could not be written,
or after a removal that a crash cut off. An object is made of the contents
named by their ETags, except for a part number sent by two requests at once or
cut off between its file and its record. The sweep takes nothing away from an
upload that one of its requests used within the TTL before the sweep began, be
it before the second look, while the sweep waited for the lock or between two
removed files (`IdleOnly`; a creation that itself takes as long as the TTL is
not under the lock), and everything abandoned goes. Nobody waits for
ever for a lock or for a place to assemble.

*Server.* A poll does not sleep on deliverable work, with one exception the
property spells out, nor past the beginning of a shutdown. The counters equal
the catalog up to deltas not applied yet. The quota can be exceeded by one
object for each concurrent session less one, and by no more. No account change
is undone by another that runs at the same time, the migration included, but
for a command under the other lock. Every part of the server ends up with the
accounts on disk, but for the five situations `AccountsApplied` names. Slots
survive changes of the limit. Two reservations never count on the same space.
Connections are counted exactly. The failures of an address within the window
exceed the budget by no more than the attempts that were under way together,
less one: the limiter bounds rounds of attempts, not the attempts of one round. A renewed certificate is served in the end,
even when loads overlap and a renewal before it stopped halfway.

## 5. What is proved

`DeliveryProofs` proves, for any sets of ids, leases, tenants, paths and
claimers, any policy and any number of crashes, failures and rebuilds:

* `TypeCorrect`: `Spec => []TypeOK` (no run checks `TypeOK`: it holds for all
  instances);
* `NothingLeaks`: `Spec => []NoLeak`, every blob on disk belongs to an object
  or is listed in the `gc` bucket.

The assumptions are those named in `Catalog` (`CatalogAssumption`: ids are
finite, a held name depends on its last segment only, `MaxAttempts` is
positive) and in `Delivery` (`DeliveryAssumption`: bounds are natural numbers,
leases last at least one tick). TLC evaluates them on every run of
`MCDelivery`.

`NoLeak` is not inductive. A step of `flushGC` removes from the `gc` bucket the
ids that `collect` noted as unlinked; seen from `NoLeak` alone one of them
might still have its blob. The invariant `Accounted` adds that no id in
`gcDone` or in the list being flushed has a blob, and that every id in use was
drawn before, because an upload that drew such an id again would bring the
blob back. Typing is needed along with it: the steps of `Accounted` use that
the domains of the buckets are sets of ids.

`CatalogProofs` has one lemma per transaction, `Keeps(db, r)`: the result is a
catalog of the right type which accounts for the same ids. Only `publish`
(which adds an id) and `flushGC` (which takes some away) are stated
differently. `DeliveryProofs` then needs one lemma per group of actions
(`UploaderInv`, `ClaimStepInv`, `RequestInv`, `MaintenanceInv`, `OtherInv`),
each of which cites the lemmas of the transactions it runs.

Only model-checked: all other properties and the refinement of `Relay`.
Liveness, and whatever involves `ENABLED`, is beyond the prover, and so is what
a recursively defined function computes for every input (`drain` of `StreamHasher`, the fold in `Coverage`).

## 6. Where the code and its words disagree

Three runs end in a counterexample.

* **`FailedRename`.** An overwriting `RenameWith` collects its victims inside
  the transaction and unlinks them whether or not it committed
  (`namespace.go:166`; `ExpireLeases` does the same at `maintain.go:199`). If
  the commit fails, the file that would have been replaced stays in the catalog
  without its blob. `BlobPresent` therefore speaks of behaviours in which no
  such commit failed.
* **`UploadHole`.** A session writes at offset 1 before offset 0, as pipelined
  SFTP does, and the process dies. `Recover` marks the upload interrupted
  without cutting its file back to the gap-free prefix, as `interruptHandle`
  would; a client is shown the full size, resumes there, and `adoptInterrupted`
  counts all of it as covered. The gap is published as zeros.
* **`LegacyReload`.** A server started on a configuration with embedded accounts
  polls `config.yaml` (`app.go:217`). The first account command moves the
  accounts to `accounts.yaml`; it changes both files and is applied. Later
  commands change `accounts.yaml` alone, and the server does not see them until
  a signal, a request or a restart. `account.go:118` promises "within 5
  seconds; no restart is needed". The run starts from a server in service, so
  none of the other gaps is needed.

Others met while modelling. The models follow the code in each; no run is
devoted to them.

* The API delete checks that an object is parked in one transaction and deletes
  in another (`api/server.go:436`): one requeued in between is deleted while
  READY, though the message at line 439 says only parked objects can be.
* A parked object can be renamed to a held name, and `Requeue` then delivers it
  under that name (`delivery.go:314`; `model.go:17` says it is not delivered).
* `Commit` does not look at the deadline (`delivery.go:402`): an expired lease
  commits until the sweep has run; `docs/api.md:22` lists it as a mismatch.
* `RebuildIndexes` numbers the queue from 1 again, so a claim that searched
  before it may take a delayed entry for the one it saw; `model.go:51` says
  that a queue position tells stale entries from the live one.
  `DelayHonoured` is stated for behaviours without a rebuild.
* Renaming an old version over a newer one that is being delivered leaves the
  higher number with the withdrawn object (`namespace.go:192`;
  `docs/api.md:61`).
* `collectTreeMoves` stops at a sibling such as `dir-x`, which sorts between
  `dir` and `dir/`, and leaves empty directories below `dir` behind
  (`namespace.go:308`).
* An object that comes due after `Claim` looked and before `NextVisible` does
  is seen by neither, and the poll waits for its deadline
  (`api/server.go:259`). `NoLostWakeup` names this exception.
* An append whose base is deleted between the read of the candidates and the
  copy leaves an UPLOADING record and its file until the next restart
  (`upload.go:326`), and so does a transaction of `markUpload` that fails.
* `copyPrefix` takes a source that has become shorter for a full one
  (`upload.go:641`), and `appendOffset` takes the first packet to arrive for
  the first one sent (`upload.go:438`).
* `RebuildIndexes` sets the counters from a walk that concurrent transactions
  do not wait for (`schema.go:184`); until a restart they may stay off by what
  was committed meanwhile.
* Recovery publishes without the metadata of the upload (`maintain.go:82`).
* `config.Update` (`cert renew --new-ca`) rewrites `accounts.yaml` under the lock
  of `config.yaml`, `UpdateAccounts` under the lock of `accounts.yaml`
  (`config.go:557`): side by side one may undo the other. `NothingLost` excepts
  this overlap.
* Reloads are not serialised (`app.go:109`, `registry.go:145`): two at once may
  leave the registry, the slots and the S3 keys with different lists. A load
  that fails is not tried again before the file changes (`app.go:239`), a
  change between the start and the watcher's first look is not seen
  (`app.go:227`), and the S3 handler may miss the list installed between its
  construction and its subscription (`s3/server.go:86`). `AccountsApplied`
  names all of these.
* Two requests for one part number share the name of the temporary record
  (`s3/server.go:571`) and may leave the file of one with the record of the
  other; a crash between the two does the same. `AssembledAsNamed` excepts
  these parts.
* A completion whose record could not be written publishes again when it is
  retried (`s3/server.go:824`); `CompletedOnce` allows it.
* `AcquireUpload` reads the semaphore of a tenant state without the lock under
  which `SyncTenants` exchanges it (`controller.go:384`).

## 7. Abstractions

* A crash is the death of the process: what was written stays. The loss of
  unsynced bytes in a power failure is not modelled; `Close` syncs the file and
  the directory before it publishes.
* A commit of bbolt happens or fails as a whole, and its failure is reported.
* Identifiers drawn at random do not repeat.
* `startFresh` creates file and record in one step; a crash in between leaves
  the file alone, which `Crash` may do. The age `Reconcile` asks for, which
  keeps it from taking a file whose record is on its way, is therefore left out.
* A short write is a shorter write followed by a transfer error.
* Whether a previous version at the path of an `Upload` is leased or kept by
  the policy is left open (`supersede`); `Catalog` has the rule.
* The watermarks of the capacity controller may refuse any upload. In
  `Capacity`, percentages and byte counts are numbers of free units.
* Two writes of a file never leave the same modification time. A signal that
  arrives while the watcher reloads is taken up afterwards.
* `config.yaml` and `accounts.yaml` are read by `Load` in one step: the embedded
  list is emptied only after the other file is there. A command is not
  interrupted between its two files.
* `os.WriteFile` of a part record is one step.
* In `Service` every object has size 1, so bytes and objects are one counter.

## 8. Bounds that matter

`QuotaBound`, `FailureBudget` and `ReservedFits` are stated as inequalities with
the overshoot the code really has, so that an instance with more sessions,
attempts or jobs would show the same bound. Crashes, failures and rebuilds
are one each per behaviour; a fault that needs two crashes in a row would go
unseen, except where `NoLeak` is proved for any number.

## 9. Not modelled

* *Rates* of the capacity controller (averages, budget, shares, limiters):
  floating-point control of durations; nothing discrete depends on them except
  the watermarks, which are modelled. The long sleep of a write that arrived
  while the limit was one byte per second belongs here.
* *Stall guard*: deadlines that close connections, which the model closes at any
  time anyway.
* The transport and session layers of SSH, FTP and HTTP, and TLS: libraries.
* YAML, secrets, validation, metrics, the client bundle, the mount table, flags
  and the first installation: sequential code that parses or writes files.
* Listings, statistics and the content download: they change nothing.
* `PurgeTenant` beyond its deletions one by one, `UpdateObject`, and protocol
  metadata.
* The short copy of a prefix (`upload.go:641`) takes two sessions, truncation
  and three bytes at once, which is beyond TLC in `UploadLife`. What a client
  meant by an append whose packets arrive out of order (`upload.go:438`) is not
  part of the program's state.

## 10. What could follow

Proofs of `OneHolder` and the lease part of `IndexesAgree` from the transaction
lemmas; of `BlobPresent`, which needs that ids in `gc` and live ids are apart; of
the steps of `Relay`; of `SlotsExact`, `ConnsCounted` and `LifecycleExclusive`,
whose invariants are close to inductive; and lemmas about `Coverage`.
