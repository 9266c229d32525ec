# Verification of task-googlecloud

TLA+ specifications of the program in `src/`, checked with TLC on small instances and, for
the results at the end, proved with TLAPS for every value of the constants.

`task-googlecloud` has two workflows. `normalize` renames the objects of one bucket to NFC;
`upload` renames local files to NFC and uploads them to one bucket per directory. Both talk to
Cloud Storage one request at a time, hold a lock object in every bucket they touch, and try to
undo everything when a request fails or a signal arrives. What makes them hard is that a
rename is a copy and a delete, that an answer may be lost, that a signal may arrive at any
moment (during the undo too), and that other runs work on the same buckets.

## 1. Inventory

| Component | Source | State | Operations | Correct when |
|---|---|---|---|---|
| AppError | `error.rs` | the error value | classification: reached, sent, interrupted, restored generation, retryable | an ambiguous failure is never taken for a harmless one |
| InterruptFlag | `lib.rs` | one flag, set by the signal handler | `check`, `clear_for_rollback` | a signal stops the work and not its undo |
| StorageTransport | `storage_transport.rs` | HTTP client, token source | `send_body`, `send_json`, `send_resumable` | says truthfully whether a request may have left |
| Object moves | `storage.rs`, `object_move.rs` | generations of source and target | `move_object`, `rollback_object`, `cleanup_object`, confirmations | no content is lost, no foreign version is touched |
| RemoteTransaction | `transaction.rs` | staged and finalized changes | `stage`, `finalize`, `rollback_changes` | all or nothing, or an error that says so |
| Bucket lock | `storage.rs` | the lock object, the active buckets of the run | `with_bucket_locks`, acquire, recover, release | one run per bucket; no lock is left without a report |
| Normalize | `normalize.rs`, `normalization_plan.rs`, `object_path.rs` | the listing and the plan | list, plan, stage, finalize, roll back | as for the transaction |
| Upload | `upload.rs` | the plan, staged objects | plan, upload, publish, roll back | as for the transaction; published bytes are the validated ones |
| Small upload | `storage.rs` | attempt, fingerprint | `upload_file_with_retries`, `upload_file_checked` | retries neither overwrite nor hide an object |
| Upload source | `upload_source.rs` | identities, fingerprint | `open`, `capture`, `matches_file` | a replaced or edited file is noticed |
| Resumable upload | `storage.rs` | session, offset, token | start, chunk, query, refresh, cancel | goes on at the service's offset, ends, and never passes a mixture of versions off as the file |
| Local renames | `local.rs`, `upload.rs` | the directory, the renames done | apply, roll back | all renamed or all as they were, or an error that says so |
| Atomic rename | `atomic_rename.rs` | descriptors and identities | one exclusive rename between identity checks | nothing is overwritten, no stranger's file is renamed unnoticed |
| File discovery | `upload.rs` | none | a directory walk that records identities | |
| Cloud commands | `cloud.rs` | child process, pipe threads | set project, login, token | returns on exit, timeout or signal, with all output and nothing left running |
| CLI, progress, configuration | `main.rs`, `upload.rs`, `compose.yaml` | none | | |

Interaction: a workflow runs inside `with_bucket_locks`; it drives a RemoteTransaction, whose
changes are object moves (or uploads) that send requests through StorageTransport; an error
travels back the same way and every level asks AppError what it may conclude. The flag is
shared with the signal handler; the bucket is shared with other runs, other writers and
requests that the client has given up on; the input directory is shared with other processes.
A run starts with Cloud commands, whose children run beside it with one thread per pipe. The
program is otherwise sequential. In `upload`, the local renames enclose the remote
transaction: they come first and are undone last.

The hazards, each with its line and the properties that cover it, are in `PROJECT.json`.

## 2. Modules

```
AppError <- RemoteMoves <- RemoteTransaction <- Normalize <- MCNormalize
   ^             ^    ^             ^               |  implements ObjectRenames
   |             |    |             |
   |             |    +-- ResumableUpload <- Upload <- MCUpload (Upload extends both)
   +-- BucketLock <- MCBucketLock
   |       |  implements AtomicLock
   +-- LocalRenames <- MCLocalRenames
   +-- CloudCommand <- MCCloudCommand
```

The theorems and their lemmas are in modules of their own, each of which extends the module it is
about:

```
RemoteMovesProofs <- RemoteOwnershipProofs <- RemoteTransactionProofs <- NormalizeProofs
                                                                      <- UploadProofs
BucketLockProofs      CloudCommandProofs      LocalRenamesProofs
```

**AppError.** An error is a record of the variant, the flag "wrapped in Rollback" and the
restored generation. The variants are split where the code looks inside them: `HttpConnect` is
an HTTP error for which reqwest says `is_connect`, `Http` every other transport error,
`ServerError` and `Unauthorized` the answers 5xx and 401 to a chunk or a query. Where a kind
stands for retryable and for other failures, `IsRetryable...` is a set of verdicts. `ReportsLeftovers` is what the operator sees: manual recovery or a failed rollback.

**RemoteMoves.** One move, its undo and its confirmation, one action per request; `op` is the
call stack. `objects` maps every name to its live version (generation and content). The bucket
has no object versioning: a deleted version is gone. `Send(request, e)` is `send_request`: the
request does not leave (`Unsent`), is answered (`Answered`), or its answer is lost
(`Abandoned`), in which case it was executed, was not, or, with `LateDelivery`, will be.
`Signal` sets the flag between two requests. `ForeignWrite` and `ForeignDelete` are writers
that ignore the lock. A rewrite takes up to `MaxPages` responses with `done = false`.
`Status`, `Process` and `Generation` are the service, as the requests of `storage.rs` use it.

**RemoteTransaction.** `execute`, `finalize` and `rollback_changes`: the recorded changes, the
phase and the index; the owner says what one change means.

**Normalize.** From a listing to the result of `process_moves`: collisions and oversized names
end the run before the first request. NFC and the temporary names are constant functions with
the assumptions the code justifies (NFC is idempotent; the suffix of a temporary name is a
new UUID). The model starts after a successful listing; `PlanEntry` mirrors `plan_moves`.

**ObjectRenames.** What `normalize` promises about the bucket, without requests: contents gain and
lose names one at a time, never the last one and never a name that is taken, and the run ends
renamed, unchanged, or by telling the operator to look. The mapping (`Locations`, `Told` in
Normalize) reads the names off the live objects and the ending off the result; a refused
connection counts as "look" (finding 2 below).

**Upload.** From `plan_uploads` to the result of `upload_planned_files`. One small upload is: take the
fingerprint, then up to `MaxAttempts` times open and compare the file, send it, compare it
again. A large file is opened, sent by a resumable upload and then compared. Between any two
steps another process may edit or replace a file; the body of a request is what the file holds
when the request is sent, so an edit in the middle of the stream is one of the two contents, and
an edit leaves bytes of the same length that the file has not had before. A file with the
reserved name of the lock object is staged and then rejected (`RejectBucketLockObject`). That is
the check of the storage client, whoever calls it; `run` itself never comes to it, because
`discover_uploads` skips names that start with a dot.

**ResumableUpload.** `upload_resumable_locked`: `transfer` is the client (where it is, attempt,
offset), `session` the service (how many units it has kept, and of which content), `late` a
chunk that was given up and may still arrive. The service may keep any part of a chunk, complete
the object with the last chunk or with a query, answer without a range while it has kept nothing,
forget units it had acknowledged (`ForgetUnits`), and accept or refuse a cancellation. A session
that got chunks of two versions of a file holds `Mixed`. The token is fetched once and refreshed on
401. `doubted` is a history variable: an answer in doubt was followed by another request.

**LocalRenames.** `run` of `upload.rs` with the remote half reduced to opening every file under its
new name and identity (`UploadFile`) and to success or failure. A rename is
the sequence of system calls of `rename_without_overwrite_with_identity`: open the directory
and compare its identity, compare the file's, decide whether source and target are one entry
(`same_path_entry`), rename without replacing, compare again. `same_path_entry` is four actions:
look the source up (`ReadMetadata`), look the target up (`ReadTarget`), read the directory for names
with the target's NFC form, one name at a time and in any order (`ReadDirectory`), and decide
(`SamePathEntry`). `entries` maps the names of two
directories to inodes: the captured one, and another one, with hard links to the same files,
that may take the place of the input root. `Meddle` puts, links and removes files between any two
calls, and `placed` remembers what it did; `insensitive` says whether the file system resolves names
up to NFC. After a failed upload
the undo gets all entries in any order, because the code collects them from a `HashMap`.

**CloudCommand.** `set_project` and `login` as a run starts them, one child process after the other:
the polling loop of `wait_for_child_with_input` with its three exits, one thread per pipe, the
joins. A child is a sequence of reads and writes of one unit each; it may stop anywhere. A pipe
holds `Capacity` units. Time is one event, `Timeout`.

**BucketLock.** `with_bucket_locks` for several concurrent runs. The locks of a run are created
in sorted order, an ambiguous creation is looked up and removed (`RecoverBody`,
`RecoverGeneration`, `RecoverDelete`), nested calls find the buckets active (`Operation`), and
the release goes backwards. `Crash` is a forced kill, also in the middle of a request;
`RemoveLock` is the operator of `src/README.md:92-98`, who removes only locks of runs that are
not active.

**AtomicLock.** What `with_bucket_locks` promises to its callers: a run enters all the buckets it asked for in
one step while nobody is inside any of them. The mapping (`Inside` in BucketLock) is the set of
active buckets of a run that is in its operation.

## 3. Runs

| Run | Instance | Shows |
|---|---|---|
| `normalize_safety` | listings: two moves beside a bystander, a collision, an oversized name, nothing; 3 faults of every kind, 2 signals, 1 extra page | `ImplementsRenames`; `NoContentLoss`, `CopyBeforeDelete`; `SingleFailureContained`: one disturbance leaves at most one move to recover, and after a lone signal every rollback succeeds; `Termination` |
| `normalize_writers` | one move, 2 foreign writes or deletes, 1 fault, 1 signal, late requests | `OthersUntouched` |
| `normalize_late` | one move, 1 signal, late requests | violates `NoContentLoss` |
| `normalize_connect` | one move, 1 refused connection | violates `RefusedMeansUnchanged` |
| `upload_safety` | two small files, one large file of 3 units in chunks of 2, a file with the name of the lock object, an oversized name, a target that may exist; 2 attempts, 2 edits, 1 removed file, 2 faults of every kind, 1 signal | `PublishedAsValidated`, `AllOrNothing` |
| `upload_writers` | a small file or a large one of 2 chunks, 2 attempts, 1 edit, 2 foreign writes or deletes, 1 broken or refused exchange, 1 signal, late requests and chunks | `PublishedAsValidated`, `OthersUntouched`, `Termination` |
| `upload_retry` | one file, 2 attempts, 1 broken exchange, 1 signal | violates `UnchangedUnlessReported` |
| `lock_exclusion` | 3 runs, 2 buckets, 1 fault, 1 kill, late requests | `MutualExclusion`, `NoSelfConflict`, `ImplementsAtomicLock` |
| `lock_contention` | 2 runs that name two buckets in opposite orders, 2 faults of every kind, 2 signals | `LocksReturned`, `SomeRunWins`, `Termination` |
| `lock_signal` | 1 signal | violates `SignalKeepsSuccess` |
| `cloud_commands` | pipes of 1 unit, a script of 2; children that write before they read, read and write in turn, or do neither; 1 signal, the timeout of every command | `NothingLeftRunning`, `OutputComplete`, `ReturnsWhenChildRuns`, `ReturnsByTimeout` |
| `local_renames` | two files to rename beside one that is normalized, both kinds of file system; 1 failing system call, 1 signal, 2 changes by other processes; a single file with 3 changes | `LocalAllOrNothing`, `StrangersMovedReported`, `ReplacedRootUntouched`, `NoNameLeft`, `NothingOverwritten`, `Termination` |

`TypeOK` is checked once per system, in `normalize_safety`, `upload_safety`, `lock_exclusion`,
`cloud_commands` and `local_renames`.

The bounds. Two moves are the smallest plan in which one change is finalized while another is
only staged, and the rollback handles both lists. Two failures are needed for a failure inside
the undo of a failure, three for one inside the confirmation after that. One extra page
distinguishes the first rewrite response from later ones. Two attempts are the smallest number
with a retry; the code has ten, and an attempt depends on the earlier ones only through the
bucket, the session and the local file. A file of 3 units in chunks of 2 has a full chunk, a
short last one, and a chunk that is kept in part. Two runs that want two
buckets in opposite orders are the smallest cycle; a third run takes a bucket over while two
others recover. The instance of `lock_exclusion` has no signals: to the lock protocol a signal is
a lost answer or a request that is not sent, and `lock_contention` has both. A pipe of one unit
fills with the first write, and a child that writes two units before it reads blocks on any
program that does not drain it. Two local renames are the smallest number with one to undo when the other
fails, and two changes by other processes put a file aside and another one in its place. Three
changes, in the instance with one file, are what it takes to reach the exception of `NoNameLeft`.

`NoNameLeft` has an exception because `same_path_entry` looks the two names up and counts the
equivalent names at different times. On a file system that tells the names apart, another process
links the file under its normalized name, the lookups find one file, the process removes the link,
and the scan counts one name: the rename is skipped as if the two names were an alias. The upload
then does not find the file under its new name and the run fails, with an error of the undo
although that file was never renamed; only if the link is made again before the upload opens it
does the run succeed with the old name in place. Without the exception TLC finds this behaviour with three
changes; nothing in the repository promises anything about it, so it is a limit of the property
and not a finding.

The four violations are disagreements between the code and what it says of itself; the
findings in `PROJECT.json` quote the lines.

1. A DELETE that was abandoned for a signal may be executed after the undo has looked up the
   source and removed the copy (`normalize_late`).
2. A refused connection after a successful rewrite counts as "nothing was sent", and the copy
   is left without a report (`normalize_connect`).
3. The retry loop of an upload keeps the last error only, so an object created by an attempt
   whose answer was lost is left without a report when the next attempt is never sent (`upload_retry`).
4. A signal during the DELETE that releases a lock turns a committed success into an error
   (`lock_signal`).

They are also the reason for the limits of the passing runs. `NoContentLoss` is checked without
late requests (finding 1). `ImplementsRenames` counts a refused connection as a report, and
`AllOrNothing` leaves it out (finding 2). `AllOrNothing` holds an upload to a plain error only while no second
disturbance follows an answer in doubt (`doubted`, finding 3). The resumable upload has the same
gap: the answer to the last chunk is lost, the query that follows finds the object not there yet
or fails, the file is then removed or a signal arrives, and the cancellation of the session,
which is complete by now, is accepted; the error is plain and the staged object stays.

**Fairness.** `FairSpec` is weak fairness of the program's own steps: every request has a
timeout (`REQUEST_TIMEOUT`, `UPLOAD_TIMEOUT` in `storage_transport.rs`), so a request is
answered or fails, and no step waits for another run (a lock conflict is an error, not a
wait). In LocalRenames it says that system calls return. In CloudCommand the operating system
schedules the main thread and each pipe thread (`WF` of `MainStep`, `WriteInput` and `ReadOutput`);
the child and the clock are not assumed to go on. They are the hypotheses of the two liveness
properties: if the child runs, every command returns without the timeout, and if the timeout
comes, every command returns without the child. No fairness is assumed of signals, faults, other
writers, other processes or late requests.
Deadlock is checked in every run; a finished workflow may only stutter (`Terminated`).

## 4. Proofs

Every theorem is about all values of the constants: any names, files, listings, runs, buckets and
chunk sizes, any number of faults, signals, attempts, pages, edits, kills and other writers. Where
one needs more than the assumptions of the modules, it says so. Each states a property that a run
checks.

The assumptions on constants are those of the code: NFC is idempotent, temporary and staging names
are new UUIDs, a listing names every object once, the bounds are natural numbers, no run has the
token `"none"` (tokens are UUIDs), and an edit leaves bytes that no file has had before (the
fingerprint cannot notice an edit that is taken back; section 5).

**Moves and transactions** (`RemoteMovesProofs`, `RemoteOwnershipProofs`,
`RemoteTransactionProofs`) hold the lemmas that both workflows use. Three facts about one
operation carry the rest:

- `CopyBeforeDelete`: from the rewrite on the target is there and agrees with what is left of the
  source; while an undo deletes the target, the source is there.
- `OwnedInv`: every generation that the operation or a request on its way may still delete is one
  of the run's (`Mine`: it was given out, and not to another writer). Generations are given out
  once, and an operation learns one only from the answer to its own write, or from a look-up
  whose version it has copied. `ChangesOwned` adds the generations recorded for the rollback.
- `OpSettled`: a move that returns without an error has removed its source, one that fails with a
  plain error has left nothing under its target, and neither has an undo that succeeds.

**`NormalizeProofs`**

- `TypeCorrect`: `Spec => []TypeOK`.
- `CopyKept` (`CopyBeforeDelete`) and `ContentPreserved` (`NoContentLoss`), assuming
  `~LateDelivery` and `MaxForeign = 0`. `NoContentLoss` is not inductive: in the middle of a move
  it depends on which of the two objects may be deleted. With `CopyBeforeDelete`, a delete is
  always a delete of one of two equal contents, and a rewrite only adds one.
- `StrangersKept`: `Spec => OthersUntouched`, with other writers and late requests, from
  `ChangesOwned`.
- `RenamesImplemented`: `Spec => ImplementsRenames`, assuming `~LateDelivery` and
  `MaxForeign = 0`: finding 1 shows what a late request does, and another writer may delete the
  last copy. A step of an operation is a `Copy` or a `Drop` by
  `CopyBeforeDelete`. The ending needs `RenamesInv`: what is under a name is the listed object or a
  copy of the source of the move the name belongs to (`ContentsInv`), and which names are free
  (`FreeInv`): targets while the run stages, temporary names before it comes to them, sources
  after it, and during the rollback, as long as the error is plain, every name that has been
  dealt with. Then a run that ends without an error holds each content under its new name only,
  and one that ends with a plain error under its old name only.
- `DisturbanceContained`: `Spec => []SingleFailureContained`, under the same two assumptions. The
  property counts disturbances, so its invariant has to say what an operation still does before and
  after the one that is allowed. `OpCourse` (in `RemoteOwnershipProofs`) gives, for every point of
  an operation that is on course, which of its two objects are there and under which generation;
  every request is then answered as the program expects, before the disturbance and after it, and
  an undo cannot fail. `ContainedInv` says that every move but at most one (`Spared`) is where the
  records say (`InPlace`), with the recorded generation, or on course (`UnderWay`). The one that is
  spared has failed; if it was a signal that stopped it, its staged object is nevertheless where the
  rollback looks for it, under the restored generation if the finalization was undone.

**`UploadProofs`**

- `TypeCorrect` and `StrangersKept`, with other writers, late requests and late chunks. `UploadInv`
  adds to `ChangesOwned` that the object of a complete session is the run's (`SessionInv`), that the
  attempts are counted (`TransferInv`), and that an upload runs only while the transaction stages
  and no move does (`UploadingInv`).
- `ValidatedBytes`: `Spec => []PublishedAsValidated`. `PublishInv` follows the validated bytes
  while the run may still succeed (`Unfailed`): under the staging name, with the recorded
  generation, from the end of the upload on, and under the target name from the rewrite on
  (`RecordsHeld`). During an upload the claim is conditional (`Stored`, `SessionOurs`): if the file
  still has the bytes of its fingerprint, so has the object, every unit of the session and the late
  chunk. An edit makes the condition false for good, because the bytes it leaves are new
  (`FreshInv`), and the last comparison turns the condition into a fact.
- `AllPublishedOrNone`: `Spec => []AllOrNothing`, assuming `~LateDelivery` and `MaxForeign = 0`: a
  late write leaves a staged object that nobody looks for any more, and another writer changes the
  bucket himself. `AccountInv` is an account of every object the run has made. What was there before
  is as it was, and everything else is the staged or the published object of a file (`BucketInv`);
  no move gets past its rewrite onto a name that was taken, so no undo deletes what was there
  (`NewTargets`); and each phase knows which of its names are removed or not yet made (`UnmadeInv`),
  during the rollback only as long as the error may still be a plain one (`Plainly`). `OpSettled`
  gives what each operation adds to the account when it returns. The uploads need more
  (`UploadCourse`, `TransferCourse`): until its write is executed the staged object is missing, and
  an error that is reported without a look at the bucket (`Quick`) means that it still is. After an
  answer in doubt neither is known. Such an error is then a second disturbance, which is why the
  property speaks only of one (`Calmly`).

**`BucketLockProofs`**

- `TypeCorrect`: `Spec => []TypeOK`.
- `Exclusion`: `Spec => []MutualExclusion`, with lost answers, late requests, kills and the
  operator. The inductive invariant `LockInv` says that a running run with a bucket among its held
  ones is the owner of the live lock with the generation it remembers (`Owns`), that generations
  and tokens are not reused (`FreshInv`, `Spent`), and that no request on its way can delete a lock
  that a running run holds (`WireInv`). The last part is what makes late deletes harmless: each
  names the generation of a lock that its run no longer counts on.
- `OwnLocksReused` (`NoSelfConflict`) and `AtomicEntry` (`ImplementsAtomicLock`). The additional
  invariant `RequestedInv` says that what a run still has to acquire and what it holds are together
  what it asked for, so that it enters with all of it; a step into the operation is then an `Enter`
  because `MutualExclusion` holds after it, a step out of it, a kill included, is a `Leave`, and
  every other step stutters.
- `LocksGivenBack`: `Spec => []LocksReturned`, assuming `~LateDelivery`: a creation that is executed
  after the run has looked for it in vain leaves a lock that nobody reports. `ReturnInv` says that a
  lock with the token of a run is one it holds, the one it is recovering, or reported.
- `SortedOrderWins`: `Spec => []SomeRunWins`, assuming that there is a run. `WinInv` says that, as
  long as nothing goes wrong, a run is past every bucket it has locked, and a run that was turned
  away wanted a bucket that some run is past. The run that was turned away furthest up in the
  order then leaves one that was not turned away.

**`CloudCommandProofs`**: `TypeCorrect`, `NoOrphans` (`NothingLeftRunning`) and `NothingCutShort`
(`OutputComplete`), for every program a child may run and every size of the pipes. The invariant says
that outside of a command there is neither a process nor a thread (`Quiet`), that threads are joined
only after the child is reaped (`ReapedFirst`), that every unit written is in the pipe or was read
(`Accounted`), and that a reader ends with its pipe empty and never before the child (`Drained`,
`Served`).

**`LocalRenamesProofs`**: `TypeCorrect`, `LocalAtomicity` (`LocalAllOrNothing`), `StrangersReported`
(`StrangersMovedReported`), `RootIdentity` (`ReplacedRootUntouched`), `AllNormalized` (`NoNameLeft`) and
`NoFileLost` (`NothingOverwritten`), for every plan, every order of the undo and both kinds of file
system. One invariant serves them all: the call in progress is the one its loop made (`Calls`), an
insensitive file system holds one of the equivalent names (`Unique`), a moved file of another process
is reported or about to be (`Strangers`), an entry that the loop has passed is not under its old name
(`Cleared`), and one that is not renamed, or not any more, is not under its new one (`Kept`). The
skipped renames need three more parts: a file that is still to be renamed has its new name only from
another process (`Ahead`), a file that nobody else has linked has one name (`Single`), and what
`same_path_entry` has read so far bounds what the directory can hold now (`Scanning`): a name that
was there all the time is among the names found, so one name found means that the other was put or
removed by another process.

Only model-checked:

- `Termination`, `ReturnsWhenChildRuns`, `ReturnsByTimeout`: liveness under fairness is out of the
  prover's reach.

Results that need induction over the plan (how many moves a listing gives, in which order they are
undone) are out of reach too.

## 5. Not modelled

- Paging of the listing, URI parsing and percent-encoding: pure conversions without state.
- The walk of file discovery and of `upload_source.rs` over path components: its outcome is the
  initial state of LocalRenames, and the choice whether a path opens in Upload.
- An edit that changes the length of a file while a request streams it (the HTTP client then
  fails the request, which is one of the faults), and an edit that is taken back between two
  chunks, which the fingerprint cannot notice.
- Failures of `try_wait`, `kill` and `wait` on the program's own child, and a grandchild that keeps a
  pipe open: with it, the join of a reader waits for as long as the grandchild lives.
- Values of the `Range` header that are not numbers or lie beyond the file: they are among the
  broken answers (`StorageResponse`).
- The level of directories between the input root and a file: LocalRenames has one directory for
  both, with one identity.
- Progress bars and messages, argument parsing, a poisoned mutex, the container and CI
  configuration.

## 6. Plan

1. Done: AppError, RemoteMoves, RemoteTransaction, Normalize, BucketLock, Upload, with their
   runs; the first theorems.
2. Done: ResumableUpload inside Upload; LocalRenames; CloudCommand; the abstract specifications
   ObjectRenames and AtomicLock, with the refinements checked.
3. Done, proofs: type correctness of every component; every safety invariant and action property
   that a passing run checks; both refinements. Liveness stays with TLC.
4. Later: BucketLock composed with two abstract workflows (late requests of a run that has
   released its lock against the work of the next one); Upload and LocalRenames in one model,
   so that the remote failure that starts the local undo is the one Upload produces.
