# A TLA+ verification of ZeroStun

ZeroStun backs up one regular file (`source.rs:42`) into a deduplicating repository. `src/src/engine.rs`
runs a backup as a small concurrent pipeline, `src/src/repository.rs` keeps chunk files, a redb
index and a writer lock, and `src/src/rate_limit.rs` keeps the I/O under a rate. This directory
holds TLA+ models of these parts, TLC configurations for them, and TLAPS proofs.

Paths below are relative to the repository; `PROJECT.json` maps each definition to its lines.

## Inventory

| Component | State | Operations | Made correct by |
|---|---|---|---|
| backup pipeline, `engine.rs` `backup` | reader thread with `index`; raw channel; workers sharing the raw receiver behind a mutex; processed channel; main's `pending`, `next_index`, manifest | read, send, lock+recv, compress, send, recv, write in order, join reader, join workers, leftover check, commit; early return on any error; the future dropped | source order, nothing lost or written twice, a commit only of the whole source, termination of the call and of its threads, bounded memory |
| repository, `repository.rs` | `chunks/`, redb tables `backups` and `chunks`, `manifests/`, lock on `.lock` | `acquire_writer_lock`, `write_chunk`, `read_chunk`, `commit_manifest`, `list_*`, `load_manifest` | a listed backup can be read back, exact reference counts, one writer, survival of errors, crashes, power losses |
| repository init/open, `repository.rs` `init`, `open` | `VERSION`, its temporary file, the database file | create, publish by rename, check the version, create the tables | `init` can always be repeated; overlapping calls leave a usable repository |
| verify and restore, `engine.rs` | the target file, a temporary file | load, check, read each chunk; create a placeholder, write, sync, rename | the target is absent, old or complete; an existing file is replaced only with `--force` |
| rate limiter, `rate_limit.rs` | tokens for bytes and operations, time of the last refill | `consume`, `consume_blocking` | the rate is kept, debts are paid, every call returns |
| source, `source.rs` | open file, fingerprint (size, mtime) | `open`, `verify_unchanged` | a source that changed is not committed |
| chunking, codec, hash, manifest, ids | none: functions over bytes | cut, compress, decode a chunk header, content ID, root hash | round trips, header arithmetic |
| config, main, error, telemetry | none | validate, parse sizes, report | what `validate` accepts |

**How they interact.** `backup` takes the writer lock, opens the source and spawns the reader
and the workers. The reader charges the read bucket for every chunk and then sends it through a
bounded channel; the workers hash and compress; the main task reorders, charges the write bucket,
calls `write_chunk`, and at the end joins the threads, verifies the source and calls
`commit_manifest`. redb locks its file while it is open, so that one process at a time has a
repository open; the concurrent jobs of `Repository` are calls within it, or follow each other.
Calls of `init` and `open` meet at `VERSION` before they get to that lock, and restores into one
target meet at its path, also from different repositories.

**What is hard.** Workers finish in any order; errors arise in three kinds of thread while the
others are blocked in channel operations; the future may be dropped at every `await`; the process
or the machine may die between a rename, a transaction and another rename; any read error is
taken for "no such chunk"; backups with different codecs share chunk files; sleeps are rounded
and late. `PROJECT.json` lists these as hazards, each at its line.

## Modules

| Module | Models | Depends on |
|---|---|---|
| `SequentialBackup` | what a backup promises: record the chunks one by one in source order, then commit all of them, or fail | |
| `Pipeline` | the threads of `engine::backup` | `SequentialBackup` (refined) |
| `PipelineProofs` | its theorems | `Pipeline`, TLAPS |
| `BackupStore` | what a repository promises those who list it: backups that appear one at a time, each at one instant, whole and for good | |
| `Repository` | the disk, the index and the lock, under several backups and faults | `BackupStore` (refined) |
| `MCRepository` | a small instance | `Repository` |
| `TokenBucket` | the rate limiter and its caller | |
| `MCTokenBucket` | a small instance | `TokenBucket` |
| `TokenBucketProofs` | its theorems | `TokenBucket`, TLAPS |
| `RepositoryProofs` | the theorems of `Repository` | `Repository`, TLAPS |
| `StoredChunk` | the chunk file format, with the widths of its lengths | |
| `Restore` | `restore` and `verify`, several calls into one target | `StoredChunk` |
| `MCRestore` | a small instance | `Restore` |
| `RestoreProofs` | the theorems of `StoredChunk` and `Restore` | `Restore`, TLAPS |
| `RepositoryInit` | `init` and `open`, called by several processes | |
| `RepositoryInitProofs` | its theorems | `RepositoryInit`, TLAPS |
| `SourceCheck` | a source that changes while a backup reads it | |
| `MCSourceCheck` | a small instance | `SourceCheck` |
| `SourceCheckProofs` | its theorems | `SourceCheck`, TLAPS |

### Pipeline

A chunk is its sequence index; bytes, sizes, hashes and the progress bar are left out. `rd` and
`wk` say where each thread is in its closure (`read`/`send`, `idle`/`recv`/`busy`), `raw` and
`processed` are the channels, `hand` is the chunk a worker holds, and `main`, `pending`,
`next_index`, `manifest` are the locals of `backup`. There is one action per step that another
thread can see: `ReadChunk`, `SendRaw`, `Lock`, `Recv`, `SendProcessed`, `RecvProcessed`,
`WriteChunk`, and so on, with the error exits (`ReadError`, `CompressError`, `SendCancelled`,
`SendRefused`, `WriteError`, `JoinReader`, `JoinWorkers`, `Finish`) and `Cancel` for a dropped
future. Two details of the code matter and are kept: a worker holds the mutex while it waits in
`recv`, and main holds its own `Arc` on the raw receiver until `backup` returns, so that the raw
channel closes only when main and every worker are gone (`RawOpen`). A worker that fails or
panics sends nothing (the `Result` in the channel is always `Ok`): main sees only that its chunk
never comes, until it joins the worker.

### Repository

A chunk file is `Missing` or has an encoding (codec and length) and a state: `intact`, `rotten`
(the header decodes, the payload does not match) or `unreadable`. `chunks` is the directory as
processes see it, `durable` as it is on the disk: a rename changes the first at once and the
second only when the directory is written back (`WriteBack`), because the code syncs the file and
not the directory. redb syncs its own file at every commit, so `index` and `refs` are durable.
A `Job` goes `start`, `write`, `staged`, `indexed`, `done`: one action per step between which a
crash leaves a different disk. `Reuse`, `Store`, `StoreAfterReadError`, `ReuseAfterReadError` are
the outcomes of `write_chunk`; `StageManifest`, `CommitIndex`, `PublishCopy` the three steps of
`commit_manifest`. `Abort` is any error before that, and the dropping of the future. `Hang` is the
hang of `Pipeline` as the repository sees it: the job stays in `hung`, with the lock, until it is
dropped (`Drop`) or its process dies. Its guard is the last conjunct of `KnownHang`: more chunks are
unwritten than `InFlight`, which stands for `queue_depth + workers` of the job. `Crash`, `PowerLoss`, `Rot` and read errors are the environment.

`Listing` is the refinement mapping to `BackupStore`: what is stored of a backup is the content
IDs of its row, `Missing` before it has one; the chunk files, the staged manifest and the reference
counts have no counterpart there, and the order of row and copy is that of `StoreWhole` and
`Succeed`.

The threads of `Pipeline` do not appear: only the main task writes, in source order, and it goes on
unless it hangs in the one way that `OnlyKnownHang` leaves, which `Pipeline` shows. A process may run only one job at a time here; `Crash` kills all running jobs,
of which the lock allows one.

### TokenBucket

Time runs in ticks (the resolution of a `Duration`), tokens are fractions of a byte or of an
operation, so that a tick is worth exactly `Rate[k]`. `Admit` is a turn of the loop that lets the
request in, `Wait` one that does not, `DebitIop` the second debt, `Return` the end. A sleep may
be rounded to either neighbouring tick and may last longer than asked for. `credit` is a history
variable, not in the code: a budget that grows with the rate and is charged when `consume`
returns. It starts at the burst and is capped at the burst plus one request, so `credit > -Rate`
bounds both what is let through since the start (burst) and in any window (burst and one
request). The window bound is tight: while an operation debt is slept off, the byte tokens already
refill for the next request, and two full bursts may follow each other at once.

### StoredChunk and Restore

A `Frame` is what `StoredChunk::decode` looks at: magic and version, tag, declared length, size of
the file. `Decodes` keeps the one piece of arithmetic that may wrap (`codec.rs:88`), with
`HeaderLen` and `Word` for 24 and 2^64; the length of the header is cast to `usize` (`codec.rs:87`),
so that this is exact on 64-bit targets only. A `ChunkFile` is a frame and what its payload decompresses
to: a content ID, or `Bad`.

Each `p` in `Proc` is a call of `restore`. It goes through `verify` (`VerifyChunk` per chunk,
`CreateTemp` when the verdict is good), `write` (`WriteChunk` per chunk, `Sync`), `publish`
(`Replace` with `--force`; `Claim`, the placeholder, or `Refused` without) and `rename` (`Rename`).
`Fail` is any error at any point, `Crash` the death of the process. The target path has a content
as processes see it and one on the disk; a power loss leaves either, and of a file that was not
synced any part. Chunk files may change between the two readings (`ChunkChanges`). Other programs
may at any moment create, replace or write the file at the target (`UserPuts`) and remove what is
there (`UserRemoves`), a placeholder too; nothing is asked of them. A file that comes while some
restore is between placeholder and rename is marked as by `Intruder`, and `removals` remembers in
which of the two situations something was removed: the properties tell them apart. `total` is the size the source had when the backup
began, which is what `verify` compares the sum of the chunks with.

### RepositoryInit

All calls of `init` write the same `tmp/VERSION.init`, so files are modelled with inodes: `temp`
and `version` say which inode has each name, `fd[p]` which one a call writes, wherever its name has
moved since. `OpenTemp` and `WriteTemp` are the two halves of `fs::write` (create or truncate,
then the bytes), `Rename` and `RenameGone` the rename, `CheckPresent` and `ReadVersion` are
separate because `exists()` and the reading are. `index.redb` is absent, without tables or with
them, and locked by the process that has it open. `IoError` and `Crash` may come at every step, the
making of the directories included, which leaves nothing else behind (`"start"`);
`TablesDropped` is the error of `open_table` that the code throws away. `overlapped` and `faults`
are history. Different from `Repository`, calls here are different processes.

### SourceCheck

Files have blocks as content and a timestamp in ticks; `path` is the file the source path names,
`fd` the one the backup has open. `Open` and `Stat` are the two calls of `FileSource::open`,
`ReadBlock` and `ReadEof` the reader, `VerifyUnchanged` and `SourceChanged` the comparison of the
fingerprint of the descriptor with that of the path, `PathGone` and `IoError` the errors of either.
Other programs write (any new content, and the
timestamp of now), set timestamps, and rename or unlink. A write and its timestamp are one step:
no write is half done when a fingerprint is taken, and nothing is written through `mmap`.
`Consistent` excludes timestamps that somebody sets, and a path that at the end names another file
of the same size and time; a path that is moved and moved back is within it. `snapshot`, `touched` and `deceived` are history.

## Runs

Passing:

- `pipeline` (`Pipeline.cfg`): three workers, of which one may fail, channels of one element, five
  chunks. Order, loss, duplication, completeness of a commit, the refinement of
  `SequentialBackup`, termination of the call and of all threads. `OnlyKnownHang` is freedom from
  deadlock: some thread has a step to take, or all have ended, or it is the one hang described
  under `pipeline_all_fail`. It is stated without ENABLED so that it can be proved; that the
  guards it is made of are those of the actions, errors apart, was checked with TLC, against ENABLED,
  in this instance and with three failing workers, where the hang is reached.
  Three workers and channels of one are the smallest instance in which two workers overtake a
  third, one waits for the mutex and another for a full channel; with five chunks the reader
  is still blocked when every worker has taken one and gone. The proofs cover all other instances.
- `repository` (`Repository.cfg`): three backups, two content IDs, two encodings; sources that
  overlap, and one that repeats its chunks and is long enough to hang. `MaxFaultKinds = 1` bounds the kinds of fault in one
  behaviour (read error, power loss, decay), each any number of times; crashes and failures of
  a job come on top. Most properties name the kinds of fault they tolerate, and name one; the
  liveness check sets the bound. Without it (`SPECIFICATION SafeSpec`, no `PROPERTIES`) the same
  invariants hold with `MaxFaultKinds = 3`, all faults together, over 3.1 million states.
  `RefinesStore` is the refinement of `BackupStore`: with every fault, a listed backup is the
  whole of its source and stays so, a copy in `manifests/` never comes before its row, and one
  backup runs at a time. `LockReleased` says that every backup gives the lock back or hangs; the
  hang is not an error of the model but of the code (`pipeline_all_fail`), and it is the only way
  to keep the lock.
- `token_bucket` (`TokenBucket.cfg`): three bytes and three operations a second, four ticks a
  second, so that no cost divides evenly and sleeps get rounded; requests below and above the
  burst; the caller away for up to nine ticks (`MaxIdle`), more than a whole refill.
  `RetrySuffices` says that a request which an earlier rounding turns away is let in when its
  first retry wakes: the loop never goes round twice.
- `restore` (`Restore.cfg`): two calls without `--force` and one with it, with overlapping and with
  different backups; a header of two bytes and words of eight, so that sums wrap; one change of
  a chunk file (missing, rotten, a wrong length, an unknown tag, another codec; each for one of the
  two chunks) and one power loss at any moment; crashes, failures and what other programs do at the
  target path without bound. One manifest may have a wrong total. `OnlyLateLost` says what an
  unforced restore may rename over: what came after its own placeholder. `CallsMoveOn` says
  that each call comes to its end in a bounded number of steps that nothing takes back, so that none
  waits for another's placeholder or tries again.
- `repository_init` (`RepositoryInit.cfg`): three inits and an `open`; with three, one may truncate
  the file another has published while a third checks it. Faults are not bounded: every call ends.
  `OpenComplete` counts an `init` that drops an error of `open_table` as a fault, and does not speak
  of it.
- `source_check` (`SourceCheck.cfg`): two files of up to two blocks, three ticks, three actions of
  other programs, so that a write can be undone, hidden behind a timestamp, or made while the path
  is moved away and back.

Runs whose one property, taken from the documentation or from what the code intends, TLC refutes:

- `pipeline_all_fail` (`FailureReported`): when every worker has failed and more chunks are left
  than the raw channel holds, main awaits the reader (`engine.rs:235`) while the reader waits for
  room in a channel whose receiver main itself keeps alive (`engine.rs:166`). The call hangs with
  the writer lock held. With `--workers 1` one compression failure is enough.
- `pipeline_memory` (`PendingBounded`): `pending` has no bound, so neither has the memory that
  `docs/architecture.md:41` and `README.md:15` call bounded: one slow worker suffices.
- `repository_failed_listed` (`FailedNotListed`): the last rename of `commit_manifest` may fail
  after the row is committed; the backup then reports an error and is listed
  (`README.md:19` says otherwise).
- `repository_read_error` (`ReadErrorsHarmless`): after a transient read error `write_chunk`
  replaces a sound file; in another codec, earlier backups stop verifying
  (`docs/repository-format.md:85`).
- `repository_power_loss` (`ListedDurable`): chunk directories are not synced before the index
  commits (`README.md:16`).

- `restore_overwrite` (`NotOverwritten`): between the placeholder and the rename of an unforced
  restore, a forced one publishes its result, or another program puts a file there; the unforced
  one then overwrites it (`engine.rs:522`, `README.md:65`). `OnlyLateLost`, which holds, says that
  what was there before the placeholder is safe, and so is the result of another unforced restore
  as long as nobody removes placeholders.

`Restore`, `RepositoryInit` and `SourceCheck` also set `CHECK_DEADLOCK FALSE`: all their calls end.
It is set for `Pipeline` and `Repository`: a backup that has returned, with
its threads ended, has nothing left to do. That it does not stop before is what `Terminates`,
`ThreadsExit` and `LockReleased` say. `TokenBucket` never stops and is checked for deadlock.

## Fairness

- `Pipeline`: weak fairness of each thread's steps. A thread that can go on is scheduled by the
  OS, a task by the runtime. Nothing forces an error or a cancellation. The tokio mutex is fair
  (FIFO), but the properties do not need it: every worker that gets the mutex gives it up again.
- `Repository`: weak fairness of what each job does when nothing goes wrong (`Advance`), for the
  same reason. Errors, the hang, faults, crashes and write-back are never obliged to happen, and
  nobody is obliged to drop a backup that hangs: `Advance` does not lead out of `hung`.
- `SourceCheck`: weak fairness of the backup's own steps, without `IoError`, and none of the other
  programs'.
- `Restore` and `RepositoryInit` have no liveness property and no fairness: every call is a finite
  sequence of steps, which `CallsMoveOn` and `CallsEnd` bound.
- `TokenBucket`: the clock ticks and a caller whose sleep is over is scheduled.

## Proofs

`PipelineProofs` proves, for every finite set of workers, every queue depth `validate` accepts,
every length of the source and every set of failing workers:

- `Invariance`: `IInv` is inductive. The safety properties alone are not: that the manifest is in
  order needs `next_index` to be its length (and `pending` to hold only later chunks), that a
  commit is complete needs the position of every chunk to be known (in a channel, in a hand, in
  `pending` or written), and it needs what main already knows about the threads at each of its
  own stages (`StageOrder`: for instance, once it drains, all senders are gone and the channel is empty).
- `TypeCorrect`, `ChunksNotDuplicated`, `ChunksNotLost`, `ManifestInOrder`, `CommitsWholeSource`
  and `LeftoverUnreachable` follow: the error "leftover chunks" of `engine.rs:243` is dead code.
- `ImplementsSequential`: every step of the pipeline is a step of `SequentialBackup` or a stutter.
- `DeadlockOnlyAllFailed`: in every reachable state some thread has a step to take, or the backup
  has returned and its threads have ended, or every worker has failed with the raw channel full
  and main waiting for the reader (`KnownHang`). `NoHang` names who is safe from that: a worker
  that cannot fail, or a source of at most `QueueDepth` plus as many chunks as workers. That so many
  are still unwritten in a hang, which `Hang` of `Repository` relies on, needs that the chunk a
  failed worker took is never written (`LostStayLost`). The proof
  follows who waits for whom: the reader for a place in the raw channel, a worker for the mutex
  and its holder for a chunk, both for a place in the processed channel, main for the last of
  them. It adds to `IInv` that a failed worker is one of `FailingWorker` and took a chunk with
  it (`FailuresHold`), so that the workers' failures are counted in chunks.
- `NoStepInVain` and `StepsBounded`: `StepsLeft`, a weighted count of the chunks by where they are
  and of the stages the threads are in, is lowered by every step and is at most `MostSteps`. With
  `DeadlockOnlyAllFailed` this is all of `Terminates` and `ThreadsExit` but the fairness.

The sequence facts about taking the first and appending a last element are lemmas of their own.

`TokenBucketProofs` proves for all rates, requests and resolutions of the clock that the rate
limiter keeps its rate (`KeepsRate`), pays its debts before it returns (`ReturnsPaid`) and never
adds the debt of one request to the sleep of another (`DebtsStaySeparate`). `RateBounded` is not
inductive: the history must be compared with the bucket at every moment of a call, when the
request has been charged to the bucket and not yet to the history (`CreditAhead`), and a sleep
must be known to cover its debt (`DebtCovered`). A limit of `None` is `Rate[k] = 0` and is covered.
`RetriesSuffice` needs more: a bucket whose caller is away owes less than a tick's worth, because
each return is paid up to the rounding of its sleep, and nothing between two calls takes from it.
So a request is turned away by rounding only, the sleep that follows is the shortest, 5 ms, the cap
of half a second never shortens it (`RetryShort`), and the next turn of the loop lets it in.

`RepositoryProofs` proves all the safety of `Repository`, for any backups, sources, codecs and
faults: `TypeCorrect`, `OneWriter`, `CopyFollowsRow`, `CountsExact`, `ListedBackupsVerify`,
`ListedBackupsPresent` and the action property `CommitsVerify`. `IInv` has three parts. `Control`
adds that a manifest describes a beginning of its source, all of it once staged, and that a row is
written once (`Progress`, `Rows`). `Counted` adds that the references are finitely many, so that
a new row adds its own number to each count (`RowCounted`). `Data` says what the descriptors in
memory may rely on, which is more than the rows may: after a power loss a row may have lost its
chunks, but no manifest in memory outlives one, and this is why each commit verifies.
`StoresAtomically` is the refinement of `BackupStore`, step by step: `CommitIndex` is `StoreWhole`,
`PublishCopy` is `Succeed`, and the writing of chunks and of the staged manifest stutters. It rests
on `Control`: what is staged is all of the source, and who runs alone holds the lock.
`BackupsMoveOn` gives each backup a number of steps left that its own steps lower and no other
backup, fault or crash raises, and `HolderStepsBounded` bounds it for the holder of the lock: by its
chunks and three. It says nothing of how long a step takes: the last one of a backup that hangs, to
be dropped, may never come. `IInv` was also checked with TLC, with three kinds of fault.

`RestoreProofs` proves that `decode` accepts only files that are exactly as long as their header
says, for every header length and word size, wrap-around included (`DecodeExact`, `EncodeDecodes`),
and for any calls, backups and damage that the target is never part of a backup
(`TargetAlwaysWhole`), that only one unforced restore wins (`AtMostOneWinner`), what may be
overwritten (`LosesOnlyLate`), what is read (`ReadsOnlyExact`), and that success publishes the
whole backup, synced and of exactly the length the manifest records (`RestoresExact`,
`RestoresSynced`). The invariant says what a
temporary file contains at each stage, who may be between placeholder and rename (`Claims`), and
what may be at the target path meanwhile (`Window`).
That the length is a sum over the chunks takes an induction over the sequence. The library's
induction theorems have an operator as parameter and cannot be used; the proof goes by the least
element instead: the set of those lengths up to which a function adds the sum up is shown to be
all of them, because its complement would have a least element (`LeastElement`, `SetInduction`,
`SumsAddUp`). `RestoresMoveOn` bounds the steps of each restore: its own lower their number, and
those of other restores, other programs, damage and power losses do not raise it.

`RepositoryInitProofs` proves all the properties of `RepositoryInit` for any number of calls
(`InitIdempotent`, `LeavesUsable`, `OneInitWins`, `OpensComplete`). The argument: an empty file
always has a call about to write it, and a repository without tables always has a call about to
create them (`Written`, `Served`); without overlap the temporary file is the call's own (`Alone`).
`CallsEnd`: every call takes at most six steps, and those of the others do not count.

`SourceCheckProofs` proves `CommitsOneMoment` for any files, contents, writes and ticks: as long as
the timestamp is older than the fingerprint, what was read is a prefix of what the file was then
(`Unwritten`, `ReadsSnapshot`), and this is about the open file, wherever its name has gone. `NeverFalseAlarm` is about a source that nobody touches.
`BackupMovesOn`: each step of the backup brings the end of its reading nearer, and only an action
of another program on the file, or on its path before it is opened, can put it off.

Each proof rests only on the ASSUME of the module it is about, which TLC evaluates in the runs.

**Only model-checked**: the liveness properties themselves, `Terminates`, `ThreadsExit`,
`LockReleased`, `Returns` and `ReadingEnds`. Fairness
speaks of ENABLED, which is out of reach of the prover. What can be said without it is proved:
that some thread of a pipeline always has a step to take (`DeadlockOnlyAllFailed`; elsewhere
no call waits for another, since a lock that is taken refuses at once), and that there
are only finitely many (`StepsBounded`, `BackupsMoveOn`, `RestoresMoveOn`, `CallsEnd`,
`BackupMovesOn`). TLC joins the two in its instances.

## Not modelled

- Bytes: FastCDC, zstd and lz4, BLAKE3. A content ID is a
  model value: equal bytes have equal IDs, different bytes different ones.
- Wording, summaries, progress, argument parsing, exit codes (`main.rs`, `telemetry.rs`,
  `error.rs`), and the formatting of identifiers (`ids.rs`). A backup ID is the job that made it, so
  collisions of generated IDs are excluded.
- Temporary files of the repository: their names are random, nothing reads them back.
- f64 rounding in the rate limiter; the arithmetic here is exact, and only sleeps are rounded.
  The read bucket is charged after FastCDC has read the chunk, so the source is read ahead of
  the bucket by the chunker's buffer.
- Power loss during `init` (`VERSION` is not synced), and a `VERSION` of another format.
- `parse_byte_size`: text to number, pure and without state.
- `inspect`, `list`: they only read; a row that does not decode makes `list` fail as a whole.
- What an unnoticed change of the source leaves: `SourceCheck` says when a change is noticed,
  `Restore` what a manifest with a wrong total means (no restore of it succeeds).

## Plan

Done: all modules above. What is left: `parse_byte_size` with its saturation, against a reference
definition.
