# rtmp2dash in TLA+

Models, model-checking runs and proofs for `rtmp2dash`, an RTMP ingest server
that repackages H.264/AAC as live DASH. Sources are named relative to the
repository root (`src/...` is the crate, `doc/...` its documentation).

## 1. The system

| Part | Source | State | Operations | Hard behaviour |
|------|--------|-------|------------|----------------|
| Publish registry | `src/channel/manager.rs` | sharded map channel → lease, sticky kick flags | `try_acquire`, `signal_kick`, `acquire_with_takeover`, `release`, `list_active` | check-then-insert over several lock acquisitions, sweeps by every caller, locks held across calls |
| Publish session | `src/rtmp/session.rs` | guard with a lease, demuxer, packager, last media time | handshake, publish, media, unpublish, kick, idle, hang-up, error | the order of releasing the channel and finishing the packager; timers that are read only at certain points of the loop; a second publish request |
| Pull worker | `src/rtmp/pull.rs` | lease, packager kept across sessions, last media time | acquire with retries, connect, play, read, reconnect | four timeouts; no reaction to a kick; error returns that keep the lease |
| FLV demuxer | `src/demux/flv.rs` | pending sample, default duration, first and last DTS per track, epoch | `push_video`, `push_audio`, `flush` | interleaving of two tracks, clock jumps, second publish |
| DASH packager | `src/dash/packager.rs` | codecs, segmenter, startup buffer, timeline, window, `Period@id` | `handle_au`, `flush_tail`, `finish`, `prepare_for_reconnect`, rotation | several files kept consistent through an asynchronous queue |
| Disk writer | `src/dash/writer.rs` | bounded queue, drain task, blocking file operation | `enqueue`, `delete`, `shutdown_and_drain`, `Drop`, respawn | backpressure, aborted tasks whose file operation goes on, shared temp names |
| Janitor | `src/cache/janitor.rs` | none | `sweep` | decides in one pass and deletes in another, under a budget, files a packager may be rewriting |
| HTTP server | `src/http/server.rs` | none | file reads, `list_active` | reads between any two file operations |
| Supervisors | `src/main.rs` | backoff | restart | any one that ends stops the process |
| Configuration | `src/config.rs` | immutable | parse, validate, TTL | bounds the others rely on |
| Parsers, log, metrics | `src/dash/av_skew.rs`, `src/dash/fmp4_duration.rs`, `src/debug_ndjson.rs`, external crates | counters | pure | none |

Interactions: sessions, pull workers and HTTP handlers call the registry
concurrently. A session or pull worker that holds a channel owns one packager,
feeds it what its demuxer makes of RTMP tags, and the packager hands file jobs
to its writer. Sources of one channel meet in the channel's directory, which
the janitor sweeps and HTTP clients read.

What makes each part correct: one source per channel and no channel lost
(registry); whole files, applied in order, none after its writer was replaced
(writer); `index.mpd`, `init.mp4` and segments of one generation, a window
without holes (packager); nothing of a predecessor in a successor's directory
(takeover); a silent or kicked source leaves in time, a refused one was refused
with reason, a worker gets its channel in the end (sources); tracks that start
together and never drift (demuxer); the live window survives every sweep, and a
dead channel none for long (janitor).

## 2. Modules

| Module | Models | Relation |
|--------|--------|----------|
| `SingleSource` | the registry's promise: a channel is free, owned, or lost | abstract |
| `ChannelManager` | the registry and the guard, one step per shard lock | implements `SingleSource` |
| `Sources` | the loops and timers of publish sessions and pull workers | uses the promise of `SingleSource` |
| `OrderedFiles` | the writer's promise: jobs whole and in order | abstract |
| `PackagerWriter` | queue, task, temp file and rename | implements `OrderedFiles` |
| `DirectoryJobs` | the files of a channel and the jobs that change them | shared |
| `ChannelFiles` | the packager's promise: generations of init, numbered segments, manifests | abstract |
| `DashPackager` | the packager, with the writer seen as a bounded pipe | implements `ChannelFiles`; uses the promise of `OrderedFiles` |
| `Takeover` | the sources of one channel, each with a `DashPackager` | composes; uses the promise of `SingleSource` |
| `Cache` | the janitor in a directory | composes with `ChannelFiles` |
| `FlvDemux` | timestamps of two tracks | stands alone; its discontinuities are the packager's `Discontinuity` |
| `*_proofs` | theorems about the module they are named after | |
| `MC*` | instances for TLC | |

The composition is layered so that each run stays small. `PackagerWriter` shows
that a packager may treat its writer as an ordered pipe whose last jobs can be
lost when it is dropped; `DashPackager` has exactly that pipe (`pipe`, `Accept`,
`Apply`, `FailJob`, and the truncation in `Drop`). `DashPackager` in turn
implements `ChannelFiles`, and only that stands beside the janitor in `Cache`.
`ChannelManager` shows that a channel has at most one owner, claimed when free
and given back by its owner; `Takeover` and `Sources` have exactly that
(`holder`, `Acquire`, `Frees`; `owner`, `Takes`, `Gives`).

### ChannelManager

`slots` is the map, `entryLock` the one kind of lock that outlives a step (the
write lock of a matched occupied entry). A lease is a model value; its Arc is
alive while the map or a thread refers to it, so the `active` flag that
`retain` reads is the operator `Active`, and a lease may be used anew when
nobody refers to it. Since leases that nobody refers to are alike, `Fresh`
chooses one, `Dropped` forgets what a dropped lease was for, and `Over` what a
call that has returned was about; this only merges states. Each thread runs one
call at a time; `pc` names the next lock acquisition. `retain` and `iter` visit
one shard per step. Every public operation ends in `list_active`, in the code as
in the model (it is how the agent log is fed). `Forget` is the `?` between
acquisition and guard, `Refuse` the handled packager error. A read guard that
blocks a writer without calling anything in between is one step.

### Sources

`phase` is where a source is: a session in its loop (`top`), in the `select` or
read (`read`), inside `acquire_with_takeover` (`asking`), between acquisition
and guard (`granted`), in `PublishStreamFinished` (`finishing`) or on its way
out (`closing`); a worker waiting for its channel, opening (`granted`),
connecting, in handshake and setup, playing, resting, or returned for good
(`dead`). `chan` is what the guard or worker holds, `want` what is being asked
for, `pkg` the directory its packager fills; the three differ during a second
publish request, which is an ordinary `Ask` here. `media` is `last_media` (its
`Some` is also the flag `publishing`, for both are set together and never
reset), `wait` the time in the present read, sleep or poll. One read hands over a
batch: `asks` publish requests and `ends` ends of a publication, which `top`
handles one after the other, in any order, before the kick and the idle timer
are looked at again; so a session may wait out several takeovers, or finish a
packager, in between. The bytes left over from the handshake are such a batch
too (`Connect`), but one that starts no idle timer. A channel whose lease is
`Lost` keeps its slot and its kick signal, which later requests set in vain.

Time passes in ticks that no step may be late for (`Due`): a timer that has run
out, a signal that is pending, a call that can go on are dealt with before the
next tick, except that a packager may take up to `DrainTime` to finish. So
scheduling delays count as zero, and writes to a peer, which the code awaits
without a timeout, as never blocked. `silent` is history: how long ago the peer
really sent media, or began to publish or play; `Early` when it has done neither
but for a publish request that came with the handshake. `Reads(w, new)` is the top of a
worker's loop, which every read and every wake passes, with the media timer as
the read leaves it. The packager's own behaviour is in `Takeover`.

### PackagerWriter

Files and temp files are names of inodes, so that a rename moves whatever inode
the temp name stands for; `Inodes` bounds them, and a write takes one nobody
refers to. `op["live"]` is the operation the drain task awaits,
`op["stray"]` one that an aborted task left in the blocking pool; at most one
such operation is left over, and a second is excluded by a guard in `Drop` and
`TaskDies`. `Create`, `Fill` and `Rename` are the steps of `atomic_write`.
`TaskDies` is the case `ensure_sender` and `respawn_sender` are written for.
Data carries the writer that wrote it. The queue of an aborted or dead task is
lost. `epoch` counts the packagers that have opened the directory one after
the other, each through `clear_channel_dir`, which here removes everything at
once (`DashPackager` has it file by file). `overtaken` is history: a task has
started while an operation of another was still in the blocking pool. The
promises hold until then; afterwards two writers share temp names.

### DirectoryJobs and ChannelFiles

A file is the generation that wrote it; a job writes or deletes one. A wipe
(`clear_channel_dir`, `wipe_channel_media`) removes the files one by one in the
order in which the directory lists them, so `Fewer` is any one file less; it
ignores errors, so it may end with files left over. `dir.lost` says that the
directory is not what the jobs have made of it: a wipe is under way, or a file
operation, a removal included, has failed since the last wipe that
left nothing. What a packager promises is a sequence of generations after a
wipe (`Wipe`, `Open`): `Prepare` (an init), `Add` (a
batch of segments, the deletions of those that leave the window, a manifest),
`Rotate` (the deletion of the window and the manifest, perhaps a new init) and
`End`, after which at most the job under way still takes effect if the packager
was dropped.

### DashPackager

A packager's own state is changed by one thread, and nobody sees it between two
file jobs; so a call is one step that leaves its jobs in `todo`, and `Accept`
moves them into the writer's pipe, one at a time and only when there is room
(the backpressure of `blocking_send`). A new call needs an empty `todo`. The
samples that `replay_pending_samples` pushes are one step each, so that a
rotation in the middle of a replay is seen. The fragments a push makes ready
(`k`), a fragment with too much skew after them (`skewed`), and whether the
segmenter can be built (`built`) are choices of the external segmenter.
Files carry the generation they belong to, numbered over all packagers of the
directory; `periods` records each generation's `Period@id`. A packager wipes the
directory when it opens (phase `opening`) and when it reconnects (phase
`wiping`): one `Remove` per file, then `Opened` or `ReconnectDone`, which need an
empty directory or, if operations may fail, go on with what is left (`Wiped`).
The first removal already sets `dir.lost`, and only a wipe that leaves nothing
clears it. A wipe passes each name once; a file that a job left behind by another
packager writes under a name already passed counts as written after the wipe, or
is removed by it, both of which happen. `Drop` truncates the pipe to the job that may be in
the blocking pool. The timer `check_av_skew_on_disk` re-reads a segment whose
skew `drain_ready` has already accepted with the same limit, so it never rotates
and is left out.

`Feed` and `Pipeline` map a packager to `ChannelFiles`: it is live from the moment the
directory has been wiped, also while it closes and after it has closed, until it is
dropped; its jobs are those in the writer's pipe followed by `todo`, so that
`Accept` is a stutter, and `Lag` is the pipe's depth.

### Takeover

`stage` is where a session is between acquisition and the end of its
connection. `LeaveEarly` (kick or media idle) clears the guard before the
packager is finished, `Hangup` (end of file, parse error) and `Unpublish`
(`PublishStreamFinished`) after, `Abort` drops the packager unfinished, and a
pull worker (`Puller`) only ever reconnects. `clean` is history: the last source
to publish found no other at work, nor a job of another under way. All ways to
end are in one run; what is promised of files is promised of a clean beginning,
and `takeover_kicked` shows one that is not. No file operation fails there
(`MayFail = FALSE`, and `NoForeignFiles` says so): files that a wipe cannot remove
are foreign indeed. Why a session leaves, and a second
publish request on a live connection, are the subject of `Sources`.

### Cache

`age` counts the ticks since each file was written, `sweep` is one
`sweep_channel`: it begins by reading the clock (`Begin`), looks at every file in
one pass (`Scan`), deletes the expired segments file by file (`DeleteSegment`),
looks at `index.mpd` (`CheckManifest`) and deletes it (`DropManifest`) and the
`init.mp4` (`DropInit`). Ages are compared with the clock of the beginning,
hence `sweep.ticks` in `Old`. The pass is one step, but the files that change
while it is under way are remembered (`old`, `young`, `new`), and each of them
may be seen before, after or not at all. Between all steps packager, writer and
clock go on (`Packaging`, `Pass`), as many as `SweepTicks` and `SweepCalls`
allow. A sweep that begins when no file is old deletes nothing and is left out.
A wipe of the directory is seen file by file as well (`Wiping`).
`late` and `hit` are history for the ways in which a sweep takes what it
should not: a live source whose newest segment is older than a segment lasts
(`Overdue`), a wipe that has left files, time that passes while a job of an ended packager waits (`Stranded`),
and a file that was written under the eyes of the sweep that decided about an
older one of that name. `.tmp` files are left out: after 60 seconds they are
nobody's, and they only cost budget. The type of the file and its age are one look.

### FlvDemux

One action per outcome of `enqueue_sample`: the first sample of a track, a
discontinuity, a dropped sample, a completed sample. `Flush` ends a publish
(`over`): the sample each track waits with is handed over with the track's default
duration and counted in `base` and `pos`. It may be older than the epoch, and the
track's only one, so that tracks start together is said of the samples before the
flush. `Republish` begins the next generation, with the clock left as it was.
`base` and `pos` are
history: the first timestamp handed over in a generation and the sum of the
durations since, which is what the segmenter makes `tfdt` from. The peer is
external: it interleaves its tracks by time up to `Lag` (`Sends`), and may
restart its clock or publish again; `steady` remembers that it has done neither
since the demuxer last reset its own clock. Timestamps are scaled down together with
the two limits; 32-bit wrap-around appears as a rewind, which the code treats
as a discontinuity as well.

## 3. Runs

| Run | Shows | Bounds |
|-----|-------|--------|
| `registry_races` | types, one holder, map and holders agree; a channel is lost only after an error; a kick hits the channel asked for; refinement of `SingleSource`; every call returns, unless a thread waits for its own lock | 2 threads, 2 channels on 2 shards, one channel may fail to open, takeovers with one retry |
| `writer` | whole and fresh files and refinement of `OrderedFiles` until two writers overlap; blocked sends and drains end | 2 writers in turn, 1 file, 3 inodes, queue of 2, a task that dies once, I/O errors |
| `packager` | types, window, generations, gaps, no forgotten files, manifests advance although jobs fail; gaps close, closing calls return; refinement of `ChannelFiles` | pipe of 1, window 1+2, 4 segments, 2 generations, batches of 2, wipes file by file that may leave files |
| `takeover` | whoever begins clean has the directory to itself, if files can be removed; orderly ends release nothing undrained | a publisher and a pull worker, 2 codec configurations, 4 generations |
| `demux` | tracks start together while the peer keeps its clock, no under-counted track, monotone timeline | lag 1, limits 2 and 1, restarts and a second publish |
| `cache` | budget; the live window and the init of a manifest survive; a dead channel disappears | window 1+2, 4 segments, 2 generations and a successor, TTL 3, budget 2, a tick and a call during a sweep |
| `sources` | types; packagers hold their channels; bounds on silence; refusals with reason; kicked publishers leave, the worker gets its channel | 2 connections, 1 worker, 2 channels, all timers of 1 tick, failing directories; one connection sends 2 requests and an end of publication in a read, the other 1 request |

Runs that refute what the repository says of the program:

| Run | Refuted claim | What happens |
|-----|---------------|--------------|
| `registry_self_wait` | no shard lock is held across a `retain` (`manager.rs:149-150`) | the loser of a race waits for its own entry lock |
| `takeover_kicked` | no old manifest after a wipe (`writer.rs:75`, `architecture.md:79`) | the lease is released before the writer is drained |
| `sources_puller` | pull sessions poll the flag (`manager.rs:27`) | the signal is dropped, so whoever asks a worker's channel times out |
| `demux_republish` | a shared epoch (`flv.rs:77-79`) | the epoch of an earlier publish is used again |
| `cache_gop` | the TTL is never below the live window (`config.rs:81`, `config.md:54`) | segments are cut at keyframes; if those are further apart than the duration asked for, the window lasts longer than the TTL computed from it |

Why the bounds are enough. The registry's steps touch one channel and its
shard: two channels on two shards show both a session that moves and a race for
one entry, with a holder and a taker. `Lease` is never smaller than the leases
that can be referred to at once, so `Fresh` always exists. A
window of 1 with its grace of 2 prunes from the fourth segment on, and two
generations show a rotation or a reconnect and what is left of its predecessor;
`takeover` goes through four. The packager has one codec configuration and a
startup buffer of one sample, so that a replay which goes on into a new
generation, and a change of codec, are left to the theorems (the latter also to
`takeover`). A pipe of one job shows backpressure and
a job that outlives its packager. The writer's queue is 64 in the code, but its
states differ only in being empty, partly full and full, which a queue of 2
has; one file name shows every conflict, since names share nothing, and three
inodes are its contents, its temp file and the one still open. In `Takeover` the
generations left (`Needed`) bound how many sources may begin, so that none is
stopped half way by the bound. Demuxer limits of 2 and 1 keep the order of 5000
and 1000 ms; timestamps up to 4 leave room on both sides of each. In `Cache` a
TTL of 3 is the least the floor allows for a window of one segment, a budget of
2 runs out at the third segment, and in between `index.mpd` and `init.mp4`. Its
writer is done with a call's jobs before the next call (`Lag = 0`), so that the run
never meets a `Stranded` job; the theorems hold for every lag. In
`Sources` every timer is one tick: what one timer has to do with another is in the
interleavings, since all that is due within a tick comes in any order, and a
batch of two requests is the least that waits twice. One connection may ask for
both channels, so that it moves and is refused; the other asks for the worker's.
There is no bound on how often sessions come and go. All counters that time moves there are
bounded by the checked properties themselves (`SilentHolderBounded`,
`MediaGapBounded`).

No run checks deadlock. In the contended registry the program really may stop:
that is `registry_self_wait`, and `EveryCallReturns` says that nothing else
stops it. Elsewhere a packager or writer may be gone for good, and counters
reach their bounds; that no call hangs is what `DrainEnds`, `BlockedSendEnds`
and `ClosingEnds` check. In `Sources` a source that could not move when it is
due would stop time, and `KickedLeaves` and `PullKeepsTrying` fail with it.

### Also seen while modelling

Differences between the code and what the repository says of it that have no
run of their own; the models contain each, and the properties name it as an
exception.

- `init.mp4` may be gone while `index.mpd` is still there: a wipe removes files in
  the order of `read_dir` (`packager.rs:645-667`, `writer.rs:227-233`), which
  `architecture.md:67` rules out for any moment ("任何時刻"). It also ignores errors, so
  a packager may begin over an old `index.mpd`. `OneGeneration` holds of no wipe in
  progress, and of nothing after a failed operation until a wipe has left
  nothing; `ManifestAdvances` compares no `Period@id`s across an opening that left
  the old manifest.
- An error between acquisition and guard (`session.rs:548-549`) leaves the lease
  registered, and `retain` never sweeps it, although `session.rs:56` promises a
  release. `OrphansOnlyAfterError` shows it is the only way to lose a channel.
- A pull worker whose directory or packager fails to open returns for good, its
  lease registered (`pull.rs:89-102`), although `pull.rs:45` says that workers
  heal themselves: `GivesUp`.
- Two publishers that each take over the other's channel are both refused, since
  neither looks at its kick while it waits, and then both kicked; a publisher
  that asks for the channel it already has is refused and kicks itself. In
  `Sources`, `RefusalJustified` therefore speaks of holders that were reading and
  that no other request asked to go in that very instant.
- The idle timer of a session starts at its first publish request or first media,
  whichever is earlier, and a later publish does not reset it, so a republish on
  an old connection may be dropped at once; it is also enforced before the first
  A/V frame although `session.rs:178-179` says it is not.
- Events in the bytes left over from the handshake start no idle timer
  (`session.rs:162-175`), so a session that takes its channel there and sends
  neither media nor another request holds it for as long as it likes, unless it is
  kicked, although `session.rs:19-20` says it must not: `Early` in
  `SilentHolderBounded`. Whether the RTMP library ever completes a publish request
  from those bytes is its own matter; the code provides for it.
- The kick and the idle timer are looked at between reads only, so a session
  that packs several publish requests into one read waits up to
  `TAKEOVER_WAIT` for each before it notices either (`session.rs:325-335`, `426-446`):
  `BatchTime`.
- An origin that only sends pings before it accepts the request to play is never
  left (`pull.rs:208`, `226` both ask for `playing`), although `pull.rs:20-25` says
  that such sockets reconnect: `Answers`.
- `architecture.md:74` gives a worker 45 s without media; the code has 15 s
  (`pull.rs:25`).
- A live source that stalls for longer than the TTL loses its segments and then
  `index.mpd` and `init.mp4`; when it resumes in the same generation its manifest
  has no init (`janitor.rs:13`, `architecture.md:65-67`): `late`.
- When `index.mpd` took the last of the budget, or when no `index.mpd` is left,
  `init.mp4` is never removed (`janitor.rs:155`): `GhostGone` does not ask for it.
- A job that still waits in the blocking pool when the TTL has passed since its
  packager ended may write an `index.mpd` whose `init.mp4` a sweep has taken
  (`writer.rs:172`, `janitor.rs:155`): `Stranded`.
- A sweep may delete a segment or manifest written meanwhile under the name of
  the old one it looked at (`janitor.rs:119`, `156`): `hit`.
- `Drop` aborts the drain task but not its `atomic_write` in the blocking pool
  (`writer.rs:172`), which then shares its temp file with the next writer
  (`writer.rs:210`): `overtaken`.
- `prune_window` queues deletions before the manifest that no longer lists the
  segments (`packager.rs:513`; `architecture.md:59-60` forbids such a gap).
  `GapIsTransient` and `GapCloses` show that the gap is short.
- A new packager takes the current second for its `Period@id` whatever its
  predecessor had (`packager.rs:70`), so two packagers within a second share
  one although `packager.rs:65` calls it fresh. `ManifestAdvances` sees it only when the
  wipe in between has left the manifest, and exempts it.
- A failed file operation is only logged (`writer.rs:189`), so generations may
  mix (`architecture.md:65-67`) until a wipe has left nothing: `dir.lost`.
- Numbering restarts at `seg_1` at every rotation and reconnect
  (`packager.rs:122`; `architecture.md:74`, `76` say it continues).
- A session that ends with an error drops its packager with a write under way
  (`session.rs:270`); it may land after its successor's wipe, as in
  `takeover_kicked`: `clean`.
- The epoch is the larger of the first timestamps even when a track has since
  dropped its samples up to a later one (`flv.rs:116`, against `325`), so the
  tracks start up to the peer's lag apart; hence `Lag` in `StartsTogether`.

### Fairness

`ChannelManager`: weak fairness of each thread's next step, as the runtime polls
every runnable task and shard locks are held for a step only. `PackagerWriter`:
the drain task, the blocking pool, a blocked sender and an awaited join are
scheduled; nothing forces an owner to send or to close. `DashPackager`: what a
call does after it has begun, and the writer. `Sources`: nobody is
late for ever, for finitely much happens in a tick (`[]<>` nobody is `Due`), and
then time passes (strong fairness of `Tick`, which others may make late again);
what is due is done, because no tick comes before. No peer is assumed to do
anything. `Cache`: time passes, the janitor takes its next step and begins its
next sweep; whether the writer goes on does not matter. `Takeover` and `FlvDemux` state safety only.

## 4. Proofs

For all values of the constants, checked by TLAPS:

- `ChannelManager_proofs`: `TypeCorrect`, `Exclusive` (`MutualExclusion`),
  `Registered` (`HolderRegistered`), `OrphansNeedAnError`, and `Implements`
  (`Spec => Abstract!Spec`). The inductive invariant adds to the types and
  `HolderRegistered` that no lease is held twice (`Distinct`), that a
  registered lease belongs to the channel it is registered for (`SlotsNamed`),
  and what a thread owns at each label (`CallOwns`). `HolderRegistered` is not
  inductive alone: a release goes by channel id, and only `Distinct` and
  `SlotsNamed` say that the entry removed is the releaser's. `retain` removes
  nothing, since the map's own reference keeps each lease active: that lemma
  (`RetainRemovesNothing`) is also why an abandoned channel is never swept.
  `KicksHit` (`KickHitsTheChannel`): while somebody has cloned its signal a lease is
  not made again, so a late kick reaches its own channel or nobody.
- `PackagerWriter_proofs`: `TypeCorrect`, `FilesAreWhole` (`NoTornFile`),
  `FilesAreCurrent` (`NoStaleFile`) and `WriterKeepsOrder` (`ImplementsOrderedFiles`).
  As long as no job was overtaken, a job left behind runs while no task does, so at
  most one job is at work (`OneAtWork`). It owns its temp file, which no name and no
  other temp file shares (`FilesApart`, `JobOwnsTemp`), so truncating and filling it
  is invisible and the rename is where the job takes effect. The refinement names
  what may happen to files and pipe (`Abstractly`) and shows each step to be one.
- `Sources_proofs`: `TypeCorrect` (`SourcesTypeOK`) and `PackagersHoldTheirChannels`
  (`LeaseMatchesPackager`). The invariant says of each source, phase by phase,
  which of `chan`, `want` and `pkg` are set and that the registry names it as their
  owner (`SessionSound`, `WorkerSound`); a step of one source leaves the others'
  channels alone because what it takes is free and what it gives back its own
  (`Private`). `SilenceIsBounded` (`SilentHolderBounded`) and `MediaGapsAreBounded`
  (`MediaGapBounded`) add the clocks: phase by phase, how far `media` may be ahead of
  `wait`, and that `wait` is within the phase's `Patience`, since nobody is late when
  time passes. For a session the measure is what its batch may still cost: the time
  since its media, plus the waits for the requests and ends still to be
  handled, is at most what it was when the timers were last looked at plus
  `BatchTime`. `RefusalsAreJustified` (`RefusalJustified`): a session that reads
  although it was asked to go was asked in this very instant, by a request whose
  wait has not begun (`JustAsked`).
- `ChannelFiles_proofs`: `FilesPromise`, what the abstract specification promises of
  a channel directory: a manifest is of one generation with its init, a hole in
  the window is mended by a manifest under way, no file is forgotten, manifests
  only advance and name what was just added. None of this is inductive by itself,
  for the jobs not yet done decide it. So the invariant (`FilesInv`) speaks of the sequence of
  directories that the outstanding jobs lead through (`Future`): each is `Whole`,
  each hole and each old file in it is `Cared` for by a later job, and the last is
  what the packager believes is there (`Finished`). The manifests on disk and in
  the jobs are in order. A step of the packager appends to this sequence, the
  writer drops its head, and a wipe or a failed operation (`dir.lost`) suspends the promise
  of wholeness but not that of order.
- `DashPackager_proofs`: `WindowIsKept` (`WindowIsTimeline`) and `TypeCorrect`
  (`TypeOK`), for any set of packagers. A call is a composition of operators, so the
  proofs are chains of lemmas about them: a batch extends the run of numbers,
  pruning shortens it at the front, a restart empties it, and a rotation in the
  middle of a drain in the middle of a replay is a restart.
  `ImplementsFiles` (`ImplementsChannelFiles`) sorts what those operators do into
  four cases, each a step of `ChannelFiles`: nothing but bookkeeping (`Still`), an
  init (`Prepared`), a batch (`Added`), a rotation (`Rotated`); its invariant says
  that the pruned window starts where the abstract one does (`Fit`) and that jobs
  and generation belong to whoever is at work (`Owns`). Through the refinement
  `FilesPromise` gives `OneGenerationHolds`, `GapsAreTransient`, `NoSegmentForgotten`
  and `ManifestsAdvance`. Beside the files' own invariant it needs that no
  manifest on disk or in the pipe is of a generation later than the packager's last
  one whose wipe is through (`Latest`), and for `ManifestsAdvance` that generations not
  opened over a wipe have growing `Period@id`s (`Dated`). These five assume `Packager = {Only}`, as the run
  does: what they promise concerns a packager that has the directory to itself,
  and `takeover_kicked` shows that two of them keep no such promise.
- `Takeover_proofs`: `ReleasesAreDrained` (`DrainedBeforeRelease`). A packager that
  is closed or was just reset has neither jobs of its own nor a job in the pipe,
  and a source that is past its end is in that state. `SourcesDrivePackagers`: every
  step of a source is a step of `DashPackager` or none, so `TypeCorrect` and
  `WindowIsKept` hold here as well; with it `SourcesTyped` (`TakeoverTypeOK`).
  `NoForeignFiles` (`NoForeignFile`): a packager and its jobs only name generations it
  began (`Belongs`), a source that is away has no packager (`Stands`), and one that
  began clean is alone with its files until it leaves (`Sole`): any other can only
  begin once the registry has its channel back. While it wipes it has nothing of its own
  yet, files only grow fewer, and when it goes on none is left, if no file operation
  fails (`~MayFail`). All for any number of sources.
- `Cache_proofs`: `CacheTypeCorrect` (`CacheTypeOK`): what is left of the budget
  stays in range, so a sweep never exceeds it. `TtlCoversWindow`: the TTL is at
  least twice the window of the configured duration, for every configuration.
  `WindowSurvives` (`LiveWindowKept`): if `Keep` segments last no longer than the TTL, no
  sweep takes one of a live window. The invariant has two sides. `Paced`: jobs are in
  line by generation and number, and a segment's age is at most the time its
  successors take (`Timed`), counted up to the next one due, whether that is queued or
  not yet cut. `Judged`: what a sweep holds against a segment is true until it is
  deleted, or the segment was written meanwhile, or is gone. Nothing is assumed of
  the writer's lag, batches, failures or other sweeps. `WindowSurvivesTtl` puts the
  two together: two segments or more of the configured length are safe under
  every configured TTL. The hypothesis is what `cache_gop` violates, and a window of
  one segment has only the floor of 30 s for its grace.
  `InitSurvives` (`InitOutlivesManifest`): a manifest keeps its `init.mp4` if `Patient`:
  `MaxBatch + 1` segments last no longer than the TTL, and no sweep does. Its
  invariant follows what the directory would be without a sweep, now and after each
  of the jobs (`Course`): its init, its manifest and its newest segment, each job
  `Timely`. At each stage the manifest has its init and lists all but a call's
  segments (`Sound`), the directory is the first stage less what sweeps took
  (`Reflects`), the last is where the packager is (`Reaches`), and while there is a
  source or a job the newest segment and the manifest are `Young`. So a manifest beyond
  the TTL is of a generation whose segments are gone, and then no manifest comes
  before another `init.mp4` (`Closes`, `Outgrown`), which is what a sweep that goes on
  to `init.mp4` without a look relies on (`Decided`). `InitSurvivesTtl` has `Patient`
  from the configuration: the TTL is two windows at least, and calls add fewer.
  That a sweep takes less than the TTL, 30 s or more, stays an assumption.
- `FlvDemux_proofs`: `TypeCorrect`, `CountsAll` (`NeverUndercounts`), for any
  behaviour of the peer, and `AlignedStart` (`StartsTogether`). The latter's
  invariant holds while the peer is `steady`: a pending sample is no newer than
  the peer's clock, so that the sample that seals the epoch is at most `Lag`
  older than what the other track waits with, and a track that has not started
  waits within reach of the epoch. A rotation establishes it again.
  `TimelineGrows` (`MonotoneTimeline`): durations are clamped above zero, so within a
  generation every new sample boundary moves the track's `tfdt` on.

Otherwise the assumptions are the named ones of the modules.

Only model-checked:

- Liveness (`EveryCallReturns`, `BlockedSendEnds`, `DrainEnds`, `GapCloses`,
  `ClosingEnds`, `GhostGone`, `KickedLeaves`, `PullKeepsTrying`): it rests on fairness,
  which is out of the prover's reach.

Every invariant and every action property of a passing run has its theorem.

## 5. Not modelled

Handshakes, RTMP chunks, tag parsing, fMP4 parsing, manifest text and metrics
are data or external crates. `availability_start_time`, tick arithmetic of the
timeline and the degraded latch do not influence control and are left out, and so
are the janitor's `.tmp` files and its unused `remove_channel_dir`. The supervisors
(`main.rs:133-154`) have a backoff as their only state; the services they restart do
not return except by a panic, about which the source says nothing. Parsing and
validation of the configuration give the modules' assumptions.

## 6. Plan

1. `Takeover` with a second publish on a live connection, whose old packager is
   dropped while the new one begins elsewhere.
2. The demuxer's samples through the packager's sync gate, for the offset of
   the segmenter's two timelines.
