---- MODULE DashPackager ----
(***************************************************************************)
(* The live DASH packager of src/dash/packager.rs and the channel          *)
(* directory its writer fills.  A packager turns samples into numbered     *)
(* segments, keeps a sliding window of them, and republishes index.mpd; a  *)
(* change of codec or a jump of the timeline rotates it into a new         *)
(* generation.  Nobody sees a packager's state between two of its own file *)
(* jobs, so a handler is one step that leaves its jobs in "todo", and they *)
(* reach the disk through a bounded pipe in order (OrderedFiles).          *)
(***************************************************************************)
EXTENDS DirectoryJobs

CONSTANTS Packager,
          Depth,          \* jobs the writer holds: queue and running job
          ConfigId,       \* codec configurations of a track (0: none yet)
          Builds,         \* outcomes of building a segmenter and its init
          MayFail,        \* whether a file operation may fail
          MaxPending,     \* samples kept while codecs are missing (64 MiB)
          MaxBatch,       \* bound on the fragments one push makes ready
          MaxGen,         \* bound on generations
          MaxClock        \* bound on wall-clock seconds

ASSUME PackagerAssumption ==
    /\ Depth \in Nat \ {0}
    /\ ConfigId \subseteq Nat \ {0} /\ Builds \subseteq BOOLEAN /\ MayFail \in BOOLEAN
    /\ MaxPending \in Nat /\ MaxBatch \in Nat /\ MaxGen \in Nat /\ MaxClock \in Nat \ {0}

VARIABLES
    pk,      \* the packagers
    pipe,    \* per packager: jobs its writer has accepted and not yet done
    dir,     \* the files of the channel directory
    periods, \* history: the generations begun, with their Period@id and packager, and
             \* whether the packager was opened with it
    now      \* wall-clock second

vars == <<pk, pipe, dir, periods, now>>

Closed == [phase |-> "gone", todo |-> <<>>, video |-> 0, audio |-> 0, seg |-> FALSE,
           pending |-> <<>>, replay |-> <<>>, started |-> FALSE,
           next |-> 1, start |-> 1, timeline |-> <<>>, gen |-> 0, period |-> 0]

Gens     == 0..MaxGen
Numbers  == 1..(MaxSeg + 1)
JobSet   == {InitJob(g) : g \in Gens} \cup {SegJob(g, n) : g \in Gens, n \in 1..MaxSeg}
            \cup [kind : {"mpd"}, gen : Gens, segs : Seq(1..MaxSeg)]
            \cup {DelSeg(n) : n \in 1..MaxSeg} \cup {DelMpd}
Samples  == {"sync", "other"}    \* a video random-access sample, any other sample

SmallSeq(n) == UNION {[1..k -> Samples] : k \in 0..n}

TypeOK ==
    /\ pk \in [Packager ->
         [phase : {"gone", "opening", "live", "closing", "closed", "wiping"}, todo : Seq(JobSet),
          video : ConfigId \cup {0}, audio : ConfigId \cup {0}, seg : BOOLEAN,
          pending : SmallSeq(MaxPending), replay : Seq(Samples), started : BOOLEAN,
          next : Numbers, start : Numbers, timeline : Seq(1..MaxSeg),
          gen : Gens, period : Nat]]
    /\ pipe \in [Packager -> Seq(JobSet)]
    /\ dir \in [init : Gens, mpd : [gen : Gens, segs : Seq(1..MaxSeg)],
                seg : [1..MaxSeg -> Gens], lost : BOOLEAN]
    /\ periods \in Seq([id : Nat, by : Packager, opens : BOOLEAN]) /\ Len(periods) \in Gens
    /\ now \in 1..MaxClock

Init ==
    /\ pk = [p \in Packager |-> Closed]
    /\ pipe = [p \in Packager |-> <<>>]
    /\ dir = EmptyDir /\ periods = <<>> /\ now = 1

-----------------------------------------------------------------------------
\* The parts of the handlers, as functions of the packager r they work on.

\* next_period_id: seconds, or one more than the current id.
PeriodIsNow(current) == now   \* mutant
NextPeriod(current) == IF current = 0 \/ now > current THEN now ELSE current + 1

Both(r) == r.video # 0 /\ r.audio # 0

\* replay_pending_samples: what follows the first video sync sample, or nothing.
FromSync(s) ==
    IF \E i \in DOMAIN s : s[i] = "sync"
    THEN SubSeq(s, CHOOSE i \in DOMAIN s : s[i] = "sync" /\ \A j \in 1..(i - 1) : s[j] # "sync", Len(s))
    ELSE <<>>

\* build_segmenter and install_segmenter.  Samples that an interrupted replay
\* still has to push are pushed into the new segmenter.
Start(r, built) ==
    IF r.seg \/ ~Both(r) \/ ~built THEN r
    ELSE [r EXCEPT !.todo = Append(@, InitJob(r.gen)), !.seg = TRUE,
                   !.replay = @ \o FromSync(r.pending), !.pending = <<>>]

Purge(r) ==
    [i \in DOMAIN r.timeline |-> DelSeg(r.timeline[i])]
    \o [i \in 1..(r.next - r.start) |-> DelSeg(r.start + i - 1)] \o <<DelMpd>>

\* A generation's own state, and numbering restarted at seg_1.
Restart(r, g) ==
    [r EXCEPT !.seg = FALSE, !.pending = <<>>, !.started = FALSE, !.timeline = <<>>,
              !.next = 1, !.start = 1, !.gen = g, !.period = NextPeriod(r.period)]

\* Mutants: the old files stay; the numbering restarts before they are purged.
RotateWithoutPurge(r, built) == Start(Restart(r, Len(periods) + 1), built)
RotateResetFirst(r, built) ==
    LET new == Restart(r, Len(periods) + 1)
    IN  Start([new EXCEPT !.todo = @ \o Purge(new)], built)

Rotate(r, built) ==
    Start(Restart([r EXCEPT !.todo = @ \o Purge(r)], Len(periods) + 1), built)

\* while the front entry's number is below the window: pop_front.
PopBelow(t, low) ==
    LET first == CHOOSE i \in 1..(Len(t) + 1) :
                    /\ \A j \in 1..(i - 1) : t[j] < low
                    /\ i <= Len(t) => t[i] >= low
    IN  SubSeq(t, first, Len(t))

\* The k fragments of a batch become the next k segments.
Number(r, k) == [i \in 1..k |-> r.next + i - 1]
AddSegments(r, k) ==
    [r EXCEPT !.todo = @ \o [i \in 1..k |-> SegJob(r.gen, Number(r, k)[i])],
              !.timeline = @ \o Number(r, k), !.next = @ + k]

PruneFilesOnly(r) ==   \* mutant: the timeline does not slide
    LET low == IF r.next - r.start > Keep THEN r.next - Keep ELSE r.start
    IN  [r EXCEPT !.todo = @ \o [i \in 1..(low - r.start) |-> DelSeg(r.start + i - 1)],
                  !.start = low]

Prune(r) ==
    LET low == IF r.next - r.start > Keep THEN r.next - Keep ELSE r.start
    IN  [r EXCEPT !.todo = @ \o [i \in 1..(low - r.start) |-> DelSeg(r.start + i - 1)],
                  !.start = low,
                  !.timeline = IF low = r.start THEN @ ELSE PopBelow(@, low)]

\* mpd_dirty is set by AddSegments and Prune only, and cleared here.
FlushMpd(r, dirty) ==
    IF dirty /\ Both(r) /\ r.timeline # <<>>
    THEN [r EXCEPT !.todo = Append(@, MpdJob(r.gen, r.timeline))] ELSE r

DrainFlushFirst(r, k, skewed, built) ==   \* mutant: manifest before pruning
    IF skewed THEN Rotate(AddSegments(r, k), built)
    ELSE Prune(FlushMpd(AddSegments(r, k), k > 0))

\* drain_ready: k good fragments, then nothing or one with too much A/V skew.
Drain(r, k, skewed, built) ==
    IF skewed THEN Rotate(AddSegments(r, k), built)
    ELSE FlushMpd(Prune(AddSegments(r, k)), k > 0)

\* push_ready_sample: the fragments it makes ready are the segmenter's choice.
Push(r, sample, k, skewed, built) ==
    IF ~r.started /\ sample # "sync" THEN r
    ELSE IF ~r.seg THEN [r EXCEPT !.started = TRUE]
    ELSE Drain([r EXCEPT !.started = TRUE], k, skewed, built)

-----------------------------------------------------------------------------
\* A packager takes a call when the previous one has returned.
Ready(p)  == pk[p].phase = "live" /\ pk[p].todo = <<>> /\ pk[p].replay = <<>>
Becomes(p, r) ==
    /\ r.gen <= MaxGen
    /\ pk' = [pk EXCEPT ![p] = r]
    /\ periods' = IF r.gen > Len(periods)
                  THEN Append(periods, [id |-> r.period, by |-> p, opens |-> pk[p].phase = "opening"])
                  ELSE periods

Batch(r, k) == k <= MaxBatch /\ r.next + k - 1 <= MaxSeg

\* new / resume, called: the directory is about to be cleared.
Open(p) ==
    /\ pk[p].phase = "gone" /\ pipe[p] = <<>> /\ Len(periods) < MaxGen
    /\ Becomes(p, [Closed EXCEPT !.phase = "opening"])
    /\ UNCHANGED <<pipe, dir, now>>

\* clear_channel_dir and wipe_channel_media: the files are removed one by one.
Drained(p) == pk[p].todo = <<>> /\ pipe[p] = <<>>
Wipes(p)   == pk[p].phase \in {"opening", "wiping"} /\ Drained(p)
Remove(p) ==
    /\ Wipes(p) /\ dir' \in Fewer(dir)
    /\ UNCHANGED <<pk, pipe, periods, now>>

\* The wipe is through.  A removal that failed is ignored and leaves its file.
Wiped == \/ Swept(dir) /\ dir' = EmptyDir
         \/ MayFail /\ ~Swept(dir) /\ dir' = [dir EXCEPT !.lost = TRUE]

\* Mutant: the directory keeps the files of an earlier packager.
OpenedUncleared(p) ==
    /\ pk[p].phase = "opening"
    /\ Becomes(p, [Restart(Closed, Len(periods) + 1) EXCEPT !.phase = "live"])
    /\ UNCHANGED <<pipe, dir, now>>

\* new / resume, on: the writer is spawned and the first generation begins.
Opened(p) ==
    /\ pk[p].phase = "opening" /\ Wiped
    /\ Becomes(p, [Restart(Closed, Len(periods) + 1) EXCEPT !.phase = "live"])
    /\ UNCHANGED <<pipe, now>>

\* handle_au, VideoConfig and AudioConfig.
VideoConfig(p, c, built) ==
    /\ Ready(p)
    /\ LET r == [pk[p] EXCEPT !.video = c] IN
       \/ pk[p].video = 0 /\ Becomes(p, Start(r, built))
       \/ pk[p].video \notin {0, c} /\ Becomes(p, Rotate(r, built))
    /\ UNCHANGED <<pipe, dir, now>>

AudioConfig(p, c, built) ==
    /\ Ready(p)
    /\ LET r == [pk[p] EXCEPT !.audio = c] IN
       \/ pk[p].audio = 0 /\ Becomes(p, Start(r, built))
       \/ pk[p].audio \notin {0, c} /\ Becomes(p, Rotate(r, built))
    /\ UNCHANGED <<pipe, dir, now>>

\* handle_au, TimelineDiscontinuity.
Discontinuity(p, built) ==
    /\ Ready(p)
    /\ Becomes(p, Rotate(pk[p], built))
    /\ UNCHANGED <<pipe, dir, now>>

\* Mutant: the startup buffer is not bounded.
QueueUnbounded(p, sample) ==
    /\ Ready(p) /\ ~pk[p].seg
    /\ Becomes(p, [pk[p] EXCEPT !.pending = Append(@, sample)])
    /\ UNCHANGED <<pipe, dir, now>>

\* push_sample before the segmenter exists: the oldest sample makes room.
QueueSample(p, sample) ==
    /\ Ready(p) /\ ~pk[p].seg
    /\ LET q == Append(pk[p].pending, sample) IN
       Becomes(p, [pk[p] EXCEPT !.pending = IF Len(q) > MaxPending THEN Tail(q) ELSE q])
    /\ UNCHANGED <<pipe, dir, now>>

PushSample(p, sample, k, skewed, built) ==
    /\ Ready(p) /\ pk[p].seg /\ Batch(pk[p], k)
    /\ Becomes(p, Push(pk[p], sample, k, skewed, built))
    /\ UNCHANGED <<pipe, dir, now>>

\* One more sample of replay_pending_samples.
ReplaySample(p, k, skewed, built) ==
    /\ pk[p].phase = "live" /\ pk[p].todo = <<>> /\ pk[p].replay # <<>> /\ Batch(pk[p], k)
    /\ Becomes(p, Push([pk[p] EXCEPT !.replay = Tail(@)], Head(pk[p].replay), k, skewed, built))
    /\ UNCHANGED <<pipe, dir, now>>

\* finish: flush_tail, then the writer is shut down and drained.
Finish(p, k, skewed, built) ==
    /\ Ready(p) /\ Batch(pk[p], k) /\ (k > 0 \/ skewed => pk[p].started)
    /\ Becomes(p, [(IF pk[p].seg THEN Drain(pk[p], k, skewed, built) ELSE pk[p])
                   EXCEPT !.phase = "closing"])
    /\ UNCHANGED <<pipe, dir, now>>

FinishDone(p) ==
    /\ pk[p].phase = "closing" /\ Drained(p)
    /\ Becomes(p, [pk[p] EXCEPT !.phase = "closed"])
    /\ UNCHANGED <<pipe, dir, now>>

\* prepare_for_reconnect, of a live packager (pull) or a finished one
\* (publish): everything is reset, the codecs included, the writer drained,
\* the directory wiped (Remove) and a new writer spawned.
Reconnect(p) ==
    /\ Ready(p) \/ pk[p].phase = "closed"
    /\ Becomes(p, [Restart(pk[p], Len(periods) + 1)
                   EXCEPT !.video = 0, !.audio = 0, !.phase = "wiping"])
    /\ UNCHANGED <<pipe, dir, now>>

ReconnectDone(p) ==
    /\ pk[p].phase = "wiping" /\ Drained(p) /\ Wiped
    /\ Becomes(p, [pk[p] EXCEPT !.phase = "live"])
    /\ UNCHANGED <<pipe, now>>

\* The packager is dropped: its writer is aborted; at most the job in the
\* blocking pool still takes effect.
Drop(p) ==
    /\ Ready(p) \/ pk[p].phase = "closed"
    /\ pk' = [pk EXCEPT ![p] = Closed]
    /\ \E k \in 0..1 : k <= Len(pipe[p]) /\ pipe' = [pipe EXCEPT ![p] = SubSeq(@, 1, k)]
    /\ UNCHANGED <<dir, periods, now>>

-----------------------------------------------------------------------------
\* Mutant: no job is accepted any more once the packager is closing.
AcceptWhileLive(p) ==
    /\ pk[p].phase = "live" /\ pk[p].todo # <<>> /\ Len(pipe[p]) < Depth
    /\ pipe' = [pipe EXCEPT ![p] = Append(@, Head(pk[p].todo))]
    /\ pk' = [pk EXCEPT ![p].todo = Tail(@)]
    /\ UNCHANGED <<dir, periods, now>>

\* The writer: it accepts the next job when it has room, and does its oldest.
Accept(p) ==
    /\ pk[p].todo # <<>> /\ Len(pipe[p]) < Depth
    /\ pipe' = [pipe EXCEPT ![p] = Append(@, Head(pk[p].todo))]
    /\ pk' = [pk EXCEPT ![p].todo = Tail(@)]
    /\ UNCHANGED <<dir, periods, now>>

Apply(p) ==
    /\ pipe[p] # <<>>
    /\ dir' = After(dir, Head(pipe[p]))
    /\ pipe' = [pipe EXCEPT ![p] = Tail(@)]
    /\ UNCHANGED <<pk, periods, now>>

\* A file operation fails: it is logged and the next job follows.
FailJob(p) ==
    /\ MayFail /\ pipe[p] # <<>>
    /\ pipe' = [pipe EXCEPT ![p] = Tail(@)]
    /\ dir' = [dir EXCEPT !.lost = TRUE]
    /\ UNCHANGED <<pk, periods, now>>

Tick == now < MaxClock /\ now' = now + 1 /\ UNCHANGED <<pk, pipe, dir, periods>>

Media(p) ==
    \E built \in Builds :
        \/ \E c \in ConfigId : VideoConfig(p, c, built) \/ AudioConfig(p, c, built)
        \/ Discontinuity(p, built)
        \/ \E sample \in Samples : QueueSample(p, sample)
        \/ \E sample \in Samples, k \in 0..MaxBatch, skewed \in BOOLEAN :
              PushSample(p, sample, k, skewed, built)

\* What the packager does by itself once called.
Inner(p) ==
    \/ \E built \in Builds, k \in 0..MaxBatch, skewed \in BOOLEAN :
          ReplaySample(p, k, skewed, built)
    \/ Remove(p) \/ Opened(p) \/ FinishDone(p) \/ ReconnectDone(p) \/ Accept(p) \/ Apply(p)

Owner(p) ==
    \/ Open(p) \/ Reconnect(p) \/ Drop(p)
    \/ \E built \in Builds, k \in 0..MaxBatch, skewed \in BOOLEAN : Finish(p, k, skewed, built)

Next == Tick \/ \E p \in Packager : Media(p) \/ Inner(p) \/ Owner(p) \/ FailJob(p)

Spec == Init /\ [][Next]_vars

\* The writer task runs, and a call that has begun goes on.
FairSpec == Spec /\ \A p \in Packager : WF_vars(Inner(p))

-----------------------------------------------------------------------------
Pipeline(p) == pipe[p] \o pk[p].todo
Awaits(p, kinds) == \E i \in DOMAIN Pipeline(p) : Pipeline(p)[i].kind \in kinds
Listed == {dir.mpd.segs[i] : i \in DOMAIN dir.mpd.segs}
Gap == \E n \in Listed : dir.seg[n] = 0
Tended == \E p \in Packager : pk[p].phase \notin {"gone", "opening"}

\* The timeline is exactly the window: numbered without a hole, and never
\* longer than the window and its grace (packager.rs:31-34, 508-523).
WindowIsTimeline ==
    \A p \in Packager : LET r == pk[p] IN
        /\ r.timeline = [i \in 1..(r.next - r.start) |-> r.start + i - 1]
        /\ r.next - r.start <= Keep

\* architecture.md:67 says of any moment that index.mpd lists only segments of
\* the generation of the init.mp4 on disk.  That holds but while the directory
\* is wiped, when init.mp4 may go before index.mpd, and until it is wiped again
\* if a file operation has failed.
OneGeneration ==
    dir.mpd # NoMpd /\ ~dir.lost =>
        /\ dir.init = dir.mpd.gen
        /\ \A n \in Listed : dir.seg[n] \in {0, dir.mpd.gen}

\* Under a packager, a listed segment is missing only while its writer still
\* has a newer index.mpd to write, or the old one to delete or wipe.
GapIsTransient ==
    Tended /\ Gap /\ ~dir.lost =>
        \E p \in Packager : Awaits(p, {"mpd", "del_mpd"}) \/ pk[p].phase = "wiping"

\* Under a packager, every segment file on disk is in the window of its
\* generation, or its deletion is on its way: neither pruning nor rotation
\* forgets a file.
NoForgottenSegment ==
    Tended /\ ~dir.lost => \A n \in 1..MaxSeg : dir.seg[n] # 0 =>
        \E p \in Packager :
            \/ dir.seg[n] = pk[p].gen /\ n \in pk[p].start..(pk[p].next - 1)
            \/ \E i \in DOMAIN Pipeline(p) : Pipeline(p)[i] = DelSeg(n)
            \/ pk[p].phase = "wiping"

\* Viewers never see time run backwards, even if file operations fail: a new
\* index.mpd is of a later generation with a later Period@id, or of the same
\* one with no older first and last segment.  The Period@id may be the same if
\* a packager has been opened in between whose wipe has left the old one.
ManifestAdvances ==
    [][dir.mpd # NoMpd /\ dir'.mpd # NoMpd =>
        \/ /\ dir'.mpd.gen > dir.mpd.gen
           /\ \/ periods[dir'.mpd.gen].id > periods[dir.mpd.gen].id
              \/ \E g \in (dir.mpd.gen + 1)..dir'.mpd.gen : periods[g].opens
        \/ /\ dir'.mpd.gen = dir.mpd.gen
           /\ Head(dir'.mpd.segs) >= Head(dir.mpd.segs)
           /\ dir'.mpd.segs[Len(dir'.mpd.segs)] >= dir.mpd.segs[Len(dir.mpd.segs)]]_vars

\* A listed gap (architecture.md:59 forbids any) closes again, unless the
\* packager is dropped first or a file operation fails.
GapCloses == Tended /\ Gap ~> ~Tended \/ ~Gap \/ dir.lost

\* What a packager does to the files of its channel is what ChannelFiles
\* promises; stated of an instance with one packager.
Only == CHOOSE p \in Packager : TRUE
Feed == IF pk[Only].phase \in {"live", "closing", "closed"}
        THEN [live |-> TRUE, gen |-> pk[Only].gen, ready |-> pk[Only].seg, next |-> pk[Only].next]
        ELSE [live |-> FALSE, gen |-> 0, ready |-> FALSE, next |-> 1]
Files == INSTANCE ChannelFiles WITH
    Lag  <- Depth, FirstGen <- 1..MaxGen, LastSeg <- [g \in 1..MaxGen |-> MaxSeg],
    jobs <- Pipeline(Only),
    feed <- Feed
ImplementsChannelFiles == Files!FilesSpec

\* new, finish and prepare_for_reconnect return.
ClosingEnds == \A p \in Packager : pk[p].phase \in {"opening", "closing", "wiping"} ~>
                                   pk[p].phase \notin {"opening", "closing", "wiping"}
====
