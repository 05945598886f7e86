---- MODULE Cache ----
(***************************************************************************)
(* The cache janitor of src/cache/janitor.rs at work in the directory of a *)
(* channel that a packager fills (ChannelFiles), with the TTL of           *)
(* src/config.rs.  A sweep compares the files' ages with one clock value   *)
(* taken when it starts, decides in a pass over the directory, and deletes *)
(* afterwards, call by call, while the packager and its writer go on.      *)
(***************************************************************************)
EXTENDS ChannelFiles

CONSTANTS SegmentSecs, \* cache.segment_duration_secs, in ticks
          GopSecs,     \* what a segment really lasts: it is cut at a keyframe
          TtlSecs,     \* cache.ttl_secs, 0 if it is not set
          MinTtl,      \* the floor of 30 s, in ticks
          Budget,      \* MAX_DELETIONS_PER_CHANNEL_SWEEP
          SweepTicks,  \* bound on the ticks that pass during a sweep,
          SweepCalls   \* and on the packager's calls

ASSUME CacheAssumption ==
    /\ SegmentSecs \in Nat \ {0} /\ GopSecs \in Nat \ {0} /\ TtlSecs \in Nat /\ MinTtl \in Nat
    /\ Budget \in Nat \ {0} /\ SweepTicks \in Nat /\ SweepCalls \in Nat

VARIABLES
    age,    \* ticks since each file was written, as far as a sweep can tell
    sweep,  \* the sweep of this directory
    late,   \* history: the last wipe has left files, or since it began a live packager's
            \* newest segment has been older than a segment lasts, or a job of an
            \* ended packager has waited while time passed
    hit     \* history: since then, a sweep has deleted a file written under it

cache == <<age, sweep, late, hit>>
cacheVars == <<fileVars, cache>>

\* Files by number: init.mp4, the segments, index.mpd.
InitFile == 0
MpdFile  == MaxSeg + 1
File     == 0..(MaxSeg + 1)
Content(d, f) == IF f = InitFile THEN <<d.init>>
                 ELSE IF f = MpdFile THEN <<d.mpd>> ELSE <<d.seg[f]>>
Present(d, f) == IF f = InitFile THEN d.init # 0
                 ELSE IF f = MpdFile THEN d.mpd # NoMpd ELSE d.seg[f] # 0

\* effective_ttl_secs.
ConfiguredTtl == IF TtlSecs = 0 THEN WindowSegments * SegmentSecs ELSE TtlSecs  \* mutant
EffectiveTtl ==
    LET double == 2 * WindowSegments * SegmentSecs
        floor  == IF double > MinTtl THEN double ELSE MinTtl
    IN  IF TtlSecs > floor THEN TtlSecs ELSE floor

Idle == [phase |-> "idle", old |-> {}, young |-> {}, new |-> {}, expired |-> {},
         left |-> FALSE, fresh |-> FALSE, mpd |-> FALSE, init |-> FALSE, budget |-> 0, ticks |-> 0, calls |-> 0]

CacheTypeOK ==
    /\ age \in [File -> 0..(EffectiveTtl + SweepTicks + 1)]
    /\ sweep \in [phase : {"idle", "scan", "delete", "check", "drop_mpd", "drop_init"},
                  old : SUBSET File, young : SUBSET File, new : SUBSET File,
                  expired : SUBSET (1..MaxSeg), left : BOOLEAN, fresh : BOOLEAN,
                  mpd : BOOLEAN, init : BOOLEAN, budget : 0..Budget, ticks : 0..SweepTicks,
                  calls : 0..SweepCalls]
    /\ late \in BOOLEAN /\ hit \in BOOLEAN

CacheInit ==
    /\ Init /\ age = [f \in File |-> 0] /\ sweep = Idle
    /\ late = FALSE /\ hit = FALSE

-----------------------------------------------------------------------------
\* Old: its age, when the clock was read for the sweep, was beyond the TTL.  A
\* file written since is not.
Old(f) == age[f] > EffectiveTtl + sweep.ticks

\* Files that are replaced, deleted or created while the sweep reads the directory.
Touched == sweep.old \cup sweep.young \cup sweep.new
Noted(changed) ==
    LET first == {f \in changed \ Touched : Present(dir, f)} IN
    [sweep EXCEPT !.old = @ \cup {f \in first : Old(f)},
                  !.young = @ \cup {f \in first : ~Old(f)},
                  !.new = @ \cup {f \in changed : Present(dir', f)}]

\* Only bounds: what happens while a sweep is under way is counted.
Calls(s) == IF sweep.phase # "idle" /\ feed' # feed THEN [s EXCEPT !.calls = @ + 1] ELSE s

\* A wipe removes a file, or is through.
Wiping == ~feed.live /\ (feed'.live \/ (dir' # dir /\ jobs' = jobs))

\* The packager or its writer takes a step: a file that changes is a new file,
\* for no job writes what is already there.
Packaging ==
    /\ FilesNext
    /\ LET changed == {f \in File : Content(dir', f) # Content(dir, f)} IN
         /\ age' = IF changed = {} THEN age
                   ELSE [f \in File |-> IF f \in changed THEN 0 ELSE age[f]]
         /\ sweep' = Calls(IF sweep.phase = "scan" THEN Noted(changed) ELSE sweep)
    /\ sweep'.calls <= SweepCalls
    /\ late' = IF Wiping THEN feed'.live /\ dir'.lost ELSE late
    /\ hit' = (hit /\ ~Wiping)

Segs    == {n \in 1..MaxSeg : Present(dir, n)}
Overdue == feed.live /\ Segs # {} /\ \A n \in Segs : age[n] >= GopSecs
Stranded == ~feed.live /\ jobs # <<>>

Pass ==
    /\ sweep.phase # "idle" => sweep.ticks < SweepTicks
    /\ sweep' = IF sweep.phase = "idle" THEN sweep ELSE [sweep EXCEPT !.ticks = @ + 1]
    /\ age' = [f \in File |-> IF ~Present(dir, f) THEN 0
                              ELSE IF age[f] > EffectiveTtl + SweepTicks THEN age[f] ELSE age[f] + 1]
    /\ late' = (late \/ Overdue \/ Stranded)
    /\ UNCHANGED <<fileVars, hit>>

-----------------------------------------------------------------------------
\* Removed by the janitor.
Removes(f) ==
    /\ dir' = IF f = InitFile THEN [dir EXCEPT !.init = 0]
              ELSE IF f = MpdFile THEN [dir EXCEPT !.mpd = NoMpd]
              ELSE [dir EXCEPT !.seg[f] = 0]
    /\ age' = [age EXCEPT ![f] = 0]
    /\ hit' = (hit \/ age[f] <= EffectiveTtl)
    /\ UNCHANGED <<jobs, feed, late>>
Keeps == UNCHANGED <<fileVars, age, late, hit>>

\* Mutant: only the directories of live channels are swept.
BeginLive ==
    /\ sweep.phase = "idle" /\ feed.live /\ \E f \in File : Old(f)
    /\ sweep' = [Idle EXCEPT !.phase = "scan", !.budget = Budget]
    /\ Keeps

\* sweep: the clock is read once, then the channel directory is opened.  A
\* sweep that begins when no file is older than the TTL deletes nothing, and
\* is left out.
Begin ==
    /\ sweep.phase = "idle" /\ \E f \in File : Old(f)
    /\ sweep' = [Idle EXCEPT !.phase = "scan", !.budget = Budget]
    /\ Keeps

\* Mutant: deletes go on when the budget is spent.
SettledOverBudget(s) ==
    IF s.expired # {} THEN [s EXCEPT !.phase = "delete"]
    ELSE IF ~s.left /\ ~s.fresh /\ s.mpd /\ s.budget > 0
         THEN [s EXCEPT !.phase = "check"] ELSE Idle

\* What is left to do: delete segments, look at index.mpd, or nothing.
Settled(s) ==
    IF s.expired # {} /\ s.budget > 0 THEN [s EXCEPT !.phase = "delete"]
    ELSE IF s.expired = {} /\ ~s.left /\ ~s.fresh /\ s.mpd /\ s.budget > 0
         THEN [s EXCEPT !.phase = "check"] ELSE Idle

\* The pass over the directory looks at every file; at one that changes under
\* it before the change, afterwards, or not at all.
Scan(early, new) ==
    /\ sweep.phase = "scan"
    /\ LET steady == {f \in File \ Touched : Present(dir, f)}
           seen == steady \cup early \cup new
           expired == {f \in seen : (f \in steady /\ Old(f)) \/ f \in early \cap sweep.old}
       IN  sweep' = Settled([Idle EXCEPT
               !.ticks = sweep.ticks, !.calls = sweep.calls, !.budget = sweep.budget,
               !.expired = expired \cap 1..MaxSeg,
               !.fresh = (seen \ expired) \cap 1..MaxSeg # {},
               !.mpd = MpdFile \in seen, !.init = InitFile \in seen])
    /\ Keeps

\* Expired segments are deleted while the budget lasts; one that has gone
\* meanwhile is a failure, and counts as left.
DeleteSegment(f) ==
    /\ sweep.phase = "delete" /\ f \in sweep.expired
    /\ LET s == [sweep EXCEPT !.expired = @ \ {f}] IN
       \/ /\ Present(dir, f) /\ Removes(f)
          /\ sweep' = Settled([s EXCEPT !.budget = @ - 1])
       \/ /\ ~Present(dir, f) /\ Keeps
          /\ sweep' = Settled([s EXCEPT !.left = TRUE])

\* No segment was left: is index.mpd an old one?
CheckManifest ==
    /\ sweep.phase = "check"
    /\ sweep' = IF Present(dir, MpdFile) /\ Old(MpdFile)
                THEN [sweep EXCEPT !.phase = "drop_mpd"] ELSE Idle
    /\ Keeps

\* Mutant: init.mp4 goes first.
DropInitFirst ==
    /\ sweep.phase = "drop_mpd"
    /\ IF Present(dir, InitFile) THEN Removes(InitFile) ELSE Keeps
    /\ sweep' = [sweep EXCEPT !.phase = "drop_init"]

\* remove_file of index.mpd, whatever it is by now.
DropManifest ==
    /\ sweep.phase = "drop_mpd"
    /\ \/ /\ Present(dir, MpdFile) /\ Removes(MpdFile)
          /\ sweep' = IF sweep.init /\ sweep.budget > 1
                      THEN [sweep EXCEPT !.phase = "drop_init", !.budget = @ - 1] ELSE Idle
       \/ ~Present(dir, MpdFile) /\ sweep' = Idle /\ Keeps

\* And of init.mp4, whose age has not been looked at.
DropInit ==
    /\ sweep.phase = "drop_init"
    /\ IF Present(dir, InitFile) THEN Removes(InitFile) ELSE Keeps
    /\ sweep' = Idle

Sweeps ==
    \/ Begin \/ Scan({}, {}) \/ CheckManifest \/ DropManifest \/ DropInit
    \/ \E f \in 1..MaxSeg : DeleteSegment(f)

Janitor ==
    \/ Sweeps
    \/ \E early \in SUBSET (sweep.old \cup sweep.young) :
          \E new \in SUBSET (sweep.new \ early) : Scan(early, new)

CacheNext == Packaging \/ Pass \/ Janitor

CacheSpec == CacheInit /\ [][CacheNext]_cacheVars

\* Time passes and the janitor sweeps again and again; whether the writer goes
\* on does not matter.
CacheFair == CacheSpec /\ WF_cacheVars(Pass) /\ WF_cacheVars(Sweeps)

-----------------------------------------------------------------------------
\* config.rs:81, "never below the live window duration": a sweep takes no
\* segment of a live packager's window, if its segments come in time; but it
\* may take one that has just been written under the name of an old one.
LiveWindow == {n \in Segs : feed.live /\ dir.seg[n] = feed.gen /\ n >= First(feed.next)}
LiveWindowKept ==
    [][dir' # dir /\ UNCHANGED <<jobs, feed>> =>
         \A n \in LiveWindow : Present(dir', n) \/ late \/ age[n] <= sweep.ticks]_cacheVars

\* janitor.rs:13, "preserves init.mp4": whatever is left in the directory by
\* sweeps, a manifest has the init.mp4 of its generation, unless its source has
\* stalled, a job was left to wait when it ended, or a sweep was overtaken by a
\* new generation.
InitOutlivesManifest ==
    dir.mpd # NoMpd /\ ~late /\ ~hit /\ ~dir.lost => dir.init = dir.mpd.gen

\* janitor.rs:14-15, no "ghost timeline after ingest dies": the segments and
\* the manifest of a packager that has ended disappear, or a new one comes.
GhostGone ==
    ~feed.live ~> feed.live \/ (dir.mpd = NoMpd /\ Segs = {})
====
