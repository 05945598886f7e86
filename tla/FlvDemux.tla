---- MODULE FlvDemux ----
(***************************************************************************)
(* The timeline half of src/demux/flv.rs: how RTMP timestamps of the two   *)
(* tracks become sample durations.  A sample waits for its successor, its  *)
(* duration is their distance; both tracks are meant to start at a shared  *)
(* epoch, because the segmenter counts each track from 0.  Codec headers   *)
(* and payloads are left out but for the default audio duration.  DTS are  *)
(* milliseconds, scaled down together with the two jump limits.            *)
(***************************************************************************)
EXTENDS Integers

CONSTANTS MaxSampleGap,     \* MAX_SAMPLE_GAP_MS
          MaxAsymJump,      \* MAX_ASYM_JUMP_MS
          DefaultDuration,  \* durations a track may start with
          Lag,              \* how far a peer's tracks run behind one another
          MayRestart,       \* whether the peer's clock may start again
          MayRepublish,     \* whether a connection may publish again
          MaxDts, MaxPos    \* bounds on timestamps and on a track's length

Track == {"video", "audio"}
Other(t) == IF t = "video" THEN "audio" ELSE "video"
None == -1                  \* Option::None of a timestamp

ASSUME DemuxAssumption ==
    /\ MaxSampleGap \in Nat \ {0} /\ MaxAsymJump \in Nat /\ Lag \in Nat
    /\ DefaultDuration \subseteq Nat \ {0} /\ DefaultDuration # {}
    /\ MayRestart \in BOOLEAN /\ MayRepublish \in BOOLEAN
    /\ MaxDts \in Nat /\ MaxPos \in Nat

VARIABLES
    pending, \* DTS of the sample waiting for its successor, per track
    default, \* duration of a sample without a distance of its own
    first,   \* first DTS of each track since the clock was reset
    last,    \* last sample boundary of each track
    epoch,   \* sync_epoch_dts
    base,    \* history: DTS of the first sample handed over in this generation
    pos,     \* history: sum of the durations handed over since
    over,    \* the publish has finished: the demuxer has been flushed
    newest,  \* the peer: its clock
    steady   \* history: the peer has kept its clock since the last reset of ours

vars == <<pending, default, first, last, epoch, base, pos, over, newest, steady>>
NoTrack == [t \in Track |-> None]
Dts == 0..MaxDts
Max2(a, b) == IF a < b THEN b ELSE a

TypeOK ==
    /\ pending \in [Track -> Dts \cup {None}] /\ first \in [Track -> Dts \cup {None}]
    /\ last \in [Track -> Dts \cup {None}] /\ epoch \in Dts \cup {None}
    /\ base \in [Track -> Dts \cup {None}] /\ newest \in Dts
    /\ default \in [Track -> Nat \ {0}] /\ pos \in [Track -> Nat]
    /\ steady \in BOOLEAN /\ over \in BOOLEAN

Init ==
    /\ pending = NoTrack /\ first = NoTrack /\ last = NoTrack /\ epoch = None
    /\ default \in [Track -> DefaultDuration]
    /\ base = NoTrack /\ pos = [t \in Track |-> 0] /\ newest = 0 /\ steady = TRUE /\ over = FALSE

-----------------------------------------------------------------------------
\* sample_duration_ms, its Ok and its Err.
\* Mutants: no default for equal timestamps; long distances clamped to the
\* default; rewinds not seen.
ZeroStaysZero(d, prev, dflt) == d - prev
ClampedDuration(d, prev, dflt) == IF d = prev \/ d - prev > MaxAsymJump THEN dflt ELSE d - prev
JumpsForward(d, prev, other) == d - prev > MaxSampleGap

Duration(d, prev, dflt) == IF d = prev THEN Max2(dflt, 1) ELSE d - prev
Jumps(d, prev, other) ==
    \/ d < prev
    \/ d - prev > MaxSampleGap
    \/ d - prev > MaxAsymJump /\ other # None /\ d - other > MaxAsymJump

\* note_track_dts, of the clock state f, e.
NotedFirst(t, d, f) == IF f[t] = None THEN [f EXCEPT ![t] = d] ELSE f
EpochOfFirst(f, e) == IF e = None /\ f["video"] # None THEN f["video"] ELSE e  \* mutant
SealedEpoch(f, e) ==
    IF e = None /\ \A t \in Track : f[t] # None THEN Max2(f["video"], f["audio"]) ELSE e

\* What the peer may send next, while it publishes.  An RTMP peer interleaves
\* its tracks by time, up to Lag.
Sends(d) ==
    /\ ~over /\ d \in Dts /\ d >= newest - Lag
    /\ newest' = Max2(newest, d) /\ UNCHANGED over

\* enqueue_sample, by its cases; noted is the state after note_track_dts.
Noted(t, d) ==
    /\ first' = NotedFirst(t, d, first)
    /\ epoch' = SealedEpoch(first', epoch)
Waits(t, d) == pending' = [pending EXCEPT ![t] = d]

\* The first sample of a track.
FirstSample(t, d) ==
    /\ Sends(d) /\ pending[t] = None
    /\ Noted(t, d) /\ Waits(t, d)
    /\ UNCHANGED <<default, last, base, pos, steady>>

\* A jump: TimelineDiscontinuity is handed over, which ends the generation.
\* Pending samples of both tracks are dropped and the clock starts again.
Discontinuity(t, d) ==
    /\ Sends(d) /\ pending[t] # None /\ Jumps(d, pending[t], last[Other(t)])
    /\ first' = [NoTrack EXCEPT ![t] = d] /\ epoch' = None /\ last' = NoTrack
    /\ pending' = [NoTrack EXCEPT ![t] = d]
    /\ base' = NoTrack /\ pos' = [u \in Track |-> 0] /\ steady' = TRUE
    /\ UNCHANGED default

\* No epoch yet, or the previous sample is older than it: it is dropped.
Dropped(t, d) ==
    /\ Sends(d) /\ pending[t] # None /\ ~Jumps(d, pending[t], last[Other(t)])
    /\ Noted(t, d)
    /\ epoch' = None \/ pending[t] < epoch'
    /\ Waits(t, d)
    /\ UNCHANGED <<default, last, base, pos, steady>>

\* The previous sample has its duration and is handed over.
Completed(t, d) ==
    /\ Sends(d) /\ pending[t] # None /\ ~Jumps(d, pending[t], last[Other(t)])
    /\ Noted(t, d)
    /\ epoch' # None /\ pending[t] >= epoch'
    /\ LET dur == Duration(d, pending[t], default[t]) IN
         /\ pos[t] + dur <= MaxPos
         /\ pos' = [pos EXCEPT ![t] = @ + dur]
         /\ default' = [default EXCEPT ![t] = dur]
    /\ base' = [base EXCEPT ![t] = IF @ = None THEN pending[t] ELSE @]
    /\ last' = [last EXCEPT ![t] = d]
    /\ Waits(t, d) /\ UNCHANGED steady

\* An AAC sequence header sets the default audio duration.
AudioHeader(dur) ==
    /\ default' = [default EXCEPT !["audio"] = dur]
    /\ UNCHANGED <<pending, first, last, epoch, base, pos, over, newest, steady>>

\* flush, when the publish finishes: the sample each track waits with is handed
\* over with the track's default duration, on whichever side of the epoch it is.
Flush ==
    /\ ~over /\ over' = TRUE
    /\ pending' = NoTrack
    /\ base' = [t \in Track |-> IF base[t] = None THEN pending[t] ELSE base[t]]
    /\ pos' = [t \in Track |-> pos[t] + IF pending[t] = None THEN 0 ELSE default[t]]
    /\ UNCHANGED <<default, first, last, epoch, newest, steady>>

\* The peer publishes again on the connection, with a clock of its own: a new
\* generation begins, but the connection's demuxer has kept its clock.
Republish(d) ==
    /\ MayRepublish /\ over /\ over' = FALSE /\ d \in Dts
    /\ base' = NoTrack /\ pos' = [t \in Track |-> 0]
    /\ newest' = d /\ steady' = FALSE
    /\ UNCHANGED <<pending, default, first, last, epoch>>

\* The peer's clock starts again within one publish.
PeerRestarts(d) ==
    /\ MayRestart /\ d \in Dts /\ d < newest /\ newest' = d /\ steady' = FALSE
    /\ UNCHANGED <<pending, default, first, last, epoch, base, pos, over>>

Next ==
    \/ \E t \in Track, d \in Dts :
          FirstSample(t, d) \/ Discontinuity(t, d) \/ Dropped(t, d) \/ Completed(t, d)
    \/ \E dur \in DefaultDuration : AudioHeader(dur)
    \/ Flush
    \/ \E d \in Dts : Republish(d) \/ PeerRestarts(d)

Spec == Init /\ [][Next]_vars

-----------------------------------------------------------------------------
\* The samples of both tracks that become tfdt 0 are no further apart than
\* two samples of a track, or the peer's lag: a generation has no permanent
\* A/V offset beyond that (flv.rs:77-79) unless the peer's clock has jumped
\* unseen, and the rotation after a seen jump brings the tracks together again.
\* What the flush hands over at the end may be a track's only sample, of any DTS.
StartsTogether ==
    steady /\ ~over => \A t, u \in Track : base[t] # None /\ base[u] # None =>
        base[t] - base[u] <= Max2(MaxSampleGap, Lag)

\* The same as flv.rs:77-79 has it, whatever the peer's clock does.
SharedEpoch ==
    ~over => \A t, u \in Track : base[t] # None /\ base[u] # None =>
        base[t] - base[u] <= MaxSampleGap

\* flv.rs:28-34: no track is under-counted; its length is at least the time
\* from its first sample to the one it waits with, which comes next.
NeverUndercounts ==
    \A t \in Track : base[t] # None /\ pending[t] # None => pos[t] >= pending[t] - base[t]

\* architecture.md:67: within a generation tfdt grows strictly on each track:
\* a sample handed over at a new boundary, the first one too, takes up time.
MonotoneTimeline ==
    [][\A t \in Track : base'[t] # None /\ last'[t] # last[t] => pos'[t] > pos[t]]_vars
====
