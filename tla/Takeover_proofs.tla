---- MODULE Takeover_proofs ----
(***************************************************************************)
(* A theorem about Takeover for any sources, windows and batches, checked  *)
(* with the TLA+ proof system; it builds on the lemmas of                  *)
(* DashPackager_proofs about the parts of a handler.                       *)
(***************************************************************************)
EXTENDS Takeover, DashPackager_proofs

Quiet(p) == pk[p].todo = <<>> /\ pipe[p] = <<>>

\* A finished packager has nothing on its way, and neither has one whose
\* directory is wiped after PublishStreamFinished: no call follows.
Settled(p) ==
    /\ pk[p].phase \in {"closing", "closed"} => pk[p].replay = <<>>
    /\ pk[p].phase = "closed" => Quiet(p)
    /\ stage[p] = "wiped" => /\ pk[p].phase \in {"wiping", "live"}
                             /\ pk[p].replay = <<>> /\ Quiet(p)

TakeoverInv ==
    /\ Inv
    /\ DOMAIN pipe = Packager /\ DOMAIN stage = Packager
    /\ \A p \in Packager : Settled(p)

\* What a step of p leaves alone.
OnlyOf(p) ==
    /\ DOMAIN pipe' = Packager /\ DOMAIN stage' = Packager
    /\ \A q \in Packager \ {p} : pk'[q] = pk[q] /\ pipe'[q] = pipe[q] /\ stage'[q] = stage[q]

-----------------------------------------------------------------------------
LEMMA TakeoverInitInv == TakeoverInit => TakeoverInv
<1>. SUFFICES ASSUME TakeoverInit PROVE TakeoverInv OBVIOUS
<1>1. Inv BY InitInv DEF TakeoverInit
<1>2. ASSUME NEW p \in Packager PROVE Settled(p)
  BY DEF TakeoverInit, Init, Closed, Settled
<1>. QED BY <1>1, <1>2 DEF TakeoverInit, Init, TakeoverInv

\* Media arrives at a live packager, which stays live.
LEMMA MediaStaysLive ==
    ASSUME Inv, NEW p \in Packager, Media(p)
    PROVE  pk[p].phase = "live" /\ pk'[p].phase = "live"
<1>. USE PackagerAssumption
<1>1. Windowed(pk[p]) /\ DOMAIN pk[p] = Fields /\ p \in DOMAIN pk BY DEF Inv, Windowed, Counted
<1>2. PICK built \in Builds :
         \/ \E c \in ConfigId : VideoConfig(p, c, built) \/ AudioConfig(p, c, built)
         \/ Discontinuity(p, built)
         \/ \E sample \in Samples : QueueSample(p, sample)
         \/ \E sample \in Samples, k \in 0..MaxBatch, skewed \in BOOLEAN :
               PushSample(p, sample, k, skewed, built)
  BY DEF Media
<1>3. pk[p].phase = "live"
  BY <1>2 DEF VideoConfig, AudioConfig, Discontinuity, QueueSample, PushSample, Ready
<1>4. ASSUME NEW c \in ConfigId, VideoConfig(p, c, built) \/ AudioConfig(p, c, built)
      PROVE  pk'[p].phase = "live"
  <2>1. PICK r \in {[pk[p] EXCEPT !.video = c], [pk[p] EXCEPT !.audio = c]} :
           pk' = [pk EXCEPT ![p] = Start(r, built)] \/ pk' = [pk EXCEPT ![p] = Rotate(r, built)]
    BY <1>4 DEF VideoConfig, AudioConfig, Becomes
  <2>2. Windowed(r) /\ DOMAIN r = Fields /\ r.phase = "live"
    BY <1>1, <1>3, <2>1 DEF Windowed, Counted, Fields
  <2>. QED BY <1>1, <2>1, <2>2, StartKeeps, RotateWindowed
<1>5. ASSUME Discontinuity(p, built) PROVE pk'[p].phase = "live"
  BY <1>1, <1>3, <1>5, RotateWindowed DEF Discontinuity, Becomes
<1>6. ASSUME NEW sample \in Samples, QueueSample(p, sample) PROVE pk'[p].phase = "live"
  BY <1>1, <1>3, <1>6 DEF QueueSample, Becomes, Fields
<1>7. ASSUME NEW sample \in Samples, NEW k \in 0..MaxBatch, NEW skewed \in BOOLEAN,
             PushSample(p, sample, k, skewed, built)
      PROVE  pk'[p].phase = "live"
  <2>1. k \in Nat OBVIOUS
  <2>. QED BY <1>1, <1>3, <1>7, <2>1, PushWindowed DEF PushSample, Becomes
<1>. QED BY <1>2, <1>3, <1>4, <1>5, <1>6, <1>7

\* The parts of a call that the packager and its writer go on with.
LEMMA InnerSettled ==
    ASSUME Inv, NEW p \in Packager, p \in DOMAIN pipe, Settled(p), Inner(p), stage' = stage
    PROVE  Settled(p)'
<1>. USE PackagerAssumption DEF Settled, Quiet
<1>1. Windowed(pk[p]) /\ DOMAIN pk[p] = Fields /\ p \in DOMAIN pk BY DEF Inv, Windowed, Counted
<1>2. ASSUME NEW built \in Builds, NEW k \in 0..MaxBatch, NEW skewed \in BOOLEAN,
             ReplaySample(p, k, skewed, built)
      PROVE  Settled(p)'
  <2>1. k \in Nat /\ stage[p] # "wiped" BY <1>2 DEF ReplaySample
  <2>. DEFINE r == [pk[p] EXCEPT !.replay = Tail(@)]
  <2>2. Windowed(r) /\ r.phase = "live" BY <1>1, <1>2 DEF Windowed, Counted, Fields, ReplaySample
  <2>3. PICK sample : pk' = [pk EXCEPT ![p] = Push(r, sample, k, skewed, built)]
    BY <1>2 DEF ReplaySample, Becomes
  <2>. HIDE DEF r
  <2>4. pk'[p].phase = "live" BY <1>1, <2>1, <2>2, <2>3, PushWindowed
  <2>. QED BY <2>1, <2>4
<1>3. CASE FinishDone(p) BY <1>1, <1>3 DEF FinishDone, Drained, Becomes, Fields
<1>4. CASE ReconnectDone(p) BY <1>1, <1>4 DEF ReconnectDone, Drained, Becomes, Fields
<1>5. CASE Accept(p) BY <1>1, <1>5 DEF Accept, Fields
<1>6. CASE Apply(p) \/ Remove(p) BY <1>1, <1>6 DEF Apply, Remove
<1>7. CASE Opened(p)
  <2>1. [Restart(Closed, Len(periods) + 1) EXCEPT !.phase = "live"].phase = "live"
    BY DEF Restart, Closed
  <2>2. pk'[p].phase = "live" /\ pk[p].phase = "opening"
    BY <1>1, <1>7, <2>1 DEF Opened, Becomes
  <2>. QED BY <2>2
<1>. QED BY <1>2, <1>3, <1>4, <1>5, <1>6, <1>7 DEF Inner

\* Closing down: the packager that finishes has replayed everything.
LEMMA FinishSettled ==
    ASSUME Inv, NEW p \in Packager, NEW built \in Builds, NEW k \in 0..MaxBatch,
           NEW skewed \in BOOLEAN, Finish(p, k, skewed, built), stage' = stage, stage[p] # "wiped"
    PROVE  Settled(p)'
<1>. USE PackagerAssumption
<1>1. Windowed(pk[p]) /\ p \in DOMAIN pk BY DEF Inv
<1>2. k \in Nat /\ pk[p].replay = <<>> BY DEF Finish, Ready
<1>. DEFINE r == IF pk[p].seg THEN Drain(pk[p], k, skewed, built) ELSE pk[p]
<1>3. Windowed(r) /\ r.replay = <<>> BY <1>1, <1>2, DrainWindowed
<1>4. pk' = [pk EXCEPT ![p] = [r EXCEPT !.phase = "closing"]] BY DEF Finish, Becomes
<1>. HIDE DEF r
<1>5. pk'[p].phase = "closing" /\ pk'[p].replay = <<>>
  BY <1>1, <1>3, <1>4 DEF Windowed, Counted, Fields
<1>. QED BY <1>5 DEF Settled

\* A reconnect of a packager with nothing on its way, and a drop.
LEMMA ReconnectSettled ==
    ASSUME Inv, NEW p \in Packager, Settled(p), Reconnect(p)
    PROVE  /\ pk'[p].phase = "wiping" /\ pipe' = pipe
           /\ pk'[p].todo = pk[p].todo /\ pk'[p].replay = pk[p].replay
<1>1. DOMAIN pk[p] = Fields /\ p \in DOMAIN pk BY DEF Inv, Windowed, Counted
<1>. QED BY <1>1 DEF Reconnect, Becomes, Restart, Fields

\* Every step of a source settles its own packager and leaves the others alone.
LEMMA SourceSettled ==
    ASSUME TakeoverInv, NEW p \in Packager, Source(p)
    PROVE  OnlyOf(p) /\ Settled(p)'
<1>1. Inv /\ Settled(p) /\ DOMAIN pipe = Packager /\ DOMAIN stage = Packager /\ DOMAIN pk = Packager
  BY DEF TakeoverInv, Inv
<1>. USE <1>1 DEF OnlyOf, Enters, NoMedia, vars, sources
<1>2. CASE Acquire(p) \/ LeaveEarly(p) \/ Hangup(p) \/ Unpublish(p) \/ AbortFrees(p)
  BY <1>2 DEF Acquire, LeaveEarly, Hangup, Unpublish, AbortFrees, Settled, Quiet
<1>3. CASE Publish(p)
  <2>1. [Closed EXCEPT !.phase = "opening"].phase = "opening" BY DEF Closed
  <2>2. pk' = [pk EXCEPT ![p] = [Closed EXCEPT !.phase = "opening"]] /\ pipe' = pipe
    BY <1>3 DEF Publish, Open, Becomes
  <2>3. pk'[p].phase = "opening" BY <2>1, <2>2
  <2>. QED BY <1>3, <2>2, <2>3 DEF Publish, Settled
<1>4. CASE Receive(p)
  <2>1. pk'[p].phase = "live" BY <1>4, MediaStaysLive DEF Receive
  <2>2. pipe' = pipe /\ \E r : pk' = [pk EXCEPT ![p] = r]
    BY <1>4 DEF Receive, Media, VideoConfig, AudioConfig, Discontinuity, QueueSample,
                PushSample, Becomes
  <2>. QED BY <1>4, <2>1, <2>2 DEF Receive, Settled
<1>5. CASE CloseDown(p)
  <2>1. PICK built \in Builds, k \in 0..MaxBatch, skewed \in BOOLEAN : Finish(p, k, skewed, built)
    BY <1>5 DEF CloseDown
  <2>2. stage' = stage /\ stage[p] # "wiped" BY <1>5 DEF CloseDown
  <2>3. pipe' = pipe /\ \E r : pk' = [pk EXCEPT ![p] = r] BY <2>1 DEF Finish, Becomes
  <2>. QED BY <2>1, <2>2, <2>3, FinishSettled
<1>6. CASE Wipe(p)
  <2>1. Reconnect(p) /\ pk[p].phase = "closed" BY <1>6 DEF Wipe
  <2>2. pipe' = pipe /\ \E r : pk' = [pk EXCEPT ![p] = r] BY <2>1 DEF Reconnect, Becomes
  <2>. QED BY <1>6, <2>1, <2>2, ReconnectSettled DEF Wipe, Settled, Quiet
<1>7. CASE Leave(p) \/ Abort(p)
  <2>1. Drop(p) /\ stage' \in {[stage EXCEPT ![p] = "out"], [stage EXCEPT ![p] = "failed"]}
    BY <1>7 DEF Leave, Abort
  <2>. QED BY <2>1 DEF Drop, Closed, Settled
<1>8. CASE PullAgain(p)
  <2>1. Reconnect(p) /\ stage' = stage /\ stage[p] = "live" BY <1>8 DEF PullAgain
  <2>2. pipe' = pipe /\ \E r : pk' = [pk EXCEPT ![p] = r] BY <2>1 DEF Reconnect, Becomes
  <2>. QED BY <2>1, <2>2, ReconnectSettled DEF Settled
<1>9. CASE Work(p)
  <2>1. Inner(p) /\ stage' = stage BY <1>9 DEF Work
  <2>2. /\ pk' = pk \/ \E r : pk' = [pk EXCEPT ![p] = r]
        /\ pipe' = pipe \/ \E s : pipe' = [pipe EXCEPT ![p] = s]
    BY <2>1 DEF Inner, ReplaySample, Remove, Opened, FinishDone, ReconnectDone, Accept, Apply, Becomes
  <2>. QED BY <2>1, <2>2, InnerSettled
<1>. QED BY <1>2, <1>3, <1>4, <1>5, <1>6, <1>7, <1>8, <1>9 DEF Source, Proceeds

\* A step of a source is one of the packagers, or leaves them as they are.
LEMMA SourceParts ==
    ASSUME NEW p \in Packager, Source(p)
    PROVE  Media(p) \/ Inner(p) \/ Owner(p) \/ UNCHANGED vars
BY DEF Source, Proceeds, Acquire, Publish, Receive, LeaveEarly, Hangup, Unpublish, CloseDown,
       Wipe, Leave, Abort, AbortFrees, PullAgain, Work, NoMedia, Owner

LEMMA SourceSteps == ASSUME NEW p \in Packager, Source(p) PROVE [Next]_vars
BY SourceParts DEF Next

LEMMA TakeoverNextInv == TakeoverInv /\ [TakeoverNext]_allvars => TakeoverInv'
<1>. SUFFICES ASSUME TakeoverInv, [TakeoverNext]_allvars PROVE TakeoverInv' OBVIOUS
<1>1. ASSUME NEW p \in Packager, Source(p) PROVE TakeoverInv'
  <2>1. Inv' BY <1>1, SourceSteps, NextInv DEF TakeoverInv
  <2>2. OnlyOf(p) /\ Settled(p)' BY <1>1, SourceSettled
  <2>3. ASSUME NEW q \in Packager \ {p} PROVE Settled(q)'
    BY <2>2, <2>3 DEF OnlyOf, TakeoverInv, Settled, Quiet
  <2>. QED BY <2>1, <2>2, <2>3 DEF OnlyOf, TakeoverInv
<1>2. CASE UNCHANGED allvars
  BY <1>2 DEF allvars, vars, sources, TakeoverInv, Inv, Settled, Quiet
<1>. QED BY <1>1, <1>2 DEF TakeoverNext

\* Who gives a channel back after it has ended in order, has nothing on its way.
LEMMA ReleasedDrained ==
    ASSUME TakeoverInv, [TakeoverNext]_allvars, NEW p \in Packager,
           holder = p, holder' # p, stage[p] \in {"leaving", "unpublishing", "wiped"}
    PROVE  pk[p].todo \o pipe[p] = <<>>
<1>1. PICK q \in Packager : Source(q) BY DEF TakeoverNext, allvars, sources
<1>2. p # Nobody BY SourceAssumption
<1>3. Leave(p)
  BY <1>1, <1>2 DEF Source, Proceeds, Acquire, Publish, Receive, LeaveEarly, Hangup, Unpublish,
       CloseDown, Wipe, Leave, Abort, AbortFrees, PullAgain, Work, Frees, sources
<1>4. Quiet(p) BY <1>3 DEF Leave, TakeoverInv, Settled
<1>. QED BY <1>4 DEF Quiet

-----------------------------------------------------------------------------
\* shutdown_and_drain is always in time: no session that ends in order gives its
\* channel back while a job of its writer is on its way (writer.rs:74-90).
THEOREM ReleasesAreDrained == TakeoverSpec => DrainedBeforeRelease
<1>1. TakeoverInv /\ [TakeoverNext]_allvars =>
        [\A p \in Packager :
           holder = p /\ holder' # p /\ stage[p] \in {"leaving", "unpublishing", "wiped"}
             => pk[p].todo \o pipe[p] = <<>>]_allvars
  BY ReleasedDrained
<1>. QED BY TakeoverInitInv, TakeoverNextInv, <1>1, PTL DEF TakeoverSpec, DrainedBeforeRelease
-----------------------------------------------------------------------------
\* Whose files there are.  The generations a packager has begun; the jobs and
\* the directories with files of generations in B only.
Began(p) == {g \in 0..Len(periods) : g = 0 \/ periods[g].by = p}

JobsOf(B) == {j \in JobSet : j.kind \in {"init", "seg", "mpd"} => j.gen \in B}

FilesOf(d, B) ==
    /\ d.init \in B /\ d.mpd.gen \in B
    /\ \A n \in 1..MaxSeg : d.seg[n] \in B

\* A packager and its writer write only what the packager has begun itself.
Idle == {"gone", "opening"}
Belongs(p) ==
    /\ Fit(pk[p]) /\ pk[p].gen \in Began(p)
    /\ pk[p].phase \in Idle => pk[p].todo = <<>>
    /\ pk[p].todo \in Seq(JobsOf(Began(p))) /\ pipe[p] \in Seq(JobsOf(Began(p)))

\* What has been begun stays begun.
Grown == \A q \in Packager : Began(q) \subseteq Began(q)'

LEMMA SeqWider ==
    ASSUME NEW S, NEW T, S \subseteq T, NEW s \in Seq(S)
    PROVE  s \in Seq(T)
OBVIOUS

LEMMA JobsWider ==
    ASSUME NEW B, NEW C, B \subseteq C, NEW s \in Seq(JobsOf(B))
    PROVE  s \in Seq(JobsOf(C))
<1>1. JobsOf(B) \subseteq JobsOf(C) BY DEF JobsOf
<1>. QED BY <1>1, SeqWider

LEMMA BeganFacts ==
    ASSUME Types, NEW p
    PROVE  0 \in Began(p) /\ Began(p) \subseteq Gens
BY PackagerAssumption DEF Types, Began, Gens

LEMMA BecomesGrows ==
    ASSUME Types, NEW p \in Packager, NEW q, Becomes(p, q), q.gen \in Nat
    PROVE  Grown /\ (q.gen = Len(periods) + 1 => q.gen \in Began(p)')
<1>1. periods \in Seq(Rows) /\ Len(periods) \in Nat
  BY PackagerAssumption DEF Types, Gens
<1>0. PICK o \in BOOLEAN :
         periods' = IF q.gen > Len(periods) THEN Append(periods, Row(q.period, p, o)) ELSE periods
  BY BecomesRow
<1>. DEFINE x == Row(q.period, p, o)
<1>2. periods' = IF q.gen > Len(periods) THEN Append(periods, x) ELSE periods BY <1>0
<1>3. x.by = p BY DEF Row
<1>. HIDE DEF x
<1>4. CASE q.gen > Len(periods)
  <2>1. Len(periods') = Len(periods) + 1 /\ periods'[Len(periods) + 1] = x
        /\ \A g \in 1..Len(periods) : periods'[g] = periods[g]
    BY <1>1, <1>2, <1>4
  <2>. QED BY <1>1, <1>3, <2>1 DEF Grown, Began
<1>5. CASE ~(q.gen > Len(periods)) BY <1>1, <1>2, <1>5 DEF Grown, Began
<1>. QED BY <1>4, <1>5

\* A job of a generation in B.
LEMMA JobOf ==
    ASSUME NEW B, B \subseteq Gens, NEW g \in B
    PROVE  /\ InitJob(g) \in JobsOf(B)
           /\ \A n \in 1..MaxSeg : SegJob(g, n) \in JobsOf(B)
           /\ \A s \in Seq(1..MaxSeg) : MpdJob(g, s) \in JobsOf(B)
<1>1. InitJob(g).gen = g BY DEF InitJob
<1>2. \A n : SegJob(g, n).gen = g BY DEF SegJob
<1>3. \A s : MpdJob(g, s).gen = g BY DEF MpdJob
<1>. QED BY <1>1, <1>2, <1>3, JobsTyped DEF JobsOf

LEMMA DeleteOf ==
    ASSUME NEW B
    PROVE  DelMpd \in JobsOf(B) /\ \A n \in 1..MaxSeg : DelSeg(n) \in JobsOf(B)
<1>1. DelMpd.kind = "del_mpd" /\ \A n : DelSeg(n).kind = "del_seg" BY DEF DelMpd, DelSeg
<1>. QED BY <1>1, JobsTyped DEF JobsOf

LEMMA SegsOf ==
    ASSUME NEW B, B \subseteq Gens, NEW g \in B, NEW n \in Nat, n # 0, NEW k \in Nat, n + k <= MaxSeg + 1
    PROVE  Segs(g, n, k) \in Seq(JobsOf(B))
<1>1. MaxSeg \in Nat BY DirectoryAssumption
<1>2. \A i \in 1..k : n + i - 1 \in 1..MaxSeg BY <1>1
<1>3. \A i \in 1..k : SegJob(g, n + i - 1) \in JobsOf(B) BY <1>2, JobOf
<1>4. Segs(g, n, k) \in [1..k -> JobsOf(B)] BY <1>3 DEF Segs
<1>. QED BY <1>4, Sequenced

LEMMA DelsOf ==
    ASSUME NEW B, NEW a \in Nat, a # 0, NEW n \in Nat, a + n <= MaxSeg + 1
    PROVE  Dels(a, n) \in Seq(JobsOf(B))
<1>1. MaxSeg \in Nat BY DirectoryAssumption
<1>2. \A i \in 1..n : a + i - 1 \in 1..MaxSeg BY <1>1
<1>3. \A i \in 1..n : DelSeg(a + i - 1) \in JobsOf(B) BY <1>2, DeleteOf
<1>4. Dels(a, n) \in [1..n -> JobsOf(B)] BY <1>3 DEF Dels
<1>. QED BY <1>4, Sequenced

LEMMA OneOf == ASSUME NEW S, NEW x \in S PROVE <<x>> \in Seq(S) /\ <<>> \in Seq(S)
OBVIOUS

\* The jobs of a call are of the packager's generation before it or after it.
LEMMA MadeJobs ==
    ASSUME NEW r \in Recs, NEW q, NEW k \in Nat, r.next + k <= MaxSeg + 1, Made(r, q, k),
           NEW B, B \subseteq Gens, r.gen \in B, q.gen \in B
    PROVE  q.todo \in Seq(JobsOf(B))
<1>. DEFINE S == JobsOf(B)
            lo == Low(r.next)
            hi == Low(r.next + k)
<1>1. /\ r.next \in Nat /\ r.next # 0 /\ r.next + k \in Nat /\ r.next + k # 0 /\ MaxSeg \in Nat
  BY Numbered
<1>2. /\ lo \in Nat /\ lo # 0 /\ lo <= r.next /\ lo <= hi /\ hi - lo \in Nat
      /\ hi \in Nat /\ hi # 0 /\ hi <= r.next + k
  BY <1>1, LowFacts
<1>3. DelMpd \in S /\ InitJob(r.gen) \in S /\ InitJob(q.gen) \in S BY JobOf, DeleteOf
<1>4. Segs(r.gen, r.next, k) \in Seq(S) BY <1>1, SegsOf
<1>5. CASE Still(r, q) BY <1>5 DEF Still
<1>6. CASE Prepared(r, q) BY <1>3, <1>6 DEF Prepared
<1>7. CASE Added(r, q, k)
  <2>1. PICK n \in Nat : n = r.next + k - hi BY <1>1, <1>2
  <2>2. Run(hi, n) \in Seq(1..MaxSeg) BY <1>1, <1>2, <2>1, RunTyped
  <2>3. MpdJob(r.gen, Run(hi, n)) \in S BY <2>2, JobOf
  <2>4. Dels(lo, hi - lo) \in Seq(S) BY <1>1, <1>2, DelsOf
  <2>. HIDE DEF S, lo, hi
  <2>5. q.todo = Segs(r.gen, r.next, k) \o Dels(lo, hi - lo) \o <<MpdJob(r.gen, Run(hi, n))>>
    BY <1>7, <2>1 DEF Added, lo, hi
  <2>6. <<MpdJob(r.gen, Run(hi, n))>> \in Seq(S) BY <2>3, OneOf
  <2>7. Segs(r.gen, r.next, k) \o Dels(lo, hi - lo) \in Seq(S) BY <1>4, <2>4, Join
  <2>8. q.todo \in Seq(S) BY <2>5, <2>6, <2>7, Join
  <2>. QED BY <2>8 DEF S
<1>8. CASE Rotated(r, q, k)
  <2>1. PICK n \in Nat : n = r.next + k - lo BY <1>1, <1>2
  <2>2. PICK D \in Seq(S) : D = Dels(lo, n) BY <1>1, <1>2, <2>1, DelsOf
  <2>3. PICK T \in Seq(S) : T = IF q.seg THEN <<InitJob(q.gen)>> ELSE <<>> BY <1>3, OneOf
  <2>4. <<DelMpd>> \in Seq(S) BY <1>3, OneOf
  <2>5. q.todo = Segs(r.gen, r.next, k) \o (D \o D \o <<DelMpd>>) \o T
    BY <1>8, <2>1, <2>2, <2>3 DEF Rotated
  <2>. HIDE DEF S
  <2>6. D \o D \o <<DelMpd>> \in Seq(S) BY <2>4, Join
  <2>7. Segs(r.gen, r.next, k) \o (D \o D \o <<DelMpd>>) \in Seq(S) BY <1>4, <2>6, Join
  <2>8. q.todo \in Seq(S) BY <2>5, <2>7, Join
  <2>. QED BY <2>8 DEF S
<1>. QED BY <1>5, <1>6, <1>7, <1>8 DEF Made

LEMMA CallBelongs ==
    ASSUME Types, Types', Inv, NEW p \in Packager, Belongs(p), Called(p)
    PROVE  Belongs(p)' /\ Grown
<1>. DEFINE r == pk[p]
<1>1. PICK k \in 0..MaxBatch : \E q : Makes(p, k, q) BY DEF Called
<1>2. PICK q : Makes(p, k, q) BY <1>1
<1>3. pk'[p] = q /\ Becomes(p, q) /\ UNCHANGED pipe /\ Fit(q) /\ q.phase \notin Idle /\ Made(r, q, k)
      /\ r.next + k <= MaxSeg + 1
  BY <1>2 DEF Makes, Becomes, Types, Idle
<1>4. r \in Recs /\ q \in Recs /\ k \in Nat BY <1>3, PackagerAssumption DEF Types
<1>5. q.gen \in Nat /\ r.gen \in Nat BY <1>4, RecFields, PackagerAssumption DEF Gens
<1>6. Grown /\ (q.gen = Len(periods) + 1 => q.gen \in Began(p)') BY <1>3, <1>5, BecomesGrows
<1>7. PICK B : B = Began(p)' OBVIOUS
<1>8. B \subseteq Gens BY <1>7, PackagerAssumption DEF Types, Began, Gens
<1>9. r.gen \in B BY <1>6, <1>7 DEF Grown, Belongs
<1>10. q.gen \in B
  BY <1>3, <1>6, <1>7, <1>9 DEF Made, Still, Prepared, Added, Rotated, Goes
<1>11. q.todo \in Seq(JobsOf(B)) BY <1>3, <1>4, <1>8, <1>9, <1>10, MadeJobs
<1>12. pipe[p] \in Seq(JobsOf(B)) BY <1>6, <1>7, JobsWider DEF Grown, Belongs
<1>13. Fit(q)' BY <1>3 DEF Fit
<1>. QED BY <1>3, <1>6, <1>7, <1>10, <1>11, <1>12 DEF Belongs, JobsOf, Fit

\* The other steps of a packager, its writer's, and its owner's.
LEMMA SameGrown == ASSUME periods' = periods PROVE Grown
BY DEF Grown, Began

LEMMA DoneBelongs ==
    ASSUME Types, Types', Inv, NEW p \in Packager, Belongs(p), FinishDone(p) \/ ReconnectDone(p)
    PROVE  Belongs(p)' /\ Grown
<1>. DEFINE r == pk[p]
<1>1. r \in Recs /\ DOMAIN r = Fields BY PackagerFacts
<1>2. PICK q : /\ q \in {[r EXCEPT !.phase = "closed"], [r EXCEPT !.phase = "live"]}
               /\ Becomes(p, q)
  BY DEF FinishDone, ReconnectDone
<1>3. q.phase \notin Idle /\ q.todo = r.todo /\ q.gen = r.gen /\ q.start = r.start /\ q.next = r.next
      /\ q.seg = r.seg /\ q.video = r.video /\ q.audio = r.audio
  BY <1>1, <1>2 DEF Fields, Idle
<1>4. pk'[p] = q /\ pipe' = pipe BY <1>2 DEF Becomes, Types, FinishDone, ReconnectDone
<1>5. q.gen \in Nat BY <1>1, <1>3, RecFields, PackagerAssumption DEF Gens
<1>6. Grown BY <1>2, <1>5, BecomesGrows
<1>7. pk'[p].gen \in Began(p)' BY <1>3, <1>4, <1>6 DEF Grown, Belongs
<1>8. pk'[p].todo \in Seq(JobsOf(Began(p)')) /\ pipe'[p] \in Seq(JobsOf(Began(p)'))
  BY <1>3, <1>4, <1>6, JobsWider DEF Grown, Belongs
<1>. QED BY <1>3, <1>4, <1>6, <1>7, <1>8 DEF Belongs, JobsOf, Fit, Both

LEMMA WriterBelongs ==
    ASSUME Types, Types', Inv, NEW p \in Packager, Belongs(p), Accept(p) \/ Apply(p) \/ Remove(p)
    PROVE  Belongs(p)' /\ Grown
<1>. DEFINE r == pk[p]
            S == JobsOf(Began(p))
<1>1. r \in Recs /\ DOMAIN r = Fields BY PackagerFacts
<1>2. periods' = periods BY DEF Accept, Apply, Remove
<1>3. Began(p)' = Began(p) /\ Grown BY <1>2 DEF Grown, Began
<1>4. r.todo \in Seq(S) /\ pipe[p] \in Seq(S) BY DEF Belongs
<1>5. pk'[p].todo \in Seq(S) /\ pipe'[p] \in Seq(S) /\ (r.phase \in Idle => pk' = pk)
  <2>. HIDE DEF S
  <2>1. CASE Accept(p)
    <3>1. r.todo # <<>> /\ r.phase \notin Idle BY <2>1 DEF Accept, Belongs
    <3>2. Head(r.todo) \in S /\ Tail(r.todo) \in Seq(S) BY <1>4, <3>1, QueueFacts
    <3>3. Append(pipe[p], Head(r.todo)) \in Seq(S) BY <1>4, <3>2, Appended
    <3>4. pk'[p].todo = Tail(r.todo) /\ pipe'[p] = Append(pipe[p], Head(r.todo))
      BY <1>1, <2>1 DEF Accept, Types, Fields
    <3>. QED BY <3>1, <3>2, <3>3, <3>4
  <2>2. CASE Apply(p)
    <3>1. Tail(pipe[p]) \in Seq(S) BY <1>4, <2>2, QueueFacts DEF Apply
    <3>. QED BY <1>4, <2>2, <3>1 DEF Apply, Types
  <2>3. CASE Remove(p) BY <1>4, <2>3 DEF Remove
  <2>. QED BY <2>1, <2>2, <2>3
<1>6. /\ pk'[p].phase = r.phase /\ pk'[p].gen = r.gen /\ pk'[p].start = r.start
      /\ pk'[p].next = r.next /\ pk'[p].seg = r.seg
      /\ pk'[p].video = r.video /\ pk'[p].audio = r.audio
  BY <1>1 DEF Accept, Apply, Remove, Types, Fields
<1>. QED BY <1>3, <1>5, <1>6 DEF Belongs, JobsOf, Fit, Both

\* A packager that is about to be opened has begun nothing yet.
LEMMA OpenBelongs ==
    ASSUME Types, Types', Inv, NEW p \in Packager, Belongs(p), Open(p)
    PROVE  Belongs(p)' /\ Grown
<1>. DEFINE q == [Closed EXCEPT !.phase = "opening"]
<1>1. q.phase = "opening" /\ q.gen = 0 /\ q.todo = <<>> /\ ~q.seg /\ q.next = 1 /\ q.start = 1
  BY DEF Closed
<1>2. Becomes(p, q) /\ pipe' = pipe BY DEF Open
<1>. HIDE DEF q
<1>3. pk'[p] = q BY <1>2 DEF Becomes, Types
<1>4. Grown BY <1>1, <1>2, BecomesGrows
<1>5. Fit(q) BY <1>1, LowRestart DEF Fit
<1>6. Fit(q)' BY <1>5 DEF Fit
<1>7. 0 \in Began(p)' BY <1>4, BeganFacts DEF Grown
<1>8. pipe'[p] \in Seq(JobsOf(Began(p)')) /\ <<>> \in Seq(JobsOf(Began(p)'))
  BY <1>2, <1>4, JobsWider DEF Grown, Belongs
<1>. QED BY <1>1, <1>3, <1>4, <1>6, <1>7, <1>8 DEF Belongs, JobsOf, Fit

\* A packager that has been opened or is wiped begins a generation of its own.
LEMMA BeginsBelongs ==
    ASSUME Types, Types', Inv, NEW p \in Packager, Belongs(p), Opened(p) \/ Reconnect(p)
    PROVE  Belongs(p)' /\ Grown
<1>. DEFINE r == pk[p]
            g == Len(periods) + 1
            opened == [Restart(Closed, g) EXCEPT !.phase = "live"]
            wiping == [Restart(r, g) EXCEPT !.video = 0, !.audio = 0, !.phase = "wiping"]
<1>1. r \in Recs /\ DOMAIN r = Fields /\ Len(periods) \in Nat
  BY PackagerFacts, PackagerAssumption DEF Types, Gens
<1>2. /\ opened.gen = g /\ opened.todo = <<>> /\ opened.phase = "live" /\ opened.start = 1
      /\ opened.next = 1 /\ ~opened.seg
  BY DEF Restart, Closed
<1>3. /\ wiping.gen = g /\ wiping.todo = r.todo /\ wiping.phase = "wiping" /\ wiping.start = 1
      /\ wiping.next = 1 /\ ~wiping.seg
  BY <1>1 DEF Restart, Fields
<1>4. Opened(p) => Becomes(p, opened) BY DEF Opened
<1>5. Reconnect(p) => Becomes(p, wiping) BY DEF Reconnect
<1>6. pipe' = pipe BY DEF Opened, Reconnect
<1>. HIDE DEF opened, wiping
<1>7. PICK q : /\ q.gen = g /\ q.todo \in {<<>>, r.todo} /\ q.phase \notin Idle /\ q.start = 1
               /\ q.next = 1 /\ ~q.seg /\ Becomes(p, q)
  BY <1>2, <1>3, <1>4, <1>5 DEF Idle
<1>0. q.gen = Len(periods) + 1 /\ q.gen \in Nat BY <1>1, <1>7
<1>8. pk'[p] = q /\ Grown /\ q.gen \in Began(p)'
  <2>1. Grown /\ q.gen \in Began(p)' BY <1>0, <1>7, BecomesGrows
  <2>. QED BY <1>7, <2>1 DEF Becomes, Types
<1>9. Fit(q) BY <1>7, LowRestart DEF Fit
<1>10. Fit(q)' BY <1>9 DEF Fit
<1>11. q.todo \in Seq(JobsOf(Began(p)))
  <2>1. <<>> \in Seq(JobsOf(Began(p))) OBVIOUS
  <2>. QED BY <1>7, <2>1 DEF Belongs
<1>12. q.todo \in Seq(JobsOf(Began(p)')) /\ pipe'[p] \in Seq(JobsOf(Began(p)'))
  BY <1>6, <1>8, <1>11, JobsWider DEF Grown, Belongs
<1>. QED BY <1>7, <1>8, <1>10, <1>12 DEF Belongs, JobsOf, Fit

LEMMA DropBelongs ==
    ASSUME Types, Types', Inv, NEW p \in Packager, Belongs(p), Drop(p)
    PROVE  Belongs(p)' /\ Grown
<1>1. pk'[p] = Closed /\ periods' = periods BY DEF Drop, Types
<1>2. Began(p)' = Began(p) /\ Grown BY <1>1 DEF Grown, Began
<1>3. PICK k \in 0..1 : k <= Len(pipe[p]) /\ pipe' = [pipe EXCEPT ![p] = SubSeq(@, 1, k)]
  BY DEF Drop
<1>4. PICK S : S = JobsOf(Began(p)) OBVIOUS
<1>5. pipe[p] \in Seq(S) BY <1>4 DEF Belongs
<1>6. SubSeq(pipe[p], 1, k) \in Seq(S) BY <1>3, <1>5
<1>7. pipe'[p] \in Seq(JobsOf(Began(p))) BY <1>3, <1>4, <1>6 DEF Types
<1>8. Closed.gen = 0 /\ Closed.todo = <<>> /\ ~Closed.seg /\ Closed.next = 1 /\ Closed.start = 1
  BY DEF Closed
<1>9. Fit(Closed) BY <1>8, LowRestart DEF Fit
<1>10. Fit(Closed)' BY <1>9 DEF Fit
<1>11. 0 \in Began(p) BY BeganFacts
<1>. QED BY <1>1, <1>2, <1>7, <1>8, <1>10, <1>11 DEF Belongs, JobsOf, Fit

-----------------------------------------------------------------------------
\* Where a source stands: it holds the channel when it is about to open its
\* packager, and its packager is closed while it is away.
Stands(p) ==
    /\ stage[p] = "acquired" => holder = p
    /\ stage[p] \in {"out", "acquired", "failed"} => pk[p].phase = "gone"

\* The live source, if its predecessor was through, has the directory to itself:
\* the others are away, without a job left, and, once its packager has been
\* opened, its files are there.
Left(p) == stage[p] = "live" /\ holder = p /\ clean
Sole(p) ==
    /\ Left(p) => \A q \in Packager \ {p} : stage[q] = "out" /\ pipe[q] = <<>>
    /\ Left(p) /\ pk[p].phase # "opening" => FilesOf(dir, Began(p))

ForeignInv ==
    /\ Types /\ Inv /\ TakeoverTypeOK
    /\ \A p \in Packager : Belongs(p) /\ Stands(p) /\ Sole(p)

\* A step of p leaves the other sources and their packagers alone.
LEMMA SourceOnly ==
    ASSUME Types, Types', stage \in [Packager -> Stages], NEW p \in Packager, Source(p)
    PROVE  \A q \in Packager \ {p} :
              pk'[q] = pk[q] /\ pipe'[q] = pipe[q] /\ stage'[q] = stage[q]
<1>1. pk' = pk \/ \E r : pk' = [pk EXCEPT ![p] = r]
  <2>1. Media(p) => \E r : pk' = [pk EXCEPT ![p] = r]
    BY DEF Media, VideoConfig, AudioConfig, Discontinuity, QueueSample, PushSample, Becomes
  <2>2. Inner(p) => pk' = pk \/ \E r : pk' = [pk EXCEPT ![p] = r]
    BY DEF Inner, ReplaySample, Remove, Opened, FinishDone, ReconnectDone, Accept, Apply, Becomes
  <2>3. Owner(p) => \E r : pk' = [pk EXCEPT ![p] = r]
    BY DEF Owner, Open, Reconnect, Drop, Finish, Becomes
  <2>. QED BY <2>1, <2>2, <2>3, SourceParts DEF vars
<1>2. pipe' = pipe \/ \E s : pipe' = [pipe EXCEPT ![p] = s]
  <2>1. Media(p) => pipe' = pipe
    BY DEF Media, VideoConfig, AudioConfig, Discontinuity, QueueSample, PushSample
  <2>2. Inner(p) => pipe' = pipe \/ \E s : pipe' = [pipe EXCEPT ![p] = s]
    BY DEF Inner, ReplaySample, Remove, Opened, FinishDone, ReconnectDone, Accept, Apply
  <2>3. Owner(p) => pipe' = pipe \/ \E s : pipe' = [pipe EXCEPT ![p] = s]
    BY DEF Owner, Open, Reconnect, Drop, Finish
  <2>. QED BY <2>1, <2>2, <2>3, SourceParts DEF vars
<1>3. stage' = stage \/ \E s : stage' = [stage EXCEPT ![p] = s]
  BY DEF Source, Proceeds, Acquire, Publish, Receive, LeaveEarly, Hangup, Unpublish, CloseDown,
         Wipe, Leave, Abort, AbortFrees, PullAgain, Work, Enters, sources
<1>. QED BY <1>1, <1>2, <1>3 DEF Types

LEMMA SourceBelongs ==
    ASSUME ForeignInv, Types', NEW p \in Packager, Source(p)
    PROVE  \A q \in Packager : Belongs(q)' /\ Began(q) \subseteq Began(q)'
<1>1. Types /\ Inv /\ Belongs(p) /\ Fit(pk[p]) BY DEF ForeignInv, Belongs
<1>2. Belongs(p)' /\ Grown
  <2>1. CASE Called(p) BY <1>1, <2>1, CallBelongs
  <2>2. CASE UNCHANGED vars
    <3>1. Began(p)' = Began(p) /\ Grown BY <2>2 DEF vars, Grown, Began
    <3>. QED BY <1>1, <2>2, <3>1 DEF vars, Belongs, JobsOf, Fit, Both
  <2>3. CASE Media(p) BY <1>1, <2>1, <2>3, MediaCalls
  <2>4. CASE Inner(p)
    BY <1>1, <2>1, <2>4, ReplayCalls, DoneBelongs, WriterBelongs, BeginsBelongs DEF Inner
  <2>5. CASE Owner(p)
    BY <1>1, <2>1, <2>5, FinishCalls, OpenBelongs, BeginsBelongs, DropBelongs DEF Owner
  <2>. QED BY <2>2, <2>3, <2>4, <2>5, SourceParts
<1>3. ASSUME NEW q \in Packager \ {p} PROVE Belongs(q)'
  <2>1. pk'[q] = pk[q] /\ pipe'[q] = pipe[q] /\ Belongs(q) /\ Began(q) \subseteq Began(q)'
    BY <1>2, SourceOnly DEF Grown, ForeignInv, TakeoverTypeOK
  <2>2. pk'[q].todo \in Seq(JobsOf(Began(q)')) /\ pipe'[q] \in Seq(JobsOf(Began(q)'))
    BY <2>1, JobsWider DEF Belongs
  <2>. QED BY <2>1, <2>2 DEF Belongs, JobsOf, Fit, Both
<1>. QED BY <1>2, <1>3 DEF Grown

\* Types: who holds the channel is not away.
LEMMA SourceTyped ==
    ASSUME TakeoverTypeOK, NEW p \in Packager, Source(p)
    PROVE  TakeoverTypeOK'
<1>. USE SourceAssumption DEF TakeoverTypeOK, Stages, Enters, Frees, sources
<1>1. CASE Acquire(p) BY <1>1 DEF Acquire
<1>2. CASE Publish(p)
  <2>1. clean' \in BOOLEAN BY <1>2 DEF Publish
  <2>. QED BY <1>2, <2>1 DEF Publish
<1>3. CASE Leave(p) \/ AbortFrees(p) BY <1>3 DEF Leave, AbortFrees
<1>4. CASE LeaveEarly(p) BY <1>4 DEF LeaveEarly
<1>5. CASE Hangup(p) \/ Unpublish(p) \/ Wipe(p) \/ Abort(p)
  BY <1>5 DEF Hangup, Unpublish, Wipe, Abort
<1>6. CASE Receive(p) \/ CloseDown(p) \/ PullAgain(p) \/ Work(p)
  BY <1>6 DEF Receive, CloseDown, PullAgain, Work
<1>. QED BY <1>1, <1>2, <1>3, <1>4, <1>5, <1>6 DEF Source, Proceeds

LEMMA SourceStands ==
    ASSUME ForeignInv, Types', NEW p \in Packager, Source(p)
    PROVE  \A q \in Packager : Stands(q)'
<1>1. stage \in [Packager -> Stages] /\ Nobody \notin Packager /\ Types
      /\ \A q \in Packager : Stands(q)
  BY SourceAssumption DEF ForeignInv, TakeoverTypeOK
<1>2. ASSUME NEW q \in Packager \ {p} PROVE Stands(q)'
  <2>1. pk'[q] = pk[q] /\ stage'[q] = stage[q] BY <1>1, SourceOnly
  <2>2. stage[q] = "acquired" => holder' = holder
    BY <1>1 DEF Stands, Source, Proceeds, Acquire, Publish, Receive, LeaveEarly, Hangup, Unpublish,
       CloseDown, Wipe, Leave, Abort, AbortFrees, PullAgain, Work, Frees, sources
  <2>. QED BY <1>1, <2>1, <2>2 DEF Stands
<1>3. Stands(p)'
  <2>. USE <1>1 DEF Stands, Enters, NoMedia, vars
  <2>1. CASE Acquire(p) \/ AbortFrees(p)
    <3>1. stage[p] \in {"out", "failed"} /\ pk' = pk /\ stage'[p] \in {"acquired", "out"}
          /\ (stage'[p] = "acquired" => holder' = p)
      BY <2>1 DEF Acquire, AbortFrees
    <3>. QED BY <3>1
  <2>2. CASE Leave(p) \/ Abort(p)
    <3>1. pk'[p] = Closed /\ stage'[p] \in {"out", "failed"}
      BY <2>2 DEF Leave, Abort, Drop, Types
    <3>. QED BY <3>1 DEF Closed
  <2>3. CASE Publish(p) \/ LeaveEarly(p) \/ Hangup(p) \/ Unpublish(p) \/ Wipe(p)
    <3>1. stage'[p] \in {"live", "leaving", "unpublishing", "wiped"}
      BY <2>3 DEF Publish, LeaveEarly, Hangup, Unpublish, Wipe
    <3>. QED BY <3>1
  <2>4. CASE Receive(p) \/ CloseDown(p) \/ PullAgain(p)
    <3>1. stage'[p] \in {"live", "leaving", "unpublishing"}
      BY <2>4 DEF Receive, CloseDown, PullAgain, sources
    <3>. QED BY <3>1
  <2>5. CASE Work(p)
    <3>1. Inner(p) /\ stage' = stage /\ holder' = holder BY <2>5 DEF Work, sources
    <3>2. pk[p].phase = "gone" => pk' = pk
      <4>1. Belongs(p) BY DEF ForeignInv
      <4>. QED BY <3>1, <4>1
           DEF Inner, ReplaySample, Remove, Opened, FinishDone, ReconnectDone, Accept, Apply, Belongs, Idle
    <3>. QED BY <3>1, <3>2
  <2>. QED BY <2>1, <2>2, <2>3, <2>4, <2>5 DEF Source, Proceeds
<1>. QED BY <1>2, <1>3

\* What a job of a generation in B writes is of a generation in B.
LEMMA AfterFiles ==
    ASSUME NEW d \in DirSet, NEW B, 0 \in B, FilesOf(d, B), NEW job \in JobsOf(B)
    PROVE  FilesOf(After(d, job), B)
<1>1. d.seg \in [1..MaxSeg -> Gens] /\ job \in JobSet BY DEF DirSet, JobsOf
<1>2. CASE job.kind = "init" BY <1>2 DEF After, FilesOf, JobsOf, DirSet
<1>3. CASE job.kind = "seg" BY <1>1, <1>3 DEF After, FilesOf, JobsOf, DirSet
<1>4. CASE job.kind = "mpd" BY <1>4 DEF After, FilesOf, JobsOf, DirSet
<1>5. CASE job.kind = "del_seg" BY <1>1, <1>5 DEF After, FilesOf, DirSet
<1>6. CASE job.kind = "del_mpd" BY <1>6 DEF After, FilesOf, NoMpd, DirSet
<1>7. job.kind \in {"init", "seg", "mpd", "del_seg", "del_mpd"}
  BY <1>1 DEF JobSet, InitJob, SegJob, DelSeg, DelMpd
<1>. QED BY <1>2, <1>3, <1>4, <1>5, <1>6, <1>7

LEMMA EmptyFiles == ASSUME NEW B, 0 \in B PROVE FilesOf(EmptyDir, B)
BY DEF EmptyDir, NoMpd, FilesOf

\* A wipe only removes files.
LEMMA FewerFiles ==
    ASSUME NEW d \in DirSet, NEW B, 0 \in B, FilesOf(d, B), NEW e \in Fewer(d)
    PROVE  FilesOf(e, B)
<1>. DEFINE D == {DelMpd} \cup {DelSeg(n) : n \in 1..MaxSeg}
            less == {After(d, job) : job \in D} \cup {[d EXCEPT !.init = 0]}
<1>1. PICK c \in less : e = [c EXCEPT !.lost = TRUE] BY DEF Fewer
<1>2. D \subseteq JobsOf(B) BY DeleteOf
<1>. HIDE DEF D
<1>3. c \in DirSet /\ FilesOf(c, B)
  <2>1. CASE c = [d EXCEPT !.init = 0]
    BY <2>1, PackagerAssumption DEF DirSet, Gens, FilesOf
  <2>2. CASE \E job \in D : c = After(d, job)
    <3>1. PICK job \in JobsOf(B) : c = After(d, job) BY <1>2, <2>2
    <3>2. job \in JobSet BY DEF JobsOf
    <3>. QED BY <3>1, <3>2, AfterFiles, AfterTyped
  <2>. QED BY <1>1, <2>1, <2>2
<1>. QED BY <1>1, <1>3 DEF DirSet, FilesOf

LEMMA WipedFiles ==
    ASSUME Types, Wiped, NEW B, 0 \in B, FilesOf(dir, B)
    PROVE  FilesOf(dir', B)
<1>1. FilesOf([dir EXCEPT !.lost = TRUE], B) BY DEF Types, DirSet, FilesOf
<1>. QED BY <1>1, EmptyFiles DEF Wiped

\* The packager at work on its own directory.
LEMMA WorkFiles ==
    ASSUME Types, NEW p \in Packager, Belongs(p), Inner(p), FilesOf(dir, Began(p))
    PROVE  FilesOf(dir', Began(p))
<1>. DEFINE B == Began(p)
<1>1. 0 \in B BY BeganFacts
<1>2. CASE Apply(p)
  <2>1. pipe[p] \in Seq(JobsOf(B)) /\ pipe[p] # <<>> BY <1>2 DEF Belongs, Apply
  <2>2. Head(pipe[p]) \in JobsOf(B) BY <2>1, QueueFacts
  <2>. QED BY <1>1, <1>2, <2>2, AfterFiles DEF Apply, Types
<1>3. CASE Remove(p) BY <1>1, <1>3, FewerFiles DEF Remove, Types
<1>4. CASE Opened(p) \/ ReconnectDone(p) BY <1>1, <1>4, WipedFiles DEF Opened, ReconnectDone
<1>. QED BY <1>2, <1>3, <1>4 DEF Inner, ReplaySample, FinishDone, Accept

LEMMA FilesWider ==
    ASSUME NEW d, NEW B, NEW C, B \subseteq C, FilesOf(d, B)
    PROVE  FilesOf(d, C)
BY DEF FilesOf

\* The wipe that opens a packager leaves nothing, unless an operation fails.
LEMMA OpenedFiles ==
    ASSUME ~MayFail, Types, NEW p \in Packager, Belongs(p), Inner(p),
           pk[p].phase = "opening", pk'[p].phase # "opening"
    PROVE  dir' = EmptyDir
<1>1. Opened(p)
  BY DEF Inner, ReplaySample, Remove, FinishDone, ReconnectDone, Accept, Apply, Belongs, Idle
<1>. QED BY <1>1 DEF Opened, Wiped

\* While a source is left alone, only it can move.
LEMMA AloneMoves ==
    ASSUME ForeignInv, NEW p \in Packager, Source(p), NEW q \in Packager, Left(q)
    PROVE  p = q
<1>1. /\ Stands(p) /\ Belongs(p) /\ Sole(q) /\ Nobody \notin Packager /\ holder = q
  BY SourceAssumption DEF ForeignInv, Left
<1>2. SUFFICES ASSUME p # q PROVE FALSE OBVIOUS
<1>3. stage[p] = "out" /\ pipe[p] = <<>> /\ pk[p].phase = "gone" /\ pk[p].todo = <<>>
  BY <1>1, <1>2 DEF Sole, Stands, Belongs, Idle
<1>4. ~Inner(p)
  BY <1>3 DEF Inner, ReplaySample, Remove, Wipes, Opened, FinishDone, ReconnectDone, Accept, Apply
<1>. QED BY <1>1, <1>3, <1>4
  DEF Source, Proceeds, Acquire, Publish, Receive, LeaveEarly, Hangup, Unpublish, CloseDown,
      Wipe, Leave, Abort, AbortFrees, PullAgain, Work

LEMMA SourceSole ==
    ASSUME ~MayFail, ForeignInv, Types', NEW p \in Packager, Source(p), NEW q \in Packager
    PROVE  Sole(q)'
<1>. SUFFICES ASSUME Left(q)'
              PROVE  /\ \A o \in Packager \ {q} : stage'[o] = "out" /\ pipe'[o] = <<>>
                     /\ pk'[q].phase # "opening" => FilesOf(dir', Began(q)')
  BY DEF Sole, FilesOf
<1>1. /\ stage \in [Packager -> Stages] /\ Nobody \notin Packager /\ Types
      /\ Stands(p) /\ Belongs(p) /\ Sole(q)
  BY SourceAssumption DEF ForeignInv, TakeoverTypeOK
<1>2. Began(q) \subseteq Began(q)' /\ 0 \in Began(q)' BY SourceBelongs, <1>1, BeganFacts
<1>3. stage'[q] = "live" /\ holder' = q /\ clean' BY DEF Left
<1>4. \A o \in Packager \ {p} : pipe'[o] = pipe[o] /\ stage'[o] = stage[o] BY <1>1, SourceOnly
\* A source that opens its packager.
<1>5. CASE Publish(p)
  <2>1. holder' = p BY <1>1, <1>5 DEF Publish, Stands
  <2>2. \A o \in Packager \ {p} : stage[o] = "out" /\ pipe[o] = <<>> BY <1>3, <1>5 DEF Publish
  <2>3. [Closed EXCEPT !.phase = "opening"].phase = "opening" BY DEF Closed
  <2>4. pk'[p].phase = "opening" BY <1>1, <1>5, <2>3 DEF Publish, Open, Becomes, Types
  <2>. QED BY <1>3, <1>4, <2>1, <2>2, <2>4
<1>6. CASE ~Publish(p)
  \* The source was live before, and had the directory to itself.
  <2>1. Left(q)
    <3>1. CASE p = q
      BY <1>1, <1>3, <1>6, <3>1
      DEF Left, Source, Proceeds, Acquire, Receive, LeaveEarly, Hangup, Unpublish, CloseDown,
          Wipe, Leave, Abort, AbortFrees, PullAgain, Work, Frees, Enters, sources
    <3>2. CASE p # q
      BY <1>1, <1>3, <1>4, <1>6, <3>2
      DEF Left, Source, Proceeds, Acquire, Receive, LeaveEarly, Hangup, Unpublish, CloseDown,
          Wipe, Leave, Abort, AbortFrees, PullAgain, Work, Frees, Enters, sources
    <3>. QED BY <3>1, <3>2
  <2>2. \A o \in Packager \ {q} : stage[o] = "out" /\ pipe[o] = <<>> BY <1>1, <2>1 DEF Sole
  <2>3. p = q BY <2>1, AloneMoves
  <2>4. (dir' = dir /\ (pk[q].phase = "opening" => pk'[q].phase = "opening")) \/ Inner(p)
    BY <1>3, <1>1, <1>6, <2>3
    DEF Source, Proceeds, Acquire, Receive, Media, VideoConfig, AudioConfig, Discontinuity, QueueSample,
        PushSample, LeaveEarly, Hangup, Unpublish, CloseDown, Finish, Wipe, Reconnect, Leave, Drop,
        Abort, AbortFrees, PullAgain, Work, NoMedia, vars, Ready
  <2>5. ASSUME pk'[q].phase # "opening" PROVE FilesOf(dir', Began(q)')
    <3>1. CASE pk[q].phase = "opening"
      <4>1. Inner(p) BY <2>4, <2>5, <3>1
      <4>2. dir' = EmptyDir BY <1>1, <2>3, <2>5, <3>1, <4>1, OpenedFiles
      <4>. QED BY <1>2, <4>2, EmptyFiles
    <3>2. CASE pk[q].phase # "opening"
      <4>1. FilesOf(dir, Began(q)) BY <1>1, <2>1, <3>2 DEF Sole
      <4>2. FilesOf(dir', Began(q)) BY <1>1, <2>3, <2>4, <4>1, WorkFiles
      <4>. QED BY <1>2, <4>2, FilesWider
    <3>. QED BY <3>1, <3>2
  <2>. QED BY <1>4, <2>2, <2>3, <2>5
<1>. QED BY <1>5, <1>6

LEMMA ForeignInitInv == TakeoverInit => ForeignInv
<1>. SUFFICES ASSUME TakeoverInit PROVE ForeignInv OBVIOUS
<1>1. Types /\ Inv /\ TakeoverTypeOK
  BY InitTyped, InitInv, SourceAssumption DEF TakeoverInit, TakeoverTypeOK, Stages
<1>2. ASSUME NEW p \in Packager PROVE Belongs(p) /\ Stands(p) /\ Sole(p)
  <2>1. pk[p] = Closed /\ pipe[p] = <<>> /\ stage[p] = "out"
    BY DEF TakeoverInit, Init
  <2>2. Closed.phase = "gone" /\ Closed.todo = <<>> /\ Closed.gen = 0 /\ ~Closed.seg
        /\ Closed.next = 1 /\ Closed.start = 1
    BY DEF Closed
  <2>3. Fit(Closed) BY <2>2, LowRestart DEF Fit
  <2>4. 0 \in Began(p) BY <1>1, BeganFacts
  <2>5. <<>> \in Seq(JobsOf(Began(p))) OBVIOUS
  <2>. QED BY <2>1, <2>2, <2>3, <2>4, <2>5 DEF Belongs, Stands, Sole, Left
<1>. QED BY <1>1, <1>2 DEF ForeignInv

LEMMA ForeignNextInv == ~MayFail => (ForeignInv /\ [TakeoverNext]_allvars => ForeignInv')
<1>. SUFFICES ASSUME ~MayFail, ForeignInv, [TakeoverNext]_allvars PROVE ForeignInv' OBVIOUS
<1>1. ASSUME NEW p \in Packager, Source(p) PROVE ForeignInv'
  <2>1. Types' /\ Inv' BY <1>1, SourceSteps, NextTyped, NextInv DEF ForeignInv
  <2>2. TakeoverTypeOK' BY <1>1, SourceTyped DEF ForeignInv
  <2>3. \A q \in Packager : Belongs(q)' BY <1>1, <2>1, SourceBelongs
  <2>4. \A q \in Packager : Stands(q)' BY <1>1, <2>1, SourceStands
  <2>5. \A q \in Packager : Sole(q)' BY <1>1, <2>1, SourceSole
  <2>. QED BY <2>1, <2>2, <2>3, <2>4, <2>5 DEF ForeignInv
<1>2. CASE UNCHANGED allvars
  <2>1. UNCHANGED vars /\ UNCHANGED sources BY <1>2 DEF allvars
  <2>2. Types' /\ Inv' BY <2>1, NextTyped, NextInv DEF ForeignInv
  <2>3. TakeoverTypeOK' BY <2>1 DEF ForeignInv, TakeoverTypeOK, sources
  <2>4. ASSUME NEW p \in Packager PROVE Belongs(p)' /\ Stands(p)' /\ Sole(p)'
    <3>1. Began(p)' = Began(p) BY <2>1 DEF vars, Began
    <3>2. Belongs(p) /\ Stands(p) /\ Sole(p) BY DEF ForeignInv
    <3>3. Belongs(p)' BY <2>1, <3>1, <3>2 DEF vars, Belongs, JobsOf, Fit, Both
    <3>4. Stands(p)' BY <2>1, <3>2 DEF vars, sources, Stands
    <3>5. Sole(p)' BY <2>1, <3>1, <3>2 DEF vars, sources, Sole, Left, FilesOf
    <3>. QED BY <3>3, <3>4, <3>5
  <2>. QED BY <2>2, <2>3, <2>4 DEF ForeignInv
<1>. QED BY <1>1, <1>2 DEF TakeoverNext

LEMMA ForeignInvMeans == ForeignInv => NoForeignFile
<1>. SUFFICES ASSUME ForeignInv, NEW p \in Packager, Serving(p), clean,
                     NEW g \in {dir.init, dir.mpd.gen} \cup {dir.seg[n] : n \in 1..MaxSeg}
              PROVE  Begun(p, g)
  BY DEF NoForeignFile
<1>1. FilesOf(dir, Began(p)) BY DEF ForeignInv, Sole, Left, Serving
<1>2. g \in Began(p) BY <1>1 DEF FilesOf
<1>. QED BY <1>2 DEF Began, Begun

-----------------------------------------------------------------------------
\* The channel's holder is a source at work, and every source is where a source
\* can be (session.rs, pull.rs).
THEOREM SourcesTyped == TakeoverSpec => []TakeoverTypeOK
<1>1. TakeoverInit => TakeoverTypeOK BY SourceAssumption DEF TakeoverInit, TakeoverTypeOK, Stages
<1>2. TakeoverTypeOK /\ [TakeoverNext]_allvars => TakeoverTypeOK'
  <2>1. ASSUME TakeoverTypeOK, UNCHANGED allvars PROVE TakeoverTypeOK'
    BY <2>1 DEF TakeoverTypeOK, allvars, sources
  <2>. QED BY <2>1, SourceTyped DEF TakeoverNext
<1>. QED BY <1>1, <1>2, PTL DEF TakeoverSpec

\* However many sources take turns, what their packagers and writers do is what
\* DashPackager says: its theorems hold of every source's packager.
THEOREM SourcesDrivePackagers == TakeoverSpec => Spec
<1>1. TakeoverInit => Init BY DEF TakeoverInit
<1>2. [TakeoverNext]_allvars => [Next]_vars BY SourceSteps DEF TakeoverNext, allvars
<1>. QED BY <1>1, <1>2, PTL DEF TakeoverSpec, Spec

\* As long as no file operation fails, a source that is served after a
\* predecessor that was through finds no file of another source in the channel's
\* directory, at any time: nothing was left, and nothing arrives late
\* (session.rs, writer.rs:74-90).
THEOREM NoForeignFiles == ~MayFail /\ TakeoverSpec => []NoForeignFile
<1>1. SUFFICES ASSUME ~MayFail PROVE TakeoverSpec => []NoForeignFile OBVIOUS
<1>2. ForeignInv /\ [TakeoverNext]_allvars => ForeignInv' BY <1>1, ForeignNextInv
<1>. QED BY <1>2, ForeignInitInv, ForeignInvMeans, PTL DEF TakeoverSpec
====
