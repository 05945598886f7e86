---- MODULE Cache_proofs ----
(***************************************************************************)
(* Theorems about Cache for any window, TTL, deletion budget and lag of    *)
(* the writer, checked with the TLA+ proof system.                         *)
(***************************************************************************)
EXTENDS Cache, ChannelFiles_proofs

\* A sweep goes on to a deletion only with a budget for it.
Affordable == sweep.phase \in {"delete", "check", "drop_mpd"} => sweep.budget > 0
Inv == CacheTypeOK /\ Affordable

Phases == {"idle", "scan", "delete", "check", "drop_mpd", "drop_init"}
SweepType == [phase : Phases, old : SUBSET File, young : SUBSET File, new : SUBSET File,
              expired : SUBSET (1..MaxSeg), left : BOOLEAN, fresh : BOOLEAN,
              mpd : BOOLEAN, init : BOOLEAN, budget : 0..Budget, ticks : 0..SweepTicks,
              calls : 0..SweepCalls]

-----------------------------------------------------------------------------
\* config.rs:81-92: whatever is configured, the TTL is at least what is asked
\* for, twice the window, and the floor; a window of two segments or more also
\* covers the segments kept beyond it as grace, so that no segment of
\* the right length is old before the packager deletes it itself.
THEOREM TtlCoversWindow ==
    /\ EffectiveTtl \in Nat
    /\ EffectiveTtl >= 2 * (WindowSegments * SegmentSecs)
    /\ EffectiveTtl >= MinTtl /\ EffectiveTtl >= TtlSecs
    /\ WindowSegments >= 2 => EffectiveTtl >= Keep * SegmentSecs
<1>. DEFINE W == WindowSegments
            D == SegmentSecs
<1>1. W \in Nat \ {0} /\ D \in Nat \ {0} /\ MinTtl \in Nat /\ TtlSecs \in Nat
  BY DirectoryAssumption, CacheAssumption
<1>2. W * D \in Nat /\ 2 * W * D = 2 * (W * D) /\ Keep * D = W * D + 2 * D
  BY <1>1 DEF Keep, Grace
<1>3. ASSUME W >= 2 PROVE W * D >= 2 * D BY <1>1, <1>3
<1>4. /\ EffectiveTtl \in {TtlSecs, MinTtl, 2 * W * D}
      /\ EffectiveTtl >= 2 * W * D /\ EffectiveTtl >= MinTtl /\ EffectiveTtl >= TtlSecs
  <2>1. 2 * W * D \in Nat BY <1>2
  <2>. QED BY <1>1, <2>1 DEF EffectiveTtl
<1>. QED BY <1>1, <1>2, <1>3, <1>4

-----------------------------------------------------------------------------
LEMMA Limits ==
    /\ EffectiveTtl \in Nat /\ SweepTicks \in Nat /\ SweepCalls \in Nat
    /\ Budget \in Nat \ {0} /\ MaxSeg \in Nat \ {0}
BY TtlCoversWindow, DirectoryAssumption, CacheAssumption

LEMMA IdleTyped ==
    /\ Idle \in SweepType
    /\ \A b \in 0..Budget : [Idle EXCEPT !.phase = "scan", !.budget = b] \in SweepType
    /\ \A t \in 0..SweepTicks, c \in 0..SweepCalls, b \in 0..Budget, e \in SUBSET (1..MaxSeg) :
         \A f \in BOOLEAN, m \in BOOLEAN, i \in BOOLEAN :
           [Idle EXCEPT !.ticks = t, !.calls = c, !.budget = b, !.expired = e,
                        !.fresh = f, !.mpd = m, !.init = i] \in SweepType
<1>. USE Limits DEF Idle, SweepType, Phases
<1>1. Idle \in SweepType OBVIOUS
<1>2. ASSUME NEW b \in 0..Budget PROVE [Idle EXCEPT !.phase = "scan", !.budget = b] \in SweepType
  <2>1. PICK q \in SweepType : q = Idle BY <1>1
  <2>. HIDE DEF Idle
  <2>2. [q EXCEPT !.phase = "scan", !.budget = b] \in SweepType OBVIOUS
  <2>. QED BY <2>1, <2>2
<1>3. ASSUME NEW t \in 0..SweepTicks, NEW c \in 0..SweepCalls, NEW b \in 0..Budget,
             NEW e \in SUBSET (1..MaxSeg), NEW f \in BOOLEAN, NEW m \in BOOLEAN, NEW i \in BOOLEAN
      PROVE  [Idle EXCEPT !.ticks = t, !.calls = c, !.budget = b, !.expired = e,
                          !.fresh = f, !.mpd = m, !.init = i] \in SweepType
  OBVIOUS
<1>. QED BY <1>1, <1>2, <1>3

LEMMA InitInv == CacheInit => Inv
<1>. SUFFICES ASSUME CacheInit PROVE Inv OBVIOUS
<1>1. sweep \in SweepType /\ sweep.phase = "idle" BY IdleTyped DEF CacheInit, Idle
<1>2. age \in [File -> 0..(EffectiveTtl + SweepTicks + 1)] /\ late \in BOOLEAN /\ hit \in BOOLEAN
  <2>1. 0 \in 0..(EffectiveTtl + SweepTicks + 1) BY Limits
  <2>. QED BY <2>1 DEF CacheInit
<1>. QED BY <1>1, <1>2 DEF Inv, CacheTypeOK, Affordable, SweepType, Phases

\* Every way a sweep settles is typed, and affordable.
LEMMA SettledTyped ==
    ASSUME NEW s \in SweepType
    PROVE  /\ Settled(s) \in SweepType
           /\ Settled(s).phase \in {"delete", "check"} => Settled(s).budget > 0
           /\ Settled(s).phase \in {"idle", "delete", "check"}
BY Limits DEF SweepType, Phases, Settled, Idle

LEMMA NextInv == Inv /\ [CacheNext]_cacheVars => Inv'
<1>. SUFFICES ASSUME Inv, [CacheNext]_cacheVars PROVE Inv' OBVIOUS
<1>. USE Limits
<1>1. age \in [File -> 0..(EffectiveTtl + SweepTicks + 1)] /\ sweep \in SweepType
      /\ late \in BOOLEAN /\ hit \in BOOLEAN /\ Affordable
  BY DEF Inv, CacheTypeOK, SweepType, Phases
<1>2. ASSUME age' \in [File -> 0..(EffectiveTtl + SweepTicks + 1)], sweep' \in SweepType,
             late' \in BOOLEAN, hit' \in BOOLEAN, Affordable'
      PROVE  Inv'
  BY <1>2 DEF Inv, CacheTypeOK, SweepType, Phases
<1>3. ASSUME NEW f \in File, Removes(f)
      PROVE  age' \in [File -> 0..(EffectiveTtl + SweepTicks + 1)] /\ late' \in BOOLEAN /\ hit' \in BOOLEAN
  BY <1>1, <1>3 DEF Removes
<1>4. ASSUME Keeps
      PROVE  age' \in [File -> 0..(EffectiveTtl + SweepTicks + 1)] /\ late' \in BOOLEAN /\ hit' \in BOOLEAN
  BY <1>1, <1>4 DEF Keeps
<1>5. CASE Packaging
  <2>. DEFINE changed == {f \in File : Content(dir', f) # Content(dir, f)}
              s == IF sweep.phase = "scan" THEN Noted(changed) ELSE sweep
  <2>1. s \in SweepType /\ s.phase = sweep.phase /\ s.budget = sweep.budget
    BY <1>1 DEF Noted, SweepType
  <2>2. sweep' = Calls(s) /\ sweep'.calls <= SweepCalls BY <1>5 DEF Packaging
  <2>3. age' \in [File -> 0..(EffectiveTtl + SweepTicks + 1)]
    <3>1. age' = age \/ \E C : age' = [f \in File |-> IF f \in C THEN 0 ELSE age[f]]
      BY <1>5 DEF Packaging
    <3>. QED BY <1>1, <3>1
  <2>4. late' \in BOOLEAN /\ hit' \in BOOLEAN BY <1>1, <1>5 DEF Packaging
  <2>. HIDE DEF s
  <2>5. sweep' \in SweepType /\ sweep'.phase = sweep.phase /\ sweep'.budget = sweep.budget
    BY <2>1, <2>2 DEF Calls, SweepType
  <2>. QED BY <1>1, <1>2, <2>3, <2>4, <2>5 DEF Affordable
<1>6. CASE Pass
  <2>1. age' \in [File -> 0..(EffectiveTtl + SweepTicks + 1)] BY <1>1, <1>6 DEF Pass
  <2>2. sweep' \in SweepType /\ sweep'.phase = sweep.phase /\ sweep'.budget = sweep.budget
    BY <1>1, <1>6 DEF Pass, SweepType
  <2>3. late' \in BOOLEAN /\ hit' \in BOOLEAN BY <1>1, <1>6 DEF Pass, Overdue, Stranded
  <2>. QED BY <1>1, <1>2, <2>1, <2>2, <2>3 DEF Affordable
<1>7. CASE Begin
  <2>1. sweep' \in SweepType
    <3>1. sweep' = [Idle EXCEPT !.phase = "scan", !.budget = Budget] /\ Budget \in 0..Budget
      BY <1>7 DEF Begin
    <3>. QED BY <3>1, IdleTyped
  <2>2. sweep'.phase = "scan" BY <1>7 DEF Begin, Idle
  <2>. QED BY <1>2, <1>4, <1>7, <2>1, <2>2 DEF Begin, Affordable
<1>8. ASSUME NEW early, NEW new, Scan(early, new) PROVE Inv'
  <2>. DEFINE steady == {f \in File \ Touched : Present(dir, f)}
              seen == steady \cup early \cup new
              expired == {f \in seen : (f \in steady /\ Old(f)) \/ f \in early \cap sweep.old}
              segs == expired \cap 1..MaxSeg
              fresh == (seen \ expired) \cap 1..MaxSeg # {}
              mpd == MpdFile \in seen
              init == InitFile \in seen
              s == [Idle EXCEPT !.ticks = sweep.ticks, !.calls = sweep.calls,
                                !.budget = sweep.budget, !.expired = segs,
                                !.fresh = fresh, !.mpd = mpd, !.init = init]
  <2>1. sweep' = Settled(s) /\ Keeps BY <1>8 DEF Scan
  <2>2. segs \in SUBSET (1..MaxSeg) /\ fresh \in BOOLEAN /\ mpd \in BOOLEAN /\ init \in BOOLEAN
    OBVIOUS
  <2>3. sweep.ticks \in 0..SweepTicks /\ sweep.calls \in 0..SweepCalls /\ sweep.budget \in 0..Budget
    BY <1>1 DEF SweepType
  <2>. HIDE DEF segs, fresh, mpd, init
  <2>4. s \in SweepType BY <2>2, <2>3, IdleTyped
  <2>. HIDE DEF s
  <2>. QED BY <1>2, <1>4, <2>1, <2>4, SettledTyped DEF Affordable
<1>9. ASSUME NEW f \in 1..MaxSeg, DeleteSegment(f) PROVE Inv'
  <2>1. sweep.budget - 1 \in 0..Budget /\ f \in File
    BY <1>1, <1>9 DEF DeleteSegment, Affordable, File, SweepType
  <2>. DEFINE rest == [sweep EXCEPT !.expired = @ \ {f}]
  <2>2. rest \in SweepType /\ rest.budget = sweep.budget BY <1>1 DEF SweepType
  <2>3. \/ Removes(f) /\ sweep' = Settled([rest EXCEPT !.budget = @ - 1])
        \/ Keeps /\ sweep' = Settled([rest EXCEPT !.left = TRUE])
    BY <1>9 DEF DeleteSegment
  <2>. HIDE DEF rest
  <2>4. [rest EXCEPT !.budget = @ - 1] \in SweepType /\ [rest EXCEPT !.left = TRUE] \in SweepType
    BY <2>1, <2>2 DEF SweepType
  <2>5. PICK s \in SweepType : sweep' = Settled(s) BY <2>3, <2>4
  <2>. QED BY <1>2, <1>3, <1>4, <2>1, <2>3, <2>5, SettledTyped DEF Affordable
<1>10. CASE CheckManifest
  <2>1. sweep' \in SweepType /\ Affordable'
    BY <1>1, <1>10 DEF CheckManifest, Idle, SweepType, Phases, Affordable
  <2>. QED BY <1>2, <1>4, <1>10, <2>1 DEF CheckManifest
<1>11. CASE DropManifest
  <2>1. sweep.budget > 0 /\ MpdFile \in File BY <1>1, <1>11 DEF DropManifest, Affordable, File, MpdFile
  <2>2. ASSUME sweep' = Idle PROVE sweep' \in SweepType /\ Affordable'
    BY <2>2 DEF Idle, SweepType, Phases, Affordable
  <2>3. ASSUME sweep' = [sweep EXCEPT !.phase = "drop_init", !.budget = @ - 1]
        PROVE  sweep' \in SweepType /\ Affordable'
    <3>1. sweep.budget - 1 \in 0..Budget BY <1>1, <2>1 DEF SweepType
    <3>. QED BY <1>1, <2>3, <3>1 DEF SweepType, Phases, Affordable
  <2>4. sweep' \in SweepType /\ Affordable' BY <1>11, <2>2, <2>3 DEF DropManifest
  <2>. QED BY <1>2, <1>3, <1>4, <1>11, <2>1, <2>4 DEF DropManifest
<1>12. CASE DropInit
  <2>1. InitFile \in File BY DEF File, InitFile
  <2>2. sweep' \in SweepType /\ Affordable'
    BY <1>12 DEF DropInit, Idle, SweepType, Phases, Affordable
  <2>. QED BY <1>2, <1>3, <1>4, <1>12, <2>1, <2>2 DEF DropInit
<1>13. CASE UNCHANGED cacheVars
  BY <1>1, <1>2, <1>13 DEF cacheVars, cache, Affordable
<1>. QED BY <1>5, <1>6, <1>7, <1>8, <1>9, <1>10, <1>11, <1>12, <1>13
         DEF CacheNext, Janitor, Sweeps

\* No sweep deletes more than its budget, whatever the packager and its writer do
\* between its calls (janitor.rs:73-176); ages and phases keep their types.
THEOREM CacheTypeCorrect == CacheSpec => []CacheTypeOK
<1>1. Inv => CacheTypeOK BY DEF Inv
<1>. QED BY InitInv, NextInv, <1>1, PTL DEF CacheSpec

-----------------------------------------------------------------------------
\* What keeps a live packager's window from a sweep.  A job that writes a segment:
IsSeg(job) == job.kind = "seg"

\* The segments of the generation g, and what lasts from segment n to segment m.
Lives(d, g) == {n \in 1..MaxSeg : d.seg[n] = g}
Span(n, m)  == (m - n) * GopSecs

\* Segment m of the generation g is to be written, or is the one after those.
Due(J, g, next, m) ==
    m = next \/ \E i \in 1..Len(J) : IsSeg(J[i]) /\ J[i].gen = g /\ J[i].n = m

\* The segments are written generation by generation, and in order.
InLine(J, g, next) ==
    \A i \in 1..Len(J) : IsSeg(J[i]) =>
        /\ J[i].gen <= g
        /\ J[i].gen = g => J[i].n < next
        /\ \A j \in (i + 1)..Len(J) : IsSeg(J[j]) =>
              J[i].gen <= J[j].gen /\ (J[i].gen = g => J[i].n < J[j].n)
Current(J, g) == \A i \in 1..Len(J) : IsSeg(J[i]) => J[i].gen = g

\* With the ages a: a segment is not older than those from it to the ones to
\* come last, a later one is the younger by what lies between them at most,
\* and one of an earlier generation is older.
Timed(d, a, J, g, next) ==
    /\ \A n \in Lives(d, g), m \in 1..(MaxSeg + 1) :
          Due(J, g, next, m) => n < m /\ a[n] <= Span(n, m)
    /\ \A n \in Lives(d, g), m \in Lives(d, g) :
          n < m => a[m] <= a[n] /\ a[n] <= a[m] + Span(n, m)
    /\ \A n \in Lives(d, g), p \in (1..MaxSeg) \ Lives(d, g) : d.seg[p] # 0 => a[n] <= a[p]

Paced ==
    feed.live /\ ~late =>
        /\ \A n \in 1..MaxSeg : dir.seg[n] <= feed.gen
        /\ InLine(jobs, feed.gen, feed.next)
        /\ Lives(dir, feed.gen) # {} => Current(jobs, feed.gen)
        /\ Timed(dir, age, jobs, feed.gen, feed.next)

\* What a sweep has found expired is, was written after it, or is gone.
Judged ==
    /\ sweep.phase = "idle" => sweep.expired = {}
    /\ sweep.phase = "scan" => \A f \in Touched : age[f] <= sweep.ticks
    /\ \A f \in sweep.expired : \/ ~Present(dir, f) \/ age[f] <= sweep.ticks
                                \/ age[f] > EffectiveTtl + sweep.ticks

PacedInv == FilesTypeOK /\ Inv /\ Paced /\ Judged

LEMMA SpanFacts ==
    /\ GopSecs \in Nat \ {0}
    /\ \A n \in Nat, m \in Nat : n <= m => Span(n, m) \in Nat /\ (n < m => Span(n, m) >= GopSecs)
    /\ \A n \in Nat, m \in Nat, k \in Nat :
          n <= m /\ m <= k => Span(n, k) = Span(n, m) + Span(m, k)
<1>1. GopSecs \in Nat \ {0} BY CacheAssumption
<1>2. ASSUME NEW n \in Nat, NEW m \in Nat, n <= m
      PROVE  Span(n, m) \in Nat /\ (n < m => Span(n, m) >= GopSecs)
  <2>1. PICK d \in Nat : d = m - n BY <1>2
  <2>2. d * GopSecs \in Nat /\ (d > 0 => d * GopSecs >= GopSecs) BY <1>1
  <2>3. Span(n, m) = d * GopSecs BY <2>1 DEF Span
  <2>. QED BY <1>2, <2>1, <2>2, <2>3
<1>3. ASSUME NEW n \in Nat, NEW m \in Nat, NEW k \in Nat, n <= m, m <= k
      PROVE  Span(n, k) = Span(n, m) + Span(m, k)
  <2>1. PICK d \in Nat : d = m - n BY <1>3
  <2>2. PICK e \in Nat : e = k - m BY <1>3
  <2>3. k - n = d + e BY <2>1, <2>2
  <2>4. (d + e) * GopSecs = d * GopSecs + e * GopSecs BY <1>1
  <2>. QED BY <2>1, <2>2, <2>3, <2>4 DEF Span
<1>. QED BY <1>1, <1>2, <1>3

\* The jobs K write the k segments that come next, and no others.
NewSegs(K, k) ==
    \A i \in 1..Len(K) : IsSeg(K[i]) =>
        i <= k /\ K[i].gen = feed.gen /\ K[i].n = feed.next + i - 1

LEMMA NewSegsParts ==
    /\ \A k \in Nat : NewSegs(Segments(k), k)
    /\ \A s \in Seq(1..MaxSeg) : NewSegs(Deletes(s), 0)
    /\ NewSegs(<<DelMpd>>, 0) /\ NewSegs(<<>>, 0)
    /\ \A g : NewSegs(<<InitJob(g)>>, 0)
    /\ \A g, s : NewSegs(<<MpdJob(g, s)>>, 0)
<1>1. ASSUME NEW k \in Nat PROVE NewSegs(Segments(k), k)
  <2>1. Len(Segments(k)) = k /\ \A i \in 1..k : Segments(k)[i] = SegJob(feed.gen, feed.next + i - 1)
    BY DEF Segments
  <2>. QED BY <2>1 DEF NewSegs, SegJob
<1>2. ASSUME NEW s \in Seq(1..MaxSeg) PROVE NewSegs(Deletes(s), 0)
  <2>1. Len(Deletes(s)) = Len(s) /\ \A i \in 1..Len(s) : Deletes(s)[i] = DelSeg(s[i])
    BY DeletesTyped
  <2>2. \A n : ~IsSeg(DelSeg(n)) BY DEF DelSeg, IsSeg
  <2>. QED BY <2>1, <2>2 DEF NewSegs
<1>3. NewSegs(<<DelMpd>>, 0) BY DEF NewSegs, DelMpd, IsSeg
<1>4. NewSegs(<<>>, 0) BY DEF NewSegs
<1>5. ASSUME NEW g PROVE NewSegs(<<InitJob(g)>>, 0) BY DEF NewSegs, InitJob, IsSeg
<1>6. ASSUME NEW g, NEW s PROVE NewSegs(<<MpdJob(g, s)>>, 0) BY DEF NewSegs, MpdJob, IsSeg
<1>. QED BY <1>1, <1>2, <1>3, <1>4, <1>5, <1>6

LEMMA NewSegsJoin ==
    ASSUME NEW J \in Seq(JobType), NEW K \in Seq(JobType), NEW k \in Nat,
           NewSegs(J, k), NewSegs(K, 0)
    PROVE  NewSegs(J \o K, k)
<1>. DEFINE L == J \o K
            n == Len(J)
<1>1. /\ n \in Nat /\ Len(K) \in Nat /\ Len(L) = n + Len(K)
      /\ \A i \in 1..n : L[i] = J[i]
      /\ \A i \in 1..Len(K) : L[n + i] = K[i]
  OBVIOUS
<1>. HIDE DEF L
<1>2. ASSUME NEW i \in 1..Len(L), IsSeg(L[i]) PROVE i \in 1..n
  <2>. SUFFICES ASSUME i \notin 1..n PROVE FALSE OBVIOUS
  <2>1. PICK j \in 1..Len(K) : i = n + j
    <3>1. i - n \in 1..Len(K) /\ i = n + (i - n) BY <1>1
    <3>. QED BY <3>1
  <2>2. IsSeg(K[j]) BY <1>1, <1>2, <2>1
  <2>. QED BY <2>2 DEF NewSegs
<1>. QED BY <1>1, <1>2 DEF NewSegs, L, n

LEMMA SegFields ==
    ASSUME NEW job \in JobType, IsSeg(job)
    PROVE  job.gen \in 1..MaxGen /\ job.n \in 1..MaxSeg /\ job = SegJob(job.gen, job.n)
<1>1. PICK g \in 1..MaxGen, n \in 1..MaxSeg : job = SegJob(g, n)
  BY DEF JobType, IsSeg, InitJob, SegJob, MpdJob, DelSeg, DelMpd
<1>. QED BY <1>1 DEF SegJob

LEMMA InLineTail ==
    ASSUME NEW J \in Seq(JobType), J # <<>>, NEW g, NEW next
    PROVE  /\ InLine(J, g, next) => InLine(Tail(J), g, next)
           /\ Current(J, g) => Current(Tail(J), g)
           /\ \A m : Due(Tail(J), g, next, m) => Due(J, g, next, m)
<1>. DEFINE K == Tail(J)
<1>1. /\ Len(K) \in Nat /\ Len(J) = Len(K) + 1 /\ \A i \in 1..Len(K) : K[i] = J[i + 1]
      /\ \A i \in 1..Len(K) : i + 1 \in 1..Len(J)
  OBVIOUS
<1>. HIDE DEF K
<1>2. ASSUME InLine(J, g, next) PROVE InLine(K, g, next)
  <2>. SUFFICES ASSUME NEW i \in 1..Len(K), IsSeg(K[i])
                PROVE  /\ K[i].gen <= g
                       /\ K[i].gen = g => K[i].n < next
                       /\ \A j \in (i + 1)..Len(K) : IsSeg(K[j]) =>
                             K[i].gen <= K[j].gen /\ (K[i].gen = g => K[i].n < K[j].n)
    BY DEF InLine
  <2>1. K[i] = J[i + 1] /\ i + 1 \in 1..Len(J) BY <1>1
  <2>2. ASSUME NEW j \in (i + 1)..Len(K) PROVE K[j] = J[j + 1] /\ j + 1 \in ((i + 1) + 1)..Len(J)
    BY <1>1
  <2>. QED BY <1>2, <2>1, <2>2 DEF InLine
<1>3. ASSUME Current(J, g) PROVE Current(K, g) BY <1>1, <1>3 DEF Current
<1>4. ASSUME NEW m, Due(K, g, next, m) PROVE Due(J, g, next, m) BY <1>1, <1>4 DEF Due
<1>. QED BY <1>2, <1>3, <1>4 DEF K

LEMMA InLineJoin ==
    ASSUME NEW J \in Seq(JobType), NEW K \in Seq(JobType), NEW k \in Nat, NewSegs(K, k),
           feed.gen \in Nat, feed.next \in Nat, InLine(J, feed.gen, feed.next)
    PROVE  /\ InLine(J \o K, feed.gen, feed.next + k)
           /\ Current(J, feed.gen) => Current(J \o K, feed.gen)
           /\ \A m : Due(J \o K, feed.gen, feed.next + k, m) =>
                        Due(J, feed.gen, feed.next, m) \/ (m \in Nat /\ m >= feed.next)
<1>. DEFINE L == J \o K
            n == Len(J)
            g == feed.gen
            next == feed.next
<1>1. /\ n \in Nat /\ Len(K) \in Nat /\ Len(L) = n + Len(K)
      /\ \A i \in 1..n : L[i] = J[i]
      /\ \A i \in 1..Len(K) : L[n + i] = K[i]
      /\ \A i \in 1..n : J[i] \in JobType
  OBVIOUS
<1>. HIDE DEF L, n
<1>2. ASSUME NEW i \in 1..Len(L), i \notin 1..n, IsSeg(L[i])
      PROVE  i - n \in 1..k /\ L[i].gen = g /\ L[i].n = next + (i - n) - 1
  <2>1. PICK j \in 1..Len(K) : i = n + j
    <3>1. i - n \in 1..Len(K) /\ i = n + (i - n) BY <1>1, <1>2
    <3>. QED BY <3>1
  <2>2. L[i] = K[j] BY <1>1, <2>1
  <2>3. j <= k /\ K[j].gen = g /\ K[j].n = next + j - 1 BY <1>2, <2>2 DEF NewSegs
  <2>4. i - n = j BY <1>1, <2>1
  <2>. QED BY <2>2, <2>3, <2>4
<1>3. ASSUME NEW i \in 1..n, IsSeg(L[i])
      PROVE  /\ L[i].gen \in Nat /\ L[i].n \in Nat /\ L[i].gen <= g /\ (L[i].gen = g => L[i].n < next)
             /\ \A j \in (i + 1)..n : IsSeg(L[j]) =>
                   L[i].gen <= L[j].gen /\ (L[i].gen = g => L[i].n < L[j].n)
  <2>1. L[i] = J[i] BY <1>1
  <2>2. L[i].gen \in Nat /\ L[i].n \in Nat
    <3>1. J[i].gen \in 1..MaxGen /\ J[i].n \in 1..MaxSeg BY <1>1, <1>3, <2>1, SegFields
    <3>. QED BY <2>1, <3>1
  <2>3. L[i].gen <= g /\ (L[i].gen = g => L[i].n < next) BY <1>3, <2>1 DEF InLine, n
  <2>4. ASSUME NEW j \in (i + 1)..n, IsSeg(L[j])
        PROVE  L[i].gen <= L[j].gen /\ (L[i].gen = g => L[i].n < L[j].n)
    <3>1. j \in 1..n /\ L[j] = J[j] BY <1>1
    <3>. QED BY <1>3, <2>1, <2>4, <3>1 DEF InLine, n
  <2>. QED BY <2>2, <2>3, <2>4
<1>4. InLine(L, g, next + k)
  <2>. SUFFICES ASSUME NEW i \in 1..Len(L), IsSeg(L[i])
                PROVE  /\ L[i].gen <= g
                       /\ L[i].gen = g => L[i].n < next + k
                       /\ \A j \in (i + 1)..Len(L) : IsSeg(L[j]) =>
                             L[i].gen <= L[j].gen /\ (L[i].gen = g => L[i].n < L[j].n)
    BY DEF InLine
  <2>1. CASE i \in 1..n
    <3>1. L[i].gen <= g /\ (L[i].gen = g => L[i].n < next + k) BY <1>3, <2>1
    <3>2. ASSUME NEW j \in (i + 1)..Len(L), IsSeg(L[j])
          PROVE  L[i].gen <= L[j].gen /\ (L[i].gen = g => L[i].n < L[j].n)
      <4>1. CASE j <= n BY <1>1, <1>3, <2>1, <3>2, <4>1
      <4>2. CASE j > n
        <5>1. j \in 1..Len(L) /\ j \notin 1..n BY <1>1, <2>1, <4>2
        <5>2. j - n >= 1 /\ L[j].gen = g /\ L[j].n = next + (j - n) - 1 BY <1>2, <3>2, <5>1
        <5>. QED BY <1>1, <1>3, <2>1, <4>2, <5>2
      <4>. QED BY <1>1, <4>1, <4>2
    <3>. QED BY <3>1, <3>2
  <2>2. CASE i \notin 1..n
    <3>1. i - n \in 1..k /\ L[i].gen = g /\ L[i].n = next + (i - n) - 1 BY <1>2, <2>2
    <3>2. ASSUME NEW j \in (i + 1)..Len(L), IsSeg(L[j])
          PROVE  L[i].gen <= L[j].gen /\ (L[i].gen = g => L[i].n < L[j].n)
      <4>1. j \in 1..Len(L) /\ j \notin 1..n BY <1>1, <2>2
      <4>2. L[j].gen = g /\ L[j].n = next + (j - n) - 1 BY <1>2, <3>2, <4>1
      <4>. QED BY <1>1, <3>1, <4>2
    <3>. QED BY <1>1, <3>1, <3>2
  <2>. QED BY <2>1, <2>2
<1>5. ASSUME Current(J, g) PROVE Current(L, g)
  <2>. SUFFICES ASSUME NEW i \in 1..Len(L), IsSeg(L[i]) PROVE L[i].gen = g BY DEF Current
  <2>. QED BY <1>1, <1>2, <1>5 DEF Current, n
<1>6. ASSUME NEW m, Due(L, g, next + k, m) PROVE Due(J, g, next, m) \/ (m \in Nat /\ m >= next)
  <2>1. CASE m = next + k BY <2>1
  <2>2. ASSUME NEW i \in 1..Len(L), IsSeg(L[i]), L[i].gen = g, L[i].n = m
        PROVE  Due(J, g, next, m) \/ (m \in Nat /\ m >= next)
    <3>1. CASE i \in 1..n
      <4>1. i \in 1..Len(J) /\ J[i] = L[i] BY <1>1, <3>1 DEF n
      <4>. QED BY <2>2, <4>1 DEF Due
    <3>2. CASE i \notin 1..n
      <4>1. i - n \in 1..k /\ m = next + (i - n) - 1 BY <1>2, <2>2, <3>2
      <4>. QED BY <4>1
    <3>. QED BY <3>1, <3>2
  <2>. QED BY <1>6, <2>1, <2>2 DEF Due
<1>. QED BY <1>4, <1>5, <1>6 DEF L

-----------------------------------------------------------------------------
\* Segments that go, and jobs that come, leave the others in time.
Spares(d, e, a, b) ==
    \A n \in 1..MaxSeg : e.seg[n] = 0 \/ (e.seg[n] = d.seg[n] /\ b[n] = a[n])
NoSooner(J, next, K, last, g) ==
    \A m : Due(K, g, last, m) => Due(J, g, next, m) \/ (m \in Nat /\ m >= next)

LEMMA TimedLess ==
    ASSUME NEW d, NEW e, NEW a, NEW b, NEW J, NEW K, NEW g, g # 0,
           NEW next \in 1..(MaxSeg + 1), NEW last,
           Timed(d, a, J, g, next), \A n \in 1..MaxSeg : a[n] \in Nat,
           Spares(d, e, a, b), NoSooner(J, next, K, last, g)
    PROVE  Timed(e, b, K, g, last)
<1>1. ASSUME NEW n \in Lives(e, g) PROVE n \in Lives(d, g) /\ n \in Nat /\ b[n] = a[n]
  BY DEF Lives, Spares
<1>2. ASSUME NEW n \in Lives(e, g), NEW m \in 1..(MaxSeg + 1), Due(K, g, last, m)
      PROVE  n < m /\ b[n] <= Span(n, m)
  <2>1. CASE Due(J, g, next, m) BY <1>1, <2>1 DEF Timed
  <2>2. CASE m >= next
    <3>1. Due(J, g, next, next) BY DEF Due
    <3>2. n < next /\ a[n] <= Span(n, next) BY <1>1, <3>1 DEF Timed
    <3>3. next \in Nat /\ m \in Nat /\ n \in Nat BY <1>1
    <3>4. /\ Span(n, m) = Span(n, next) + Span(next, m)
          /\ Span(n, next) \in Nat /\ Span(next, m) \in Nat
      BY <2>2, <3>2, <3>3, SpanFacts
    <3>5. a[n] \in Nat BY DEF Lives
    <3>. QED BY <1>1, <2>2, <3>2, <3>3, <3>4, <3>5
  <2>. QED BY <1>2, <2>1, <2>2 DEF NoSooner
<1>3. ASSUME NEW n \in Lives(e, g), NEW m \in Lives(e, g), n < m
      PROVE  b[m] <= b[n] /\ b[n] <= b[m] + Span(n, m)
  BY <1>1, <1>3 DEF Timed
<1>4. ASSUME NEW n \in Lives(e, g), NEW p \in (1..MaxSeg) \ Lives(e, g), e.seg[p] # 0
      PROVE  b[n] <= b[p]
  <2>1. p \in (1..MaxSeg) \ Lives(d, g) /\ d.seg[p] # 0 /\ b[p] = a[p] BY <1>4 DEF Lives, Spares
  <2>. QED BY <1>1, <2>1 DEF Timed
<1>. QED BY <1>2, <1>3, <1>4 DEF Timed

\* So does the one that is written next: segment q of the generation g.
Writes(d, e, a, b, g, q) ==
    /\ e.seg[q] = g /\ b[q] = 0
    /\ \A n \in 1..MaxSeg : n # q => e.seg[n] = d.seg[n] /\ b[n] = a[n]

LEMMA TimedWrite ==
    ASSUME NEW d, NEW e, NEW a, NEW b, NEW J \in Seq(JobType), J # <<>>, NEW g \in Nat, g # 0,
           NEW next, Timed(d, a, J, g, next), \A n \in 1..MaxSeg : a[n] \in Nat,
           InLine(J, g, next), next \in Nat, Current(J, g), NEW q \in 1..MaxSeg, J[1] = SegJob(g, q),
           Writes(d, e, a, b, g, q)
    PROVE  Timed(e, b, Tail(J), g, next)
<1>. DEFINE K == Tail(J)
<1>1. /\ Len(K) \in Nat /\ Len(J) = Len(K) + 1 /\ \A i \in 1..Len(K) : K[i] = J[i + 1]
      /\ 1 \in 1..Len(J)
  OBVIOUS
<1>. HIDE DEF K
<1>2. IsSeg(J[1]) /\ J[1].gen = g /\ J[1].n = q BY DEF IsSeg, SegJob
<1>3. Due(J, g, next, q) /\ \A m : Due(K, g, next, m) => Due(J, g, next, m)
  BY <1>1, <1>2, InLineTail DEF Due, K
<1>4. ASSUME NEW m, Due(K, g, next, m) PROVE q < m
  <2>1. CASE m = next BY <1>1, <1>2, <2>1 DEF InLine
  <2>2. ASSUME NEW i \in 1..Len(K), IsSeg(K[i]), K[i].gen = g, K[i].n = m PROVE q < m
    <3>1. i + 1 \in (1 + 1)..Len(J) /\ K[i] = J[i + 1] BY <1>1
    <3>. QED BY <1>1, <1>2, <2>2, <3>1 DEF InLine
  <2>. QED BY <1>4, <2>1, <2>2 DEF Due
<1>5. q \in Lives(e, g) /\ q \in Nat /\ b[q] = 0 BY DEF Lives, Writes
<1>6. ASSUME NEW n \in Lives(e, g), n # q
      PROVE  /\ n \in Lives(d, g) /\ b[n] = a[n] /\ n \in Nat /\ a[n] \in Nat
             /\ n < q /\ a[n] <= Span(n, q)
  <2>1. n \in Lives(d, g) /\ b[n] = a[n] /\ n \in Nat /\ a[n] \in Nat BY <1>6 DEF Lives, Writes
  <2>2. q \in 1..(MaxSeg + 1) BY DirectoryAssumption
  <2>. QED BY <1>3, <2>1, <2>2 DEF Timed
<1>7. ASSUME NEW n \in Lives(e, g), NEW m \in 1..(MaxSeg + 1), Due(K, g, next, m)
      PROVE  n < m /\ b[n] <= Span(n, m)
  <2>1. CASE n = q
    <3>1. q < m /\ m \in Nat BY <1>4, <1>7
    <3>2. Span(q, m) \in Nat BY <1>5, <3>1, SpanFacts
    <3>. QED BY <1>5, <2>1, <3>1, <3>2
  <2>2. CASE n # q BY <1>3, <1>6, <1>7, <2>2 DEF Timed
  <2>. QED BY <2>1, <2>2
<1>8. ASSUME NEW n \in Lives(e, g), NEW m \in Lives(e, g), n < m
      PROVE  b[m] <= b[n] /\ b[n] <= b[m] + Span(n, m)
  <2>1. CASE m = q
    <3>1. n # q BY <1>5, <1>8, <2>1
    <3>2. b[n] = a[n] /\ a[n] \in Nat /\ a[n] <= Span(n, q) /\ n < q /\ n \in Nat BY <1>6, <3>1
    <3>3. Span(n, q) \in Nat BY <1>5, <3>2, SpanFacts
    <3>. QED BY <1>5, <2>1, <3>2, <3>3
  <2>2. CASE m # q
    <3>1. n # q BY <1>5, <1>6, <1>8, <2>2
    <3>. QED BY <1>6, <1>8, <2>2, <3>1 DEF Timed
  <2>. QED BY <2>1, <2>2
<1>9. ASSUME NEW n \in Lives(e, g), NEW p \in (1..MaxSeg) \ Lives(e, g), e.seg[p] # 0
      PROVE  b[n] <= b[p]
  <2>1. p # q BY <1>5
  <2>2. p \in (1..MaxSeg) \ Lives(d, g) /\ d.seg[p] # 0 /\ b[p] = a[p] /\ a[p] \in Nat
    BY <1>9, <2>1 DEF Lives, Writes
  <2>3. CASE n = q BY <1>5, <2>2, <2>3
  <2>4. CASE n # q BY <1>6, <2>2, <2>4 DEF Timed
  <2>. QED BY <2>3, <2>4
<1>. QED BY <1>7, <1>8, <1>9 DEF Timed, K

\* And time that passes, unless the newest segment has become older than a
\* segment lasts.
LEMMA TimedPass ==
    ASSUME NEW d, NEW a, NEW b, NEW J, NEW g, g # 0, NEW next,
           Timed(d, a, J, g, next), NEW c \in Nat, \A n \in 1..MaxSeg : a[n] \in 0..c,
           \A n \in 1..MaxSeg : d.seg[n] # 0 => b[n] = IF a[n] < c THEN a[n] + 1 ELSE a[n],
           Lives(d, g) # {} => \E n \in 1..MaxSeg : d.seg[n] # 0 /\ a[n] < GopSecs
    PROVE  Timed(d, b, J, g, next)
<1>1. ASSUME NEW n \in 1..MaxSeg, d.seg[n] # 0
      PROVE  /\ a[n] \in Nat /\ a[n] <= c /\ n \in Nat
             /\ b[n] = IF a[n] < c THEN a[n] + 1 ELSE a[n]
  BY <1>1
<1>2. ASSUME NEW n \in Lives(d, g) PROVE n \in 1..MaxSeg /\ d.seg[n] # 0 BY DEF Lives
<1>3. ASSUME NEW n \in Lives(d, g), NEW m \in 1..(MaxSeg + 1), Due(J, g, next, m)
      PROVE  n < m /\ b[n] <= Span(n, m)
  <2>1. n < m /\ a[n] <= Span(n, m) /\ n \in Nat /\ m \in Nat BY <1>1, <1>2, <1>3 DEF Timed
  <2>2. PICK q \in 1..MaxSeg : d.seg[q] # 0 /\ a[q] < GopSecs OBVIOUS
  <2>3. Span(n, m) \in Nat /\ Span(n, m) >= GopSecs /\ GopSecs \in Nat BY <2>1, SpanFacts
  <2>4. a[n] + 1 <= Span(n, m)
    <3>1. a[n] \in Nat /\ a[q] \in Nat /\ q \in Nat BY <1>1, <1>2, <2>2
    <3>2. CASE a[n] <= a[q] BY <2>2, <2>3, <3>1, <3>2
    <3>3. CASE ~(a[n] <= a[q])
      <4>1. q \in Lives(d, g) BY <2>2, <3>3 DEF Timed
      <4>2. n < q
        <5>1. q < n => a[n] <= a[q] BY <4>1 DEF Timed
        <5>2. q # n BY <3>1, <3>3
        <5>. QED BY <2>1, <3>1, <3>3, <5>1, <5>2
      <4>3. a[n] <= a[q] + Span(n, q) BY <4>1, <4>2 DEF Timed
      <4>4. q < m BY <1>3, <4>1 DEF Timed
      <4>5. Span(n, m) = Span(n, q) + Span(q, m) /\ Span(n, q) \in Nat /\ Span(q, m) \in Nat
            /\ Span(q, m) >= GopSecs
        BY <2>1, <3>1, <4>2, <4>4, SpanFacts
      <4>. QED BY <2>2, <2>3, <3>1, <4>3, <4>5
    <3>. QED BY <3>2, <3>3
  <2>5. a[n] \in Nat /\ b[n] <= a[n] + 1 /\ b[n] \in Nat BY <1>1, <1>2
  <2>. QED BY <2>1, <2>3, <2>4, <2>5
<1>4. ASSUME NEW n \in Lives(d, g), NEW m \in Lives(d, g), n < m
      PROVE  b[m] <= b[n] /\ b[n] <= b[m] + Span(n, m)
  <2>1. a[m] <= a[n] /\ a[n] <= a[m] + Span(n, m) BY <1>4 DEF Timed
  <2>2. /\ a[n] \in Nat /\ a[n] <= c /\ n \in Nat /\ b[n] = IF a[n] < c THEN a[n] + 1 ELSE a[n]
        /\ a[m] \in Nat /\ a[m] <= c /\ m \in Nat /\ b[m] = IF a[m] < c THEN a[m] + 1 ELSE a[m]
    BY <1>1, <1>2
  <2>3. Span(n, m) \in Nat BY <1>4, <2>2, SpanFacts
  <2>. QED BY <2>1, <2>2, <2>3
<1>5. ASSUME NEW n \in Lives(d, g), NEW p \in (1..MaxSeg) \ Lives(d, g), d.seg[p] # 0
      PROVE  b[n] <= b[p]
  <2>1. a[n] <= a[p] BY <1>5 DEF Timed
  <2>2. /\ a[n] \in Nat /\ a[n] <= c /\ b[n] = IF a[n] < c THEN a[n] + 1 ELSE a[n]
        /\ a[p] \in Nat /\ a[p] <= c /\ b[p] = IF a[p] < c THEN a[p] + 1 ELSE a[p]
    BY <1>1, <1>2, <1>5
  <2>. QED BY <2>1, <2>2
<1>. QED BY <1>3, <1>4, <1>5 DEF Timed

-----------------------------------------------------------------------------
\* The packager's and its writer's steps.
LEMMA AgeFacts ==
    ASSUME FilesTypeOK, Inv
    PROVE  /\ feed.live => feed.gen \in Nat \ {0} /\ feed.next \in 1..(MaxSeg + 1)
           /\ \A n \in 1..MaxSeg : n \in File /\ n # InitFile /\ n # MpdFile
           /\ \A f \in File : age[f] \in 0..(EffectiveTtl + SweepTicks + 1)
           /\ EffectiveTtl + SweepTicks + 1 \in Nat
           /\ \A n \in 1..MaxSeg : age[n] \in 0..(EffectiveTtl + SweepTicks + 1) /\ age[n] \in Nat
           /\ sweep.ticks \in Nat /\ sweep.ticks <= SweepTicks
           /\ sweep.expired \subseteq 1..MaxSeg
<1>1. \A n \in 1..MaxSeg : n \in File /\ n # InitFile /\ n # MpdFile
  BY Limits DEF File, InitFile, MpdFile
<1>2. \A f \in File : age[f] \in 0..(EffectiveTtl + SweepTicks + 1) BY DEF Inv, CacheTypeOK
<1>3. EffectiveTtl + SweepTicks + 1 \in Nat BY Limits
<1>4. sweep.ticks \in Nat /\ sweep.ticks <= SweepTicks /\ sweep.expired \subseteq 1..MaxSeg
  <2>1. sweep \in SweepType BY DEF Inv, CacheTypeOK, SweepType, Phases
  <2>. QED BY <2>1, Limits DEF SweepType
<1>5. feed.live => feed.gen \in Nat \ {0} /\ feed.next \in 1..(MaxSeg + 1)
  BY DEF FilesTypeOK, FeedType
<1>. QED BY <1>1, <1>2, <1>3, <1>4, <1>5

LEMMA AgeChanges ==
    ASSUME FilesTypeOK, Inv, Packaging
    PROVE  /\ \A n \in 1..MaxSeg : age'[n] = IF dir'.seg[n] # dir.seg[n] THEN 0 ELSE age[n]
           /\ feed.live => late' = late
           /\ ~feed.live /\ feed'.live => (late' <=> dir'.lost)
<1>. DEFINE changed == {f \in File : Content(dir', f) # Content(dir, f)}
<1>1. age' = IF changed = {} THEN age ELSE [f \in File |-> IF f \in changed THEN 0 ELSE age[f]]
  BY DEF Packaging
<1>2. ASSUME NEW n \in 1..MaxSeg PROVE n \in changed <=> dir'.seg[n] # dir.seg[n]
  BY AgeFacts DEF Content
<1>. HIDE DEF changed
<1>3. ASSUME NEW n \in 1..MaxSeg PROVE age'[n] = IF dir'.seg[n] # dir.seg[n] THEN 0 ELSE age[n]
  <2>1. n \in File BY AgeFacts
  <2>. QED BY <1>1, <1>2, <2>1
<1>4. /\ feed.live => late' = late
      /\ ~feed.live /\ feed'.live => (late' <=> dir'.lost)
  BY DEF Packaging, Wiping
<1>. QED BY <1>3, <1>4

\* A call that adds jobs to the same generation.
LEMMA MorePaced ==
    ASSUME FilesTypeOK, Inv, Paced, feed.live, NEW K \in Seq(JobType), NEW k \in Nat, NewSegs(K, k),
           jobs' = jobs \o K, dir' = dir, feed'.gen = feed.gen, feed'.next = feed.next + k,
           \A n \in 1..MaxSeg : age'[n] = age[n], late' = late
    PROVE  Paced'
<1>. SUFFICES ASSUME ~late PROVE Paced' BY DEF Paced
<1>1. jobs \in Seq(JobType) BY DEF FilesTypeOK
<1>2. /\ feed.gen \in Nat /\ feed.gen # 0 /\ feed.next \in Nat /\ feed.next \in 1..(MaxSeg + 1)
      /\ \A n \in 1..MaxSeg : age[n] \in Nat
  BY AgeFacts
<1>3. /\ \A n \in 1..MaxSeg : dir.seg[n] <= feed.gen
      /\ InLine(jobs, feed.gen, feed.next)
      /\ Lives(dir, feed.gen) # {} => Current(jobs, feed.gen)
      /\ Timed(dir, age, jobs, feed.gen, feed.next)
  BY DEF Paced
<1>4. /\ InLine(jobs', feed.gen, feed'.next)
      /\ Current(jobs, feed.gen) => Current(jobs', feed.gen)
      /\ \A m : Due(jobs', feed.gen, feed'.next, m) =>
                   Due(jobs, feed.gen, feed.next, m) \/ (m \in Nat /\ m >= feed.next)
  BY <1>1, <1>2, <1>3, InLineJoin
<1>5. Timed(dir', age', jobs', feed.gen, feed'.next)
  <2>1. Spares(dir, dir', age, age') BY DEF Spares
  <2>2. Timed(dir, age, jobs, feed.gen, feed.next) BY <1>3
  <2>3. NoSooner(jobs, feed.next, jobs', feed'.next, feed.gen) BY <1>4 DEF NoSooner
  <2>. QED BY <1>2, <2>1, <2>2, <2>3, TimedLess
<1>. QED BY <1>3, <1>4, <1>5 DEF Paced

LEMMA SegNat ==
    ASSUME NEW d \in DirType
    PROVE  \A n \in 1..MaxSeg : d.seg[n] \in Nat
<1>1. \A n \in 1..MaxSeg : d.seg[n] \in 0..MaxGen BY DirFacts
<1>. QED BY <1>1

\* A new generation, of which nothing is there.
LEMMA RotatePaced ==
    ASSUME FilesTypeOK, Inv, Paced, feed.live, NEW K \in Seq(JobType), NEW k \in Nat, NewSegs(K, k),
           jobs' = jobs \o K, dir' = dir, feed'.gen = feed.gen + 1, late' = late
    PROVE  Paced'
<1>. SUFFICES ASSUME ~late PROVE Paced' BY DEF Paced
<1>. DEFINE g == feed.gen
<1>1. jobs \in Seq(JobType) /\ dir \in DirType BY DEF FilesTypeOK
<1>2. g \in Nat /\ feed.next \in Nat BY AgeFacts
<1>3. \A n \in 1..MaxSeg : dir.seg[n] <= g /\ dir.seg[n] \in Nat
  <2>1. \A n \in 1..MaxSeg : dir.seg[n] \in Nat BY <1>1, SegNat
  <2>. QED BY <2>1 DEF Paced
<1>. HIDE DEF g
<1>4. InLine(jobs', g, feed.next + k) BY <1>1, <1>2, InLineJoin DEF Paced, g
<1>5. Lives(dir, g + 1) = {} BY <1>2, <1>3 DEF Lives
<1>6. jobs' \in Seq(JobType) BY <1>1
<1>7. InLine(jobs', g + 1, feed'.next)
  <2>. SUFFICES ASSUME NEW i \in 1..Len(jobs'), IsSeg(jobs'[i])
                PROVE  /\ jobs'[i].gen <= g + 1 /\ jobs'[i].gen # g + 1
                       /\ \A j \in (i + 1)..Len(jobs') : IsSeg(jobs'[j]) =>
                             jobs'[i].gen <= jobs'[j].gen
    BY DEF InLine
  <2>1. jobs'[i].gen \in Nat
    <3>1. jobs'[i] \in JobType BY <1>6
    <3>2. jobs'[i].gen \in 1..MaxGen BY <3>1, SegFields
    <3>. QED BY <3>2
  <2>2. jobs'[i].gen <= g BY <1>4 DEF InLine
  <2>3. jobs'[i].gen <= g + 1 /\ jobs'[i].gen # g + 1 BY <1>2, <2>1, <2>2
  <2>. QED BY <1>4, <2>3 DEF InLine
<1>8. \A n \in 1..MaxSeg : dir.seg[n] <= g + 1 BY <1>2, <1>3
<1>9. Timed(dir', age', jobs', g + 1, feed'.next) BY <1>5 DEF Timed
<1>. QED BY <1>5, <1>7, <1>8, <1>9 DEF Paced, g

\* A job that takes effect, or fails.
LEMMA SegAfter ==
    ASSUME NEW d \in DirType, NEW job \in JobType
    PROVE  /\ IsSeg(job) => \A n \in 1..MaxSeg :
                 After(d, job).seg[n] = IF n = job.n THEN job.gen ELSE d.seg[n]
           /\ ~IsSeg(job) => \A n \in 1..MaxSeg : After(d, job).seg[n] \in {0, d.seg[n]}
<1>1. CASE IsSeg(job)
  <2>1. /\ job.gen \in 1..MaxGen /\ job.n \in 1..MaxSeg /\ job = SegJob(job.gen, job.n)
    BY <1>1, SegFields
  <2>2. job.gen \in 0..MaxGen /\ job.gen # 0 BY <2>1
  <2>. QED BY <1>1, <2>1, <2>2, AfterOne
<1>2. CASE ~IsSeg(job)
  <2>1. CASE \E g \in 1..MaxGen : job = InitJob(g) BY <1>2, <2>1, AfterEach, DirFields
  <2>2. CASE \E g \in 1..MaxGen, n \in 1..MaxSeg : job = SegJob(g, n)
    BY <1>2, <2>2 DEF IsSeg, SegJob
  <2>3. CASE \E g \in 1..MaxGen, s \in Seq(1..MaxSeg) : job = MpdJob(g, s)
    <3>1. PICK g \in 1..MaxGen, s \in Seq(1..MaxSeg) : job = MpdJob(g, s) BY <2>3
    <3>2. After(d, job) = Dir(d.init, [gen |-> g, segs |-> s], d.seg, d.lost) BY <3>1, AfterEach
    <3>3. After(d, job).seg = d.seg BY <3>2, DirFields
    <3>. QED BY <1>2, <3>3
  <2>4. CASE \E n \in 1..MaxSeg : job = DelSeg(n)
    <3>1. PICK n \in 1..MaxSeg : job = DelSeg(n) BY <2>4
    <3>2. 0 \in 0..MaxGen BY FilesAssumption
    <3>3. \A q \in 1..MaxSeg : After(d, job).seg[q] = IF q = n THEN 0 ELSE d.seg[q]
      BY <3>1, <3>2, AfterOne
    <3>. QED BY <1>2, <3>3
  <2>5. CASE job = DelMpd BY <1>2, <2>5, AfterEach, DirFields
  <2>. QED BY <2>1, <2>2, <2>3, <2>4, <2>5 DEF JobType
<1>. QED BY <1>1, <1>2

LEMMA DonePaced ==
    ASSUME FilesTypeOK, Inv, Paced, feed.live, jobs # <<>>, jobs' = Tail(jobs), feed' = feed,
           \/ dir' = After(dir, jobs[1])
           \/ \A n \in 1..MaxSeg : dir'.seg[n] = dir.seg[n],
           \A n \in 1..MaxSeg : age'[n] = IF dir'.seg[n] # dir.seg[n] THEN 0 ELSE age[n],
           late' = late
    PROVE  Paced'
<1>. SUFFICES ASSUME ~late PROVE Paced' BY DEF Paced
<1>. DEFINE g == feed.gen
            next == feed.next
<1>1. jobs \in Seq(JobType) /\ dir \in DirType BY DEF FilesTypeOK
<1>2. /\ g \in Nat /\ g # 0 /\ next \in Nat /\ next \in 1..(MaxSeg + 1)
      /\ \A n \in 1..MaxSeg : age[n] \in Nat
  BY AgeFacts
<1>3. /\ \A n \in 1..MaxSeg : dir.seg[n] <= g /\ dir.seg[n] \in Nat
      /\ InLine(jobs, g, next)
      /\ Lives(dir, g) # {} => Current(jobs, g)
      /\ Timed(dir, age, jobs, g, next)
  <2>1. \A n \in 1..MaxSeg : dir.seg[n] \in Nat BY <1>1, SegNat
  <2>. QED BY <2>1 DEF Paced
<1>. HIDE DEF g, next
<1>4. /\ InLine(jobs', g, next)
      /\ Current(jobs, g) => Current(jobs', g)
      /\ \A m : Due(jobs', g, next, m) => Due(jobs, g, next, m)
  BY <1>1, <1>3, InLineTail
<1>5. jobs[1] \in JobType /\ 1 \in 1..Len(jobs) BY <1>1
<1>6. CASE \A n \in 1..MaxSeg : dir'.seg[n] \in {0, dir.seg[n]}
  <2>1. \A n \in 1..MaxSeg : dir'.seg[n] = 0 \/ (dir'.seg[n] = dir.seg[n] /\ age'[n] = age[n])
    BY <1>6
  <2>2. Lives(dir', g) \subseteq Lives(dir, g) BY <1>2, <2>1 DEF Lives
  <2>3. Timed(dir', age', jobs', g, next)
    <3>1. Timed(dir, age, jobs, g, next) BY <1>3
    <3>2. Spares(dir, dir', age, age') BY <2>1 DEF Spares
    <3>3. NoSooner(jobs, next, jobs', next, g) BY <1>4 DEF NoSooner
    <3>. QED BY <1>2, <3>1, <3>2, <3>3, TimedLess
  <2>4. \A n \in 1..MaxSeg : dir'.seg[n] <= g BY <1>2, <1>3, <2>1
  <2>5. Lives(dir', g) # {} => Current(jobs', g) BY <1>3, <1>4, <2>2
  <2>. QED BY <1>4, <2>3, <2>4, <2>5 DEF Paced, g, next
<1>7. CASE dir' = After(dir, jobs[1]) /\ IsSeg(jobs[1])
  <2>1. PICK h \in 1..MaxGen, q \in 1..MaxSeg : jobs[1].gen = h /\ jobs[1].n = q /\ jobs[1] = SegJob(h, q)
    BY <1>5, <1>7, SegFields
  <2>2. \A n \in 1..MaxSeg : dir'.seg[n] = IF n = q THEN h ELSE dir.seg[n]
    BY <1>1, <1>5, <1>7, <2>1, SegAfter
  <2>3. h <= g BY <1>3, <1>5, <1>7, <2>1 DEF InLine
  <2>4. \A n \in 1..MaxSeg : dir'.seg[n] <= g BY <1>3, <2>2, <2>3
  <2>5. CASE h # g
    <3>1. Lives(dir, g) = {} BY <1>3, <1>5, <1>7, <2>1, <2>5 DEF Current
    <3>2. Lives(dir', g) = {} BY <2>2, <2>5, <3>1 DEF Lives
    <3>3. Timed(dir', age', jobs', g, next) BY <3>2 DEF Timed
    <3>. QED BY <1>4, <2>4, <3>2, <3>3 DEF Paced, g, next
  <2>6. CASE h = g
    <3>1. Current(jobs, g)
      <4>. SUFFICES ASSUME NEW i \in 1..Len(jobs), IsSeg(jobs[i]) PROVE jobs[i].gen = g
        BY DEF Current
      <4>1. CASE i = 1 BY <2>1, <2>6, <4>1
      <4>2. CASE i # 1
        <5>1. i \in (1 + 1)..Len(jobs) BY <1>1, <4>2
        <5>2. g <= jobs[i].gen /\ jobs[i].gen <= g BY <1>3, <1>5, <1>7, <2>1, <2>6, <5>1 DEF InLine
        <5>3. jobs[i] \in JobType BY <1>1
        <5>4. jobs[i].gen \in 1..MaxGen BY <5>3, SegFields
        <5>. QED BY <1>2, <5>2, <5>4
      <4>. QED BY <4>1, <4>2
    <3>2. Timed(dir', age', jobs', g, next)
      <4>1. dir.seg[q] # g
        <5>. SUFFICES ASSUME q \in Lives(dir, g) PROVE FALSE BY DEF Lives
        <5>1. q \in 1..(MaxSeg + 1) /\ q \in Nat BY DirectoryAssumption
        <5>2. Due(jobs, g, next, q) BY <1>5, <1>7, <2>1, <2>6 DEF Due
        <5>3. q < q BY <1>3, <5>1, <5>2 DEF Timed
        <5>. QED BY <5>1, <5>3
      <4>2. dir'.seg[q] = g /\ age'[q] = 0 BY <2>2, <2>6, <4>1
      <4>3. \A n \in 1..MaxSeg : n # q => dir'.seg[n] = dir.seg[n] /\ age'[n] = age[n] BY <2>2
      <4>4. jobs[1] = SegJob(g, q) /\ Timed(dir, age, jobs, g, next) BY <1>3, <2>1, <2>6
      <4>5. Writes(dir, dir', age, age', g, q) BY <4>2, <4>3 DEF Writes
      <4>6. Timed(dir', age', Tail(jobs), g, next)
        BY <1>1, <1>2, <1>3, <3>1, <4>4, <4>5, TimedWrite
      <4>. QED BY <4>6
    <3>. QED BY <1>4, <2>4, <3>1, <3>2 DEF Paced, g, next
  <2>. QED BY <2>5, <2>6
<1>8. CASE dir' = After(dir, jobs[1]) /\ ~IsSeg(jobs[1]) BY <1>1, <1>5, <1>6, <1>8, SegAfter
<1>. QED BY <1>6, <1>7, <1>8

LEMMA PackagingPaced ==
    ASSUME FilesTypeOK, Inv, Paced, Packaging
    PROVE  FilesTypeOK' /\ Paced'
<1>1. jobs \in Seq(JobType) /\ dir \in DirType /\ feed \in FeedType BY DEF FilesTypeOK
<1>2. /\ \A n \in 1..MaxSeg : age'[n] = IF dir'.seg[n] # dir.seg[n] THEN 0 ELSE age[n]
      /\ feed.live => late' = late
      /\ ~feed.live /\ feed'.live => (late' <=> dir'.lost)
  BY AgeChanges
<1>3. late \in BOOLEAN BY DEF Inv, CacheTypeOK
<1>4. CASE Open
  <2>1. PICK g \in FirstGen : feed' = New(g) BY <1>4 DEF Open
  <2>2. ~feed.live /\ jobs' = <<>> /\ dir' \in DirType BY <1>1, <1>4, OpenFacts DEF Open
  <2>3. g \in 1..MaxGen /\ g # 0 BY FilesAssumption
  <2>4. Feeds(New(g)) /\ New(g).gen = g /\ New(g).live BY <2>3, NewFacts DEF New, Off
  <2>5. <<>> \in Seq(JobType) OBVIOUS
  <2>6. FilesTypeOK' BY <2>1, <2>2, <2>4, <2>5 DEF FilesTypeOK, Feeds
  <2>7. ASSUME ~late' PROVE dir' = EmptyDir
    <3>1. ~dir'.lost BY <1>2, <2>1, <2>2, <2>4, <2>7
    <3>2. [dir EXCEPT !.lost = TRUE].lost BY <1>1, LostFacts
    <3>. QED BY <1>4, <3>1, <3>2 DEF Open
  <2>8. ASSUME ~late'
        PROVE  /\ \A n \in 1..MaxSeg : dir'.seg[n] <= g
               /\ InLine(jobs', g, feed'.next)
               /\ Lives(dir', g) = {} /\ Timed(dir', age', jobs', g, feed'.next)
    <3>0. EmptyDir.seg = [n \in 1..MaxSeg |-> 0] BY DEF EmptyDir
    <3>1. \A n \in 1..MaxSeg : dir'.seg[n] = 0 BY <2>7, <2>8, <3>0
    <3>2. Lives(dir', g) = {} BY <2>3, <3>1 DEF Lives
    <3>3. InLine(jobs', g, feed'.next) BY <2>2 DEF InLine
    <3>4. Timed(dir', age', jobs', g, feed'.next) BY <3>2 DEF Timed
    <3>5. \A n \in 1..MaxSeg : dir'.seg[n] <= g BY <2>3, <3>1
    <3>. QED BY <3>2, <3>3, <3>4, <3>5
  <2>9. Paced' BY <2>1, <2>4, <2>8 DEF Paced
  <2>. QED BY <2>6, <2>9
<1>11. CASE Wipe
  <2>1. ~feed.live /\ dir' \in Fewer(dir) /\ jobs' = jobs /\ feed' = feed BY <1>11 DEF Wipe
  <2>2. dir' \in DirType BY <1>1, <2>1, FewerFacts
  <2>3. FilesTypeOK' BY <2>1, <2>2 DEF FilesTypeOK
  <2>. QED BY <2>1, <2>3 DEF Paced
<1>5. CASE Prepare
  <2>. DEFINE f == [feed EXCEPT !.ready = TRUE]
              K == <<InitJob(feed.gen)>>
  <2>1. Feeds(feed) /\ feed.live /\ ~feed.ready /\ feed' = f /\ dir' = dir
    BY <1>5 DEF Prepare, Goes, FilesTypeOK, Feeds
  <2>2. jobs' = jobs \o K BY <1>1, <1>5 DEF Prepare
  <2>3. K \in Seq(JobType) /\ Feeds(f) /\ NewSegs(K, 0) BY <2>1, PrepareMore, NewSegsParts
  <2>4. feed'.gen = feed.gen /\ feed'.next = feed.next + 0
    BY <2>1, FeedFacts DEF Feeds, FeedType
  <2>. HIDE DEF f, K
  <2>5. jobs \o K \in Seq(JobType) BY <1>1, <2>3
  <2>6. FilesTypeOK' BY <1>1, <2>1, <2>2, <2>3, <2>5 DEF FilesTypeOK, Feeds
  <2>7. late' = late /\ \A n \in 1..MaxSeg : age'[n] = age[n] BY <1>2, <1>3, <2>1
  <2>. QED BY <2>1, <2>2, <2>3, <2>4, <2>6, <2>7, MorePaced
<1>6. ASSUME NEW k \in 1..MaxBatch, Add(k) PROVE FilesTypeOK' /\ Paced'
  <2>. DEFINE f == [feed EXCEPT !.next = @ + k]
              A == Segments(k)
              B == Deletes(Slides(k))
              C == <<MpdJob(feed.gen, Window(feed.next + k))>>
              K == A \o (B \o C)
  <2>1. /\ Feeds(feed) /\ feed.live /\ feed.ready /\ k \in Nat /\ k # 0
        /\ feed.next + k <= MaxSeg + 1
        /\ jobs' = jobs \o K /\ feed' = f /\ dir' = dir
    BY <1>6, AddJobs
  <2>2. K \in Seq(JobType) /\ Feeds(f) BY <2>1, AddMore
  <2>3. /\ A \in Seq(JobType) /\ B \in Seq(JobType) /\ C \in Seq(JobType)
        /\ NewSegs(A, k) /\ NewSegs(B, 0) /\ NewSegs(C, 0)
    BY <2>1, AddTyped, AddMore, NewSegsParts
  <2>4. f.gen = feed.gen /\ f.next = feed.next + k BY <2>1, Extended
  <2>. HIDE DEF f, A, B, C
  <2>5. B \o C \in Seq(JobType) /\ NewSegs(B \o C, 0) BY <2>3, Join, NewSegsJoin
  <2>6. NewSegs(K, k) BY <2>1, <2>3, <2>5, NewSegsJoin
  <2>. HIDE DEF K
  <2>7. jobs \o K \in Seq(JobType) BY <1>1, <2>2
  <2>8. FilesTypeOK' BY <1>1, <2>1, <2>2, <2>7 DEF FilesTypeOK, Feeds
  <2>9. late' = late /\ \A n \in 1..MaxSeg : age'[n] = age[n] BY <1>2, <1>3, <2>1
  <2>. QED BY <2>1, <2>2, <2>4, <2>6, <2>8, <2>9, MorePaced
<1>7. ASSUME NEW k \in 0..MaxBatch, NEW ready \in BOOLEAN, Rotate(k, ready)
      PROVE  FilesTypeOK' /\ Paced'
  <2>. DEFINE old == Run(First(feed.next), feed.next + k - First(feed.next))
              A == Segments(k)
              B == Deletes(old \o old)
              C == <<DelMpd>>
              L == IF ready THEN <<InitJob(feed.gen + 1)>> ELSE <<>>
              M == A \o (B \o C)
              K == M \o L
              f == [New(feed.gen + 1) EXCEPT !.ready = ready]
  <2>1. /\ Feeds(feed) /\ feed.live /\ k \in Nat /\ feed.gen < MaxGen
        /\ feed.next + k <= MaxSeg + 1
        /\ jobs' = jobs \o K /\ feed' = f /\ dir' = dir
    BY <1>7, RotateJobs
  <2>2. A \in Seq(JobType) /\ L \in Seq(JobType) /\ K \in Seq(JobType) /\ Feeds(f)
    BY <2>1, RotateMore
  <2>3. old \o old \in Seq(1..MaxSeg) /\ B \in Seq(JobType) BY <2>1, RotateTyped
  <2>4. NewSegs(A, k) /\ NewSegs(B, 0) /\ NewSegs(C, 0) /\ NewSegs(L, 0)
    BY <2>1, <2>3, NewSegsParts
  <2>5. C \in Seq(JobType)
    <3>1. DelMpd \in JobType BY DEF JobType
    <3>. QED BY <3>1
  <2>6. f.gen = feed.gen + 1 BY DEF New, Off
  <2>. HIDE DEF f, A, B, C, L
  <2>7. B \o C \in Seq(JobType) /\ NewSegs(B \o C, 0) BY <2>3, <2>4, <2>5, Join, NewSegsJoin
  <2>8. M \in Seq(JobType) /\ NewSegs(M, k) BY <2>1, <2>2, <2>4, <2>7, Join, NewSegsJoin
  <2>. HIDE DEF M
  <2>9. NewSegs(K, k) BY <2>1, <2>2, <2>4, <2>8, NewSegsJoin
  <2>. HIDE DEF K
  <2>10. jobs \o K \in Seq(JobType) BY <1>1, <2>2
  <2>11. FilesTypeOK' BY <1>1, <2>1, <2>2, <2>10 DEF FilesTypeOK, Feeds
  <2>12. late' = late BY <1>2, <2>1
  <2>. QED BY <2>1, <2>2, <2>6, <2>9, <2>11, <2>12, RotatePaced
<1>8. CASE End
  <2>1. feed' = Off /\ dir' = dir BY <1>8 DEF End
  <2>2. jobs' = jobs \/ \E k \in 0..Len(jobs) : jobs' = SubSeq(jobs, 1, k) BY <1>8 DEF End
  <2>3. jobs' \in Seq(JobType) BY <1>1, <2>2
  <2>. QED BY <1>1, <2>1, <2>3, OffFacts DEF FilesTypeOK, Paced
<1>9. CASE Do
  <2>1. jobs # <<>> /\ dir' = After(dir, jobs[1]) /\ jobs' = Tail(jobs) /\ feed' = feed
    BY <1>1, <1>9 DEF Do
  <2>2. jobs[1] \in JobType /\ Tail(jobs) \in Seq(JobType) BY <1>1, <2>1
  <2>3. dir' \in DirType BY <1>1, <2>1, <2>2, AfterTyped
  <2>4. FilesTypeOK' BY <2>1, <2>2, <2>3 DEF FilesTypeOK
  <2>5. feed.live => late' = late BY <1>2, <1>3, <2>1
  <2>. QED BY <1>2, <2>1, <2>4, <2>5, DonePaced DEF Paced
<1>10. CASE Fail
  <2>1. jobs # <<>> /\ dir' = [dir EXCEPT !.lost = TRUE] /\ jobs' = Tail(jobs) /\ feed' = feed
    BY <1>10 DEF Fail
  <2>2. dir' \in DirType /\ dir'.seg = dir.seg BY <1>1, <2>1 DEF DirType
  <2>3. Tail(jobs) \in Seq(JobType) BY <1>1, <2>1
  <2>4. FilesTypeOK' BY <2>1, <2>2, <2>3 DEF FilesTypeOK
  <2>5. feed.live => late' = late BY <1>2, <1>3, <2>1
  <2>. QED BY <1>2, <2>1, <2>2, <2>4, <2>5, DonePaced DEF Paced
<1>. QED BY <1>4, <1>5, <1>6, <1>7, <1>8, <1>9, <1>10, <1>11 DEF Packaging, FilesNext

-----------------------------------------------------------------------------
\* Time, and the janitor.
LEMMA PassPaced ==
    ASSUME FilesTypeOK, Inv, Paced, Pass
    PROVE  FilesTypeOK' /\ Paced'
<1>. DEFINE c == EffectiveTtl + SweepTicks + 1
<1>1. dir' = dir /\ jobs' = jobs /\ feed' = feed BY DEF Pass, fileVars
<1>2. late' = (late \/ Overdue \/ Stranded) /\ late \in BOOLEAN BY DEF Pass, Inv, CacheTypeOK
<1>3. FilesTypeOK' BY <1>1 DEF FilesTypeOK
<1>4. ASSUME feed.live, ~late' PROVE Timed(dir, age', jobs, feed.gen, feed.next)
  <2>1. ~late /\ ~Overdue BY <1>2, <1>4 DEF Overdue, Stranded
  <2>2. Timed(dir, age, jobs, feed.gen, feed.next) /\ feed.gen # 0 BY <1>4, <2>1, AgeFacts DEF Paced
  <2>3. \A n \in 1..MaxSeg : age[n] \in 0..c /\ age[n] \in Nat BY AgeFacts
  <2>4. c \in Nat BY AgeFacts
  <2>5. ASSUME NEW n \in 1..MaxSeg, dir.seg[n] # 0
        PROVE  age'[n] = IF age[n] < c THEN age[n] + 1 ELSE age[n]
    <3>1. n \in File /\ Present(dir, n) BY <2>5, AgeFacts DEF Present
    <3>2. age'[n] = IF age[n] > EffectiveTtl + SweepTicks THEN age[n] ELSE age[n] + 1
      BY <3>1 DEF Pass
    <3>3. age[n] > EffectiveTtl + SweepTicks <=> ~(age[n] < c)
      BY <2>3, Limits
    <3>. QED BY <3>2, <3>3
  <2>6. Lives(dir, feed.gen) # {} => \E n \in 1..MaxSeg : dir.seg[n] # 0 /\ age[n] < GopSecs
    <3>. SUFFICES ASSUME NEW q \in Lives(dir, feed.gen)
                  PROVE  \E n \in 1..MaxSeg : dir.seg[n] # 0 /\ age[n] < GopSecs
      OBVIOUS
    <3>1. \A n \in 1..MaxSeg : Present(dir, n) <=> dir.seg[n] # 0 BY AgeFacts DEF Present
    <3>2. q \in Segs BY <2>2, <3>1 DEF Segs, Lives
    <3>3. PICK n \in Segs : ~(age[n] >= GopSecs) BY <1>4, <2>1, <3>2 DEF Overdue
    <3>4. n \in 1..MaxSeg /\ dir.seg[n] # 0 BY <3>1 DEF Segs
    <3>5. age[n] \in Nat /\ GopSecs \in Nat BY <2>3, <3>4, SpanFacts
    <3>6. age[n] < GopSecs BY <3>3, <3>5
    <3>. QED BY <3>4, <3>6
  <2>. HIDE DEF c
  <2>. QED BY <2>2, <2>3, <2>4, <2>5, <2>6, TimedPass
<1>5. late => late' BY <1>2
<1>. QED BY <1>1, <1>3, <1>4, <1>5 DEF Paced

LEMMA RemovesPaced ==
    ASSUME FilesTypeOK, Inv, Paced, NEW f \in File, Removes(f)
    PROVE  /\ FilesTypeOK' /\ Paced'
           /\ \A n \in 1..MaxSeg : n # f => dir'.seg[n] = dir.seg[n] /\ age'[n] = age[n]
           /\ f \in 1..MaxSeg => dir'.seg[f] = 0
<1>1. dir \in DirType BY DEF FilesTypeOK
<1>2. jobs' = jobs /\ feed' = feed /\ late' = late /\ age' = [age EXCEPT ![f] = 0] BY DEF Removes
<1>3. dir' \in DirType /\ \A n \in 1..MaxSeg : dir'.seg[n] = IF n = f THEN 0 ELSE dir.seg[n]
  <2>1. CASE f = InitFile
    <3>1. dir' = [dir EXCEPT !.init = 0] BY <2>1 DEF Removes
    <3>2. f \notin 1..MaxSeg BY <2>1 DEF InitFile
    <3>3. 0 \in 0..MaxGen BY FilesAssumption
    <3>. QED BY <1>1, <3>1, <3>2, <3>3 DEF DirType
  <2>2. CASE f # InitFile /\ f = MpdFile
    <3>1. dir' = [dir EXCEPT !.mpd = NoMpd] BY <2>2 DEF Removes
    <3>2. f \notin 1..MaxSeg BY <2>2, Limits DEF MpdFile
    <3>3. NoMpd \in [gen : 0..MaxGen, segs : Seq(1..MaxSeg)] BY FilesAssumption DEF NoMpd
    <3>. QED BY <1>1, <3>1, <3>2, <3>3 DEF DirType
  <2>3. CASE f # InitFile /\ f # MpdFile
    <3>1. f \in 1..MaxSeg BY <2>3, Limits DEF File, InitFile, MpdFile
    <3>2. dir' = [dir EXCEPT !.seg[f] = 0] BY <2>3 DEF Removes
    <3>. DEFINE s == [dir.seg EXCEPT ![f] = 0]
    <3>3. s \in [1..MaxSeg -> 0..MaxGen] /\ \A n \in 1..MaxSeg : s[n] = IF n = f THEN 0 ELSE dir.seg[n]
      <4>1. dir.seg \in [1..MaxSeg -> 0..MaxGen] BY <1>1, DirFacts
      <4>2. 0 \in 0..MaxGen BY FilesAssumption
      <4>. QED BY <4>1, <4>2
    <3>4. dir' = [dir EXCEPT !.seg = s] BY <3>2
    <3>. HIDE DEF s
    <3>. QED BY <1>1, <3>3, <3>4 DEF DirType
  <2>. QED BY <2>1, <2>2, <2>3
<1>4. \A n \in 1..MaxSeg : n # f => age'[n] = age[n]
  <2>1. age \in [File -> 0..(EffectiveTtl + SweepTicks + 1)] BY DEF Inv, CacheTypeOK
  <2>. QED BY <1>2, <2>1, AgeFacts
<1>5. FilesTypeOK' BY <1>2, <1>3 DEF FilesTypeOK
<1>6. ASSUME feed.live, ~late PROVE Paced'
  <2>. DEFINE g == feed.gen
              next == feed.next
  <2>1. g # 0 /\ g \in Nat /\ next \in 1..(MaxSeg + 1) /\ next \in Nat
    BY <1>6, AgeFacts
  <2>2. \A n \in 1..MaxSeg : age[n] \in Nat BY AgeFacts
  <2>3. /\ \A n \in 1..MaxSeg : dir.seg[n] <= g
        /\ InLine(jobs, g, next)
        /\ Lives(dir, g) # {} => Current(jobs, g)
        /\ Timed(dir, age, jobs, g, next)
    BY <1>6 DEF Paced
  <2>. HIDE DEF g, next
  <2>4. \A n \in 1..MaxSeg : dir'.seg[n] = 0 \/ (dir'.seg[n] = dir.seg[n] /\ age'[n] = age[n])
    BY <1>3, <1>4
  <2>5. Lives(dir', g) \subseteq Lives(dir, g) BY <2>1, <2>4 DEF Lives
  <2>6. \A n \in 1..MaxSeg : dir'.seg[n] <= g BY <2>1, <2>3, <2>4
  <2>7. Timed(dir', age', jobs, g, next)
    <3>1. Timed(dir, age, jobs, g, next) BY <2>3
    <3>2. Spares(dir, dir', age, age') BY <2>4 DEF Spares
    <3>3. NoSooner(jobs, next, jobs, next, g) BY DEF NoSooner
    <3>. QED BY <2>1, <2>2, <3>1, <3>2, <3>3, TimedLess
  <2>. QED BY <1>2, <2>3, <2>5, <2>6, <2>7 DEF Paced, g, next
<1>. QED BY <1>2, <1>3, <1>4, <1>5, <1>6 DEF Paced

\* What a sweep holds against a segment goes on to hold, or the segment is new.
Condemned(d, a, t, f) == ~Present(d, f) \/ a[f] <= t \/ a[f] > EffectiveTtl + t

LEMMA SettledFacts ==
    ASSUME NEW s \in SweepType
    PROVE  /\ Settled(s).phase # "scan" /\ (Settled(s).phase = "idle" => Settled(s).expired = {})
           /\ \/ Settled(s).expired = {}
              \/ Settled(s).expired = s.expired /\ Settled(s).ticks = s.ticks
BY DEF Settled, Idle, SweepType, Phases

LEMMA JudgedOn ==
    ASSUME sweep'.phase # "scan", sweep'.phase = "idle" => sweep'.expired = {},
           \/ sweep'.expired = {}
           \/ \A f \in sweep'.expired : Condemned(dir', age', sweep'.ticks, f)
    PROVE  Judged'
BY DEF Judged, Condemned

LEMMA PackagingJudged ==
    ASSUME FilesTypeOK, Inv, Judged, Packaging
    PROVE  Judged'
<1>. DEFINE changed == {f \in File : Content(dir', f) # Content(dir, f)}
            s == IF sweep.phase = "scan" THEN Noted(changed) ELSE sweep
<1>1. sweep \in SweepType BY DEF Inv, CacheTypeOK, SweepType, Phases
<1>2. age' = IF changed = {} THEN age ELSE [f \in File |-> IF f \in changed THEN 0 ELSE age[f]]
  BY DEF Packaging
<1>3. \A f \in File : age'[f] = IF f \in changed THEN 0 ELSE age[f] BY <1>2
<1>4. sweep' = Calls(s) BY DEF Packaging
<1>5. s \in SweepType /\ s.phase = sweep.phase /\ s.ticks = sweep.ticks /\ s.expired = sweep.expired
      /\ (sweep.phase = "scan" => s.old \cup s.young \cup s.new \subseteq Touched \cup changed)
  BY <1>1 DEF Noted, SweepType, Touched
<1>. HIDE DEF s
<1>6. /\ sweep'.phase = s.phase /\ sweep'.ticks = s.ticks /\ sweep'.expired = s.expired
      /\ sweep'.old = s.old /\ sweep'.young = s.young /\ sweep'.new = s.new
  BY <1>4, <1>5 DEF Calls, SweepType
<1>7. changed \subseteq File /\ Touched \subseteq File BY <1>1 DEF SweepType, Touched
<1>8. ASSUME NEW f \in 1..MaxSeg, f \notin changed PROVE Present(dir', f) <=> Present(dir, f)
  BY <1>8, AgeFacts DEF Content, Present
<1>. HIDE DEF changed
<1>9. sweep.ticks \in Nat /\ sweep.expired \subseteq 1..MaxSeg BY AgeFacts
<1>10. ASSUME sweep'.phase = "scan", NEW f \in Touched' PROVE age'[f] <= sweep'.ticks
  <2>1. f \in Touched \cup changed BY <1>5, <1>6, <1>10 DEF Touched
  <2>2. f \in Touched => age[f] <= sweep.ticks BY <1>5, <1>6, <1>10 DEF Judged
  <2>. QED BY <1>3, <1>5, <1>6, <1>7, <1>9, <2>1, <2>2
<1>11. ASSUME NEW f \in sweep'.expired
       PROVE  ~Present(dir', f) \/ age'[f] <= sweep'.ticks \/ age'[f] > EffectiveTtl + sweep'.ticks
  <2>1. f \in sweep.expired /\ f \in 1..MaxSeg /\ f \in File /\ sweep'.ticks = sweep.ticks
    BY <1>5, <1>6, <1>9, <1>11, AgeFacts
  <2>2. CASE f \in changed BY <1>3, <1>9, <2>1, <2>2
  <2>3. CASE f \notin changed BY <1>3, <1>8, <2>1, <2>3 DEF Judged
  <2>. QED BY <2>2, <2>3
<1>12. sweep'.phase = "idle" => sweep'.expired = {} BY <1>5, <1>6 DEF Judged
<1>. QED BY <1>10, <1>11, <1>12 DEF Judged

LEMMA PassJudged ==
    ASSUME FilesTypeOK, Inv, Judged, Pass
    PROVE  Judged'
<1>. DEFINE t == sweep.ticks
<1>1. sweep \in SweepType BY DEF Inv, CacheTypeOK, SweepType, Phases
<1>2. dir' = dir BY DEF Pass, fileVars
<1>3. /\ sweep'.phase = sweep.phase /\ sweep'.expired = sweep.expired /\ Touched' = Touched
      /\ sweep'.ticks = IF sweep.phase = "idle" THEN t ELSE t + 1
  BY <1>1 DEF Pass, SweepType, Touched
<1>4. t \in Nat /\ (sweep.phase # "idle" => t + 1 <= SweepTicks) /\ SweepTicks \in Nat
      /\ EffectiveTtl \in Nat
  BY AgeFacts, Limits DEF Pass
<1>5. ASSUME NEW f \in File
      PROVE  /\ age[f] \in Nat
             /\ age'[f] = IF ~Present(dir, f) THEN 0
                          ELSE IF age[f] > EffectiveTtl + SweepTicks THEN age[f] ELSE age[f] + 1
  BY AgeFacts DEF Pass
<1>. HIDE DEF t
<1>6. ASSUME sweep'.phase = "scan", NEW f \in Touched' PROVE age'[f] <= sweep'.ticks
  <2>1. f \in File /\ age[f] <= t BY <1>1, <1>3, <1>6 DEF Judged, Touched, SweepType, t
  <2>2. sweep'.ticks = t + 1 /\ t + 1 <= SweepTicks BY <1>3, <1>4, <1>6
  <2>. QED BY <1>4, <1>5, <2>1, <2>2
<1>7. ASSUME NEW f \in sweep'.expired
      PROVE  ~Present(dir', f) \/ age'[f] <= sweep'.ticks \/ age'[f] > EffectiveTtl + sweep'.ticks
  <2>. SUFFICES ASSUME Present(dir, f)
                PROVE  age'[f] <= sweep'.ticks \/ age'[f] > EffectiveTtl + sweep'.ticks
    BY <1>2
  <2>1. f \in 1..MaxSeg /\ f \in File BY <1>3, <1>7, AgeFacts
  <2>2. age[f] <= t \/ age[f] > EffectiveTtl + t BY <1>3, <1>7 DEF Judged, t
  <2>3. age[f] \in Nat
        /\ age'[f] = IF age[f] > EffectiveTtl + SweepTicks THEN age[f] ELSE age[f] + 1
    BY <1>5, <2>1
  <2>4. CASE sweep.phase = "idle"
    <3>1. sweep.expired = {} BY <2>4 DEF Judged
    <3>. QED BY <1>3, <1>7, <3>1
  <2>5. CASE sweep.phase # "idle"
    <3>1. sweep'.ticks = t + 1 /\ t + 1 <= SweepTicks BY <1>3, <1>4, <2>5
    <3>. QED BY <1>4, <2>2, <2>3, <3>1
  <2>. QED BY <2>4, <2>5
<1>8. sweep'.phase = "idle" => sweep'.expired = {} BY <1>3 DEF Judged
<1>. QED BY <1>6, <1>7, <1>8 DEF Judged

LEMMA JanitorPaced ==
    ASSUME PacedInv, Janitor
    PROVE  FilesTypeOK' /\ Paced' /\ Judged'
<1>1. sweep \in SweepType /\ FilesTypeOK /\ Inv /\ Paced /\ Judged
  BY DEF PacedInv, Inv, CacheTypeOK, SweepType, Phases
<1>2. ASSUME Keeps PROVE FilesTypeOK' /\ Paced' /\ dir' = dir /\ age' = age
  BY <1>1, <1>2 DEF Keeps, fileVars, FilesTypeOK, Paced
<1>3. Idle.phase = "idle" /\ Idle.expired = {} BY DEF Idle
<1>4. ASSUME sweep' = Idle PROVE Judged' BY <1>3, <1>4, JudgedOn
<1>5. \A f \in sweep.expired : Condemned(dir, age, sweep.ticks, f) BY <1>1 DEF Judged, Condemned
<1>6. CASE Begin
  <2>1. /\ sweep'.phase = "scan" /\ sweep'.expired = {}
        /\ sweep'.old = {} /\ sweep'.young = {} /\ sweep'.new = {}
    BY <1>6 DEF Begin, Idle
  <2>2. Judged' BY <2>1 DEF Judged, Touched
  <2>. QED BY <1>2, <1>6, <2>2 DEF Begin
<1>7. ASSUME NEW early, NEW new, early \subseteq sweep.old \cup sweep.young, Scan(early, new)
      PROVE  FilesTypeOK' /\ Paced' /\ Judged'
  <2>. DEFINE steady == {f \in File \ Touched : Present(dir, f)}
              seen == steady \cup early \cup new
              expired == {f \in seen : (f \in steady /\ Old(f)) \/ f \in early \cap sweep.old}
              segs == expired \cap 1..MaxSeg
              fresh == (seen \ expired) \cap 1..MaxSeg # {}
              mpd == MpdFile \in seen
              init == InitFile \in seen
              s == [Idle EXCEPT !.ticks = sweep.ticks, !.calls = sweep.calls,
                                !.budget = sweep.budget, !.expired = segs,
                                !.fresh = fresh, !.mpd = mpd, !.init = init]
  <2>1. sweep' = Settled(s) /\ Keeps /\ sweep.phase = "scan" BY <1>7 DEF Scan
  <2>2. \A f \in segs : Condemned(dir, age, sweep.ticks, f)
    <3>. SUFFICES ASSUME NEW f \in segs PROVE Condemned(dir, age, sweep.ticks, f) OBVIOUS
    <3>1. CASE f \in steady /\ Old(f) BY <3>1 DEF Old, Condemned
    <3>2. CASE f \in early \cap sweep.old
      <4>1. f \in Touched BY <1>7, <3>2 DEF Touched
      <4>. QED BY <1>1, <2>1, <4>1 DEF Judged, Condemned
    <3>. QED BY <3>1, <3>2
  <2>3. segs \in SUBSET (1..MaxSeg) /\ fresh \in BOOLEAN /\ mpd \in BOOLEAN /\ init \in BOOLEAN
    OBVIOUS
  <2>4. sweep.ticks \in 0..SweepTicks /\ sweep.calls \in 0..SweepCalls /\ sweep.budget \in 0..Budget
    BY <1>1 DEF SweepType
  <2>. HIDE DEF segs, fresh, mpd, init
  <2>5. s \in SweepType BY <2>3, <2>4, IdleTyped
  <2>6. s.expired = segs /\ s.ticks = sweep.ticks BY DEF Idle
  <2>. HIDE DEF s
  <2>7. Judged' BY <1>2, <2>1, <2>2, <2>5, <2>6, SettledFacts, JudgedOn
  <2>. QED BY <1>2, <2>1, <2>7
<1>8. ASSUME NEW f \in 1..MaxSeg, DeleteSegment(f) PROVE FilesTypeOK' /\ Paced' /\ Judged'
  <2>1. f \in File /\ sweep.budget - 1 \in 0..Budget
    <3>1. sweep.budget > 0 BY <1>1, <1>8 DEF DeleteSegment, Inv, Affordable
    <3>2. sweep.budget \in 0..Budget BY <1>1 DEF SweepType
    <3>3. f \in File BY <1>1, AgeFacts
    <3>. QED BY <3>1, <3>2, <3>3, Limits
  <2>. DEFINE rest == [sweep EXCEPT !.expired = @ \ {f}]
  <2>2. rest \in SweepType /\ rest.ticks = sweep.ticks /\ rest.expired = sweep.expired \ {f}
    BY <1>1 DEF SweepType
  <2>3. \/ Removes(f) /\ sweep' = Settled([rest EXCEPT !.budget = @ - 1])
        \/ Keeps /\ sweep' = Settled([rest EXCEPT !.left = TRUE])
    BY <1>8 DEF DeleteSegment
  <2>. HIDE DEF rest
  <2>4. /\ [rest EXCEPT !.budget = @ - 1] \in SweepType /\ [rest EXCEPT !.left = TRUE] \in SweepType
        /\ \A s \in {[rest EXCEPT !.budget = @ - 1], [rest EXCEPT !.left = TRUE]} :
              s.ticks = rest.ticks /\ s.expired = rest.expired
    <3>1. rest.budget = sweep.budget BY <1>1 DEF rest, SweepType
    <3>2. [rest EXCEPT !.budget = @ - 1] \in SweepType BY <2>1, <2>2, <3>1 DEF SweepType
    <3>3. [rest EXCEPT !.left = TRUE] \in SweepType BY <2>2 DEF SweepType
    <3>4. /\ [rest EXCEPT !.budget = @ - 1].ticks = rest.ticks
          /\ [rest EXCEPT !.budget = @ - 1].expired = rest.expired
          /\ [rest EXCEPT !.left = TRUE].ticks = rest.ticks
          /\ [rest EXCEPT !.left = TRUE].expired = rest.expired
      BY <2>2 DEF SweepType
    <3>. QED BY <3>2, <3>3, <3>4
  <2>5. PICK s \in SweepType : /\ s.ticks = sweep.ticks /\ s.expired = sweep.expired \ {f}
                               /\ sweep' = Settled(s)
    BY <2>2, <2>3, <2>4
  <2>6. /\ FilesTypeOK' /\ Paced'
        /\ \A n \in 1..MaxSeg : n # f => dir'.seg[n] = dir.seg[n] /\ age'[n] = age[n]
    BY <1>1, <1>2, <2>1, <2>3, RemovesPaced
  <2>7. \A n \in s.expired : Condemned(dir', age', s.ticks, n)
    <3>. SUFFICES ASSUME NEW n \in s.expired PROVE Condemned(dir', age', s.ticks, n) OBVIOUS
    <3>1. n \in 1..MaxSeg /\ n # f /\ n \in sweep.expired BY <1>1, <2>5, AgeFacts
    <3>2. dir'.seg[n] = dir.seg[n] /\ age'[n] = age[n] BY <2>6, <3>1
    <3>3. Present(dir', n) <=> Present(dir, n) BY <1>1, <3>1, <3>2, AgeFacts DEF Present
    <3>. QED BY <1>5, <2>5, <3>1, <3>2, <3>3 DEF Condemned
  <2>8. Judged' BY <2>5, <2>7, SettledFacts, JudgedOn
  <2>. QED BY <2>6, <2>8
<1>9. CASE CheckManifest
  <2>1. Keeps /\ (sweep' = Idle \/ sweep' = [sweep EXCEPT !.phase = "drop_mpd"])
    BY <1>9 DEF CheckManifest
  <2>2. ASSUME sweep' = [sweep EXCEPT !.phase = "drop_mpd"] PROVE Judged'
    <3>1. sweep'.phase = "drop_mpd" /\ sweep'.expired = sweep.expired /\ sweep'.ticks = sweep.ticks
      BY <1>1, <2>2 DEF SweepType
    <3>. QED BY <1>2, <1>5, <2>1, <3>1, JudgedOn
  <2>. QED BY <1>2, <1>4, <2>1, <2>2
<1>10. CASE DropManifest
  <2>1. MpdFile \in File /\ MpdFile \notin 1..MaxSeg BY Limits DEF File, MpdFile
  <2>2. \/ Keeps /\ sweep' = Idle
        \/ /\ Removes(MpdFile)
           /\ \/ sweep' = Idle
              \/ sweep' = [sweep EXCEPT !.phase = "drop_init", !.budget = @ - 1]
    BY <1>10 DEF DropManifest
  <2>3. ASSUME Removes(MpdFile), sweep' = [sweep EXCEPT !.phase = "drop_init", !.budget = @ - 1]
        PROVE  Judged'
    <3>1. sweep'.phase = "drop_init" /\ sweep'.expired = sweep.expired /\ sweep'.ticks = sweep.ticks
      BY <1>1, <2>3 DEF SweepType
    <3>2. \A n \in 1..MaxSeg : dir'.seg[n] = dir.seg[n] /\ age'[n] = age[n]
      BY <1>1, <2>1, <2>3, RemovesPaced
    <3>3. \A n \in sweep.expired : Condemned(dir', age', sweep.ticks, n)
      <4>. SUFFICES ASSUME NEW n \in sweep.expired PROVE Condemned(dir', age', sweep.ticks, n) OBVIOUS
      <4>1. n \in 1..MaxSeg BY <1>1, AgeFacts
      <4>2. Present(dir', n) <=> Present(dir, n) BY <1>1, <3>2, <4>1, AgeFacts DEF Present
      <4>. QED BY <1>5, <3>2, <4>1, <4>2 DEF Condemned
    <3>. QED BY <3>1, <3>3, JudgedOn
  <2>. QED BY <1>1, <1>2, <1>4, <2>1, <2>2, <2>3, RemovesPaced
<1>11. CASE DropInit
  <2>1. InitFile \in File BY Limits DEF File, InitFile
  <2>. QED BY <1>1, <1>2, <1>4, <1>11, <2>1, RemovesPaced DEF DropInit
<1>. QED BY <1>6, <1>7, <1>8, <1>9, <1>10, <1>11 DEF Janitor, Sweeps

LEMMA PacedInductive ==
    /\ CacheInit => PacedInv
    /\ PacedInv /\ [CacheNext]_cacheVars => PacedInv'
<1>1. CacheInit => PacedInv
  <2>. SUFFICES ASSUME CacheInit PROVE FilesTypeOK /\ Paced /\ Judged BY InitInv DEF PacedInv
  <2>1. FilesTypeOK BY FilesInit DEF CacheInit
  <2>2. Paced BY OffFacts DEF CacheInit, Init, Paced
  <2>3. Judged BY DEF CacheInit, Idle, Judged
  <2>. QED BY <2>1, <2>2, <2>3
<1>2. ASSUME PacedInv, [CacheNext]_cacheVars PROVE PacedInv'
  <2>1. FilesTypeOK /\ Inv /\ Paced /\ Judged BY <1>2 DEF PacedInv
  <2>2. Inv' BY <1>2, <2>1, NextInv
  <2>3. FilesTypeOK' /\ Paced' /\ Judged'
    <3>1. CASE Packaging BY <2>1, <3>1, PackagingPaced, PackagingJudged
    <3>2. CASE Pass BY <2>1, <3>2, PassPaced, PassJudged
    <3>3. CASE Janitor BY <1>2, <3>3, JanitorPaced
    <3>4. CASE UNCHANGED cacheVars
      BY <2>1, <3>4 DEF cacheVars, cache, fileVars, FilesTypeOK, Paced, Judged, Touched
    <3>. QED BY <1>2, <3>1, <3>2, <3>3, <3>4 DEF CacheNext
  <2>. QED BY <2>2, <2>3 DEF PacedInv
<1>. QED BY <1>1, <1>2

\* A segment of the window is too young to be condemned.
LEMMA WindowYoung ==
    ASSUME PacedInv, Keep * GopSecs <= EffectiveTtl, ~late, NEW n \in LiveWindow
    PROVE  age[n] \in Nat /\ age[n] <= EffectiveTtl /\ n \in 1..MaxSeg
<1>1. /\ FilesTypeOK /\ Inv /\ Paced /\ feed.live /\ n \in 1..MaxSeg
      /\ n \in Lives(dir, feed.gen) /\ n >= First(feed.next)
  BY DEF PacedInv, LiveWindow, Segs, Lives
<1>2. feed.next \in 1..(MaxSeg + 1) /\ age[n] \in Nat BY <1>1, AgeFacts
<1>3. n < feed.next /\ age[n] <= Span(n, feed.next)
  <2>1. Due(jobs, feed.gen, feed.next, feed.next) BY DEF Due
  <2>. QED BY <1>1, <1>2, <2>1 DEF Paced, Timed
<1>4. PICK d \in Nat : d = feed.next - n /\ d <= Keep
  <2>1. Keep \in Nat \ {0} BY DirectoryAssumption DEF Keep, Grace
  <2>2. feed.next - n \in Nat /\ feed.next - n <= Keep BY <1>1, <1>2, <1>3, <2>1 DEF First
  <2>. QED BY <2>2
<1>5. PICK e \in Nat : Keep = d + e
  <2>1. Keep \in Nat BY DirectoryAssumption DEF Keep, Grace
  <2>2. Keep - d \in Nat /\ Keep = d + (Keep - d) BY <1>4, <2>1
  <2>. QED BY <2>2
<1>6. d * GopSecs \in Nat /\ e * GopSecs \in Nat /\ (d + e) * GopSecs = d * GopSecs + e * GopSecs
  BY SpanFacts
<1>7. Span(n, feed.next) = d * GopSecs BY <1>4 DEF Span
<1>. QED BY <1>1, <1>2, <1>3, <1>5, <1>6, <1>7, Limits

\* What a sweep has just removed from the window of a live packager.
LEMMA WindowSpared ==
    ASSUME PacedInv, [CacheNext]_cacheVars, Keep * GopSecs <= EffectiveTtl,
           dir' # dir, UNCHANGED <<jobs, feed>>, NEW n \in LiveWindow
    PROVE  Present(dir', n) \/ late \/ age[n] <= sweep.ticks
<1>1. FilesTypeOK /\ Inv /\ Paced /\ Judged /\ sweep \in SweepType
  BY DEF PacedInv, Inv, CacheTypeOK, SweepType, Phases
<1>2. ~late => age[n] \in Nat /\ age[n] <= EffectiveTtl BY WindowYoung
<1>3. n \in 1..MaxSeg /\ Present(dir, n) BY DEF LiveWindow, Segs
<1>4. sweep.ticks \in Nat /\ EffectiveTtl \in Nat BY <1>1, AgeFacts, Limits
<1>5. ASSUME NEW f \in File, Removes(f), f # n PROVE Present(dir', n)
  <2>1. dir'.seg[n] = dir.seg[n] BY <1>1, <1>3, <1>5, RemovesPaced
  <2>. QED BY <1>1, <1>3, <2>1, AgeFacts DEF Present
<1>6. ~Packaging
  <2>. SUFFICES ASSUME FilesNext PROVE FALSE BY DEF Packaging
  <2>1. jobs \in Seq(JobType) BY <1>1 DEF FilesTypeOK
  <2>2. ~Open /\ ~Wipe
    <3>1. feed.live BY DEF LiveWindow
    <3>. QED BY <3>1 DEF Open, Wipe
  <2>3. jobs # <<>> => Tail(jobs) # jobs
    <3>1. jobs # <<>> => Len(Tail(jobs)) # Len(jobs) BY <2>1
    <3>. QED BY <3>1
  <2>. QED BY <2>2, <2>3 DEF FilesNext, Prepare, End, Do, Fail, Add, Rotate
<1>7. ~Pass /\ dir' # dir BY DEF Pass, fileVars
<1>8. CASE \E f \in 1..MaxSeg : DeleteSegment(f)
  <2>1. PICK f \in 1..MaxSeg : DeleteSegment(f) BY <1>8
  <2>2. f \in sweep.expired /\ Removes(f) /\ f \in File
    BY <1>1, <2>1, AgeFacts DEF DeleteSegment, Keeps, fileVars
  <2>3. CASE f = n
    <3>1. age[n] <= sweep.ticks \/ age[n] > EffectiveTtl + sweep.ticks
      BY <1>1, <1>3, <2>2, <2>3 DEF Judged
    <3>. QED BY <1>2, <1>4, <3>1
  <2>. QED BY <1>5, <2>2, <2>3
<1>9. CASE DropManifest
  <2>1. Removes(MpdFile) /\ MpdFile \in File /\ MpdFile # n
    BY <1>1, <1>3, <1>9, AgeFacts, Limits DEF DropManifest, Keeps, fileVars, File, MpdFile
  <2>. QED BY <1>5, <2>1
<1>10. CASE DropInit
  <2>1. Removes(InitFile) BY <1>10 DEF DropInit, Keeps, fileVars
  <2>2. InitFile \in File /\ InitFile # n BY <1>3, Limits DEF File, InitFile
  <2>. QED BY <1>5, <2>1, <2>2
<1>11. ~(Begin \/ CheckManifest \/ \E early, new : Scan(early, new))
  BY DEF Begin, CheckManifest, Scan, Keeps, fileVars
<1>. QED BY <1>6, <1>7, <1>8, <1>9, <1>10, <1>11
         DEF CacheNext, Janitor, Sweeps, cacheVars, fileVars

\* config.rs:81: if the segments that are kept cannot last longer than the
\* TTL, a sweep takes none of a live packager's window whose segments come in
\* time, however the packager's calls, its writer's jobs and the sweep's reads
\* and deletes interleave, and however far behind the writer is.
THEOREM WindowSurvives ==
    ASSUME Keep * GopSecs <= EffectiveTtl
    PROVE  CacheSpec => LiveWindowKept
<1>1. ASSUME PacedInv, [CacheNext]_cacheVars
      PROVE  [dir' # dir /\ UNCHANGED <<jobs, feed>> =>
                 \A n \in LiveWindow : Present(dir', n) \/ late \/ age[n] <= sweep.ticks]_cacheVars
  BY <1>1, WindowSpared
<1>. QED BY PacedInductive, <1>1, PTL DEF CacheSpec, LiveWindowKept

\* So none is taken if the segments have the length asked for and the window
\* is two of them or more, whatever TTL is configured.
THEOREM WindowSurvivesTtl ==
    ASSUME WindowSegments >= 2, GopSecs <= SegmentSecs
    PROVE  CacheSpec => LiveWindowKept
<1>1. GopSecs \in Nat /\ SegmentSecs \in Nat /\ Keep \in Nat
  BY DirectoryAssumption, CacheAssumption DEF Keep, Grace
<1>2. PICK d \in Nat : SegmentSecs = GopSecs + d
  <2>1. SegmentSecs - GopSecs \in Nat /\ SegmentSecs = GopSecs + (SegmentSecs - GopSecs) BY <1>1
  <2>. QED BY <2>1
<1>3. Keep * (GopSecs + d) = Keep * GopSecs + Keep * d /\ Keep * d \in Nat /\ Keep * GopSecs \in Nat
  BY <1>1
<1>4. Keep * SegmentSecs <= EffectiveTtl BY TtlCoversWindow
<1>5. Keep * GopSecs <= EffectiveTtl BY <1>2, <1>3, <1>4, Limits
<1>. QED BY <1>5, WindowSurvives

-----------------------------------------------------------------------------
\* What keeps the init.mp4 a manifest needs.  As long as nothing went wrong:
Clean == ~late /\ ~hit /\ ~dir.lost

IsInit(job) == job.kind = "init"
InitIn(J, i, j) == \E y \in (i + 1)..j : IsInit(J[y])

\* After i of the jobs J the packager f needs no init.mp4 that is there by then:
\* before it writes a manifest, it writes another.
Outgrown(J, i, f) ==
    /\ \A j \in (i + 1)..Len(J) : IsMpd(J[j]) => InitIn(J, i, j - 1)
    /\ f.live /\ f.ready => InitIn(J, i, Len(J))

\* What the directory would be without a sweep, as far as it matters: its init.mp4
\* and manifest, the generation of the last segment, and the number of that one,
\* or 0 when it has been deleted.
Stage == [init : 0..MaxGen, mpd : [gen : 0..MaxGen, segs : Seq(1..MaxSeg)],
          gen : 0..MaxGen, num : 0..MaxSeg]

Turns(x, job, y) ==
    /\ y.init = IF IsInit(job) THEN job.gen ELSE x.init
    /\ y.mpd = IF IsMpd(job) THEN [gen |-> job.gen, segs |-> job.segs]
               ELSE IF job = DelMpd THEN NoMpd ELSE x.mpd
    /\ y.gen = IF IsSeg(job) THEN job.gen ELSE x.gen
    /\ y.num = IF IsSeg(job) THEN job.n
               ELSE IF job = DelMpd \/ (job.kind = "del_seg" /\ job.n >= x.num) THEN 0 ELSE x.num

\* The jobs come as a packager orders them.
Timely(x, job) ==
    /\ IsSeg(job) => IF x.num = 0 THEN job.gen > x.gen /\ x.mpd = NoMpd
                     ELSE job.gen = x.gen /\ job.n = x.num + 1
    /\ IsInit(job) => job.gen > x.init /\ x.mpd = NoMpd
    /\ IsMpd(job) => /\ x.num # 0 /\ job.gen = x.init /\ job.segs # <<>>
                     /\ job.segs[Len(job.segs)] = x.num
                     /\ x.mpd # NoMpd => Newest(x.mpd) < x.num

Sound(x) ==
    x.mpd # NoMpd => /\ x.init = x.mpd.gen /\ x.mpd.segs # <<>>
                     /\ x.num # 0 => Newest(x.mpd) <= x.num /\ x.num <= Newest(x.mpd) + MaxBatch

Course(c, J) ==
    /\ c \in [0..Len(J) -> Stage]
    /\ \A i \in 1..Len(J) : Timely(c[i - 1], J[i]) /\ Turns(c[i - 1], J[i], c[i])
    /\ \A i \in 0..Len(J) : Sound(c[i])

\* While the last segment is gone and the manifest not yet, the generation has
\* come to its end.
Closing(x) == x.num = 0 /\ x.mpd # NoMpd
Closes(c, J, f) == \A i \in 0..Len(J) : Closing(c[i]) => Outgrown(J, i, f)

\* When the jobs are done, the packager f is at y.
Reaches(y, f) ==
    /\ y.init <= f.gen /\ (y.init = f.gen <=> f.ready)
    /\ IF f.next = 1 THEN y.num = 0 /\ y.gen < f.gen /\ y.mpd = NoMpd
       ELSE /\ y.num = f.next - 1 /\ y.gen = f.gen
            /\ y.mpd # NoMpd => Newest(y.mpd) = y.num

\* The directory d, of which sweeps have taken files.
Reflects(d, x, J, f) ==
    /\ d.mpd \in {NoMpd, x.mpd}
    /\ d.init = x.init \/ (d.init = 0 /\ d.mpd = NoMpd /\ Outgrown(J, 0, f))
    /\ \A p \in 1..MaxSeg :
          d.seg[p] <= x.gen /\ (d.seg[p] # 0 /\ d.seg[p] = x.gen /\ x.num # 0 => p <= x.num)

\* Its newest segment is there and not older than a segment lasts, and the
\* manifest than those since.
Young(d, a, x) ==
    x.num # 0 =>
        /\ d.seg[x.num] # 0 /\ a[x.num] <= GopSecs
        /\ \A p \in 1..MaxSeg : d.seg[p] # 0 => a[x.num] <= a[p]
        /\ d.mpd # NoMpd => a[MpdFile] <= a[x.num] + Span(Newest(d.mpd), x.num)

Tracks(c, d, a, J, f) ==
    /\ Course(c, J) /\ Closes(c, J, f) /\ Reflects(d, c[0], J, f)
    /\ f.live => Reaches(c[Len(J)], f)
    /\ f.live \/ J # <<>> => Young(d, a, c[0])

Tracked == Clean => \E c : Tracks(c, dir, age, jobs, feed)

\* What a sweep that goes on to delete the manifest knows of the init.mp4.
Decided ==
    Clean /\ sweep.phase \in {"drop_mpd", "drop_init"} =>
        /\ age[InitFile] <= sweep.ticks \/ Outgrown(jobs, 0, feed)
        /\ sweep.phase = "drop_init" => dir.mpd = NoMpd \/ age[InitFile] <= sweep.ticks

TrackInv == PacedInv /\ Tracked /\ Decided

Patient == (MaxBatch + 1) * GopSecs <= EffectiveTtl /\ SweepTicks <= EffectiveTtl

-----------------------------------------------------------------------------
\* An init.mp4 that is not needed stays so, until another is written.
LEMMA OutgrownTail ==
    ASSUME NEW J \in Seq(JobType), J # <<>>, NEW f
    PROVE  /\ \A i \in Nat : Outgrown(J, i + 1, f) => Outgrown(Tail(J), i, f)
           /\ Outgrown(J, 0, f) => ~IsMpd(J[1])
           /\ Outgrown(J, 0, f) /\ ~IsInit(J[1]) => Outgrown(Tail(J), 0, f)
<1>. DEFINE K == Tail(J)
<1>1. Len(K) \in Nat /\ Len(J) = Len(K) + 1 /\ \A i \in 1..Len(K) : K[i] = J[i + 1] OBVIOUS
<1>. HIDE DEF K
<1>2. ASSUME NEW i \in Nat, NEW j \in Nat, j <= Len(K), InitIn(J, i + 1, j + 1)
      PROVE  InitIn(K, i, j)
  <2>1. PICK y \in (i + 2)..(j + 1) : IsInit(J[y]) BY <1>2 DEF InitIn
  <2>2. y - 1 \in (i + 1)..j /\ y - 1 \in 1..Len(K) /\ J[(y - 1) + 1] = J[y] BY <1>1, <1>2, <2>1
  <2>3. K[y - 1] = J[y] BY <1>1, <2>2
  <2>. QED BY <2>1, <2>2, <2>3 DEF InitIn
<1>3. ASSUME NEW i \in Nat, Outgrown(J, i + 1, f) PROVE Outgrown(K, i, f)
  <2>1. ASSUME NEW j \in (i + 1)..Len(K), IsMpd(K[j]) PROVE InitIn(K, i, j - 1)
    <3>1. j + 1 \in ((i + 1) + 1)..Len(J) /\ K[j] = J[j + 1] /\ (j + 1) - 1 = (j - 1) + 1 BY <1>1
    <3>2. InitIn(J, i + 1, (j - 1) + 1) BY <1>3, <2>1, <3>1 DEF Outgrown
    <3>. QED BY <1>1, <1>2, <3>2
  <2>2. ASSUME f.live, f.ready PROVE InitIn(K, i, Len(K))
    <3>1. InitIn(J, i + 1, Len(K) + 1) BY <1>1, <1>3, <2>2 DEF Outgrown
    <3>. QED BY <1>1, <1>2, <3>1
  <2>. QED BY <2>1, <2>2 DEF Outgrown
<1>4. Outgrown(J, 0, f) => ~IsMpd(J[1])
  <2>1. 1 \in (0 + 1)..Len(J) /\ ~InitIn(J, 0, 1 - 1) BY <1>1 DEF InitIn
  <2>. QED BY <2>1 DEF Outgrown
<1>5. ASSUME NEW j \in Nat, InitIn(J, 0, j), ~IsInit(J[1]) PROVE InitIn(J, 1, j)
  <2>1. PICK y \in 1..j : IsInit(J[y]) BY <1>5 DEF InitIn
  <2>2. y \in (1 + 1)..j BY <1>5, <2>1
  <2>. QED BY <2>1, <2>2 DEF InitIn
<1>6. ASSUME Outgrown(J, 0, f), ~IsInit(J[1]) PROVE Outgrown(J, 0 + 1, f)
  <2>1. ASSUME NEW j \in (1 + 1)..Len(J), IsMpd(J[j]) PROVE InitIn(J, 1, j - 1)
    <3>1. j \in (0 + 1)..Len(J) /\ j - 1 \in Nat BY <1>1
    <3>. QED BY <1>5, <1>6, <2>1, <3>1 DEF Outgrown
  <2>2. f.live /\ f.ready => InitIn(J, 1, Len(J)) BY <1>1, <1>5, <1>6 DEF Outgrown
  <2>. QED BY <2>1, <2>2 DEF Outgrown
<1>. QED BY <1>3, <1>4, <1>6 DEF K

\* The jobs K join J when the packager f becomes g.
Joins(f, K, g) ==
    /\ (\E i \in 1..Len(K) : IsMpd(K[i])) => f.live /\ f.ready
    /\ g.live /\ g.ready => (f.live /\ f.ready) \/ InitIn(K, 0, Len(K))

LEMMA InitJoins ==
    ASSUME NEW J \in Seq(JobType), NEW K \in Seq(JobType)
    PROVE  /\ \A i \in Nat, j \in 0..Len(J) : InitIn(J, i, j) => InitIn(J \o K, i, j)
           /\ \A i \in 0..Len(J) : InitIn(J, i, Len(J)) =>
                 \A j \in Len(J)..Len(J \o K) : InitIn(J \o K, i, j)
           /\ \A i \in 0..Len(J) : InitIn(K, 0, Len(K)) => InitIn(J \o K, i, Len(J \o K))
<1>. DEFINE L == J \o K
            m == Len(J)
<1>1. /\ m \in Nat /\ Len(K) \in Nat /\ Len(L) = m + Len(K)
      /\ \A i \in 1..m : L[i] = J[i]
      /\ \A i \in 1..Len(K) : L[m + i] = K[i]
  OBVIOUS
<1>. HIDE DEF L, m
<1>2. ASSUME NEW i \in Nat, NEW j \in 0..m, InitIn(J, i, j) PROVE InitIn(L, i, j)
  BY <1>1, <1>2 DEF InitIn
<1>3. ASSUME NEW i \in 0..m, InitIn(J, i, m), NEW j \in m..Len(L) PROVE InitIn(L, i, j)
  <2>1. PICK y \in (i + 1)..m : IsInit(J[y]) BY <1>3 DEF InitIn
  <2>2. y \in (i + 1)..j /\ L[y] = J[y] BY <1>1, <2>1
  <2>. QED BY <2>1, <2>2 DEF InitIn
<1>4. ASSUME NEW i \in 0..m, InitIn(K, 0, Len(K)) PROVE InitIn(L, i, Len(L))
  <2>1. PICK y \in 1..Len(K) : IsInit(K[y]) BY <1>4 DEF InitIn
  <2>2. m + y \in (i + 1)..Len(L) /\ L[m + y] = K[y] BY <1>1, <2>1
  <2>. QED BY <2>1, <2>2 DEF InitIn
<1>. QED BY <1>2, <1>3, <1>4 DEF L, m

LEMMA OutgrownJoin ==
    ASSUME NEW J \in Seq(JobType), NEW K \in Seq(JobType), NEW f, NEW g, Joins(f, K, g),
           NEW i \in 0..Len(J), Outgrown(J, i, f)
    PROVE  Outgrown(J \o K, i, g)
<1>. DEFINE L == J \o K
            m == Len(J)
<1>1. /\ m \in Nat /\ Len(K) \in Nat /\ Len(L) = m + Len(K)
      /\ \A h \in 1..m : L[h] = J[h]
      /\ \A h \in 1..Len(K) : L[m + h] = K[h]
  OBVIOUS
<1>2. /\ \A h \in Nat, j \in 0..m : InitIn(J, h, j) => InitIn(L, h, j)
      /\ InitIn(J, i, m) => \A j \in m..Len(L) : InitIn(L, i, j)
      /\ InitIn(K, 0, Len(K)) => InitIn(L, i, Len(L))
  BY InitJoins
<1>. HIDE DEF L, m
<1>3. i \in 0..m /\ i \in Nat BY <1>1 DEF m
<1>4. ASSUME NEW j \in (i + 1)..Len(L), IsMpd(L[j]) PROVE InitIn(L, i, j - 1)
  <2>1. CASE j <= m
    <3>1. L[j] = J[j] /\ j \in (i + 1)..m /\ j - 1 \in 0..m BY <1>1, <1>3, <2>1
    <3>2. InitIn(J, i, j - 1) BY <1>4, <3>1 DEF Outgrown, m
    <3>. QED BY <1>2, <1>3, <3>1, <3>2
  <2>2. CASE j > m
    <3>1. PICK h \in 1..Len(K) : j = m + h
      <4>1. j - m \in 1..Len(K) /\ j = m + (j - m) BY <1>1, <1>3, <2>2
      <4>. QED BY <4>1
    <3>2. f.live /\ f.ready BY <1>1, <1>4, <3>1 DEF Joins
    <3>3. InitIn(J, i, m) BY <3>2 DEF Outgrown, m
    <3>4. j - 1 \in m..Len(L) BY <1>1, <3>1
    <3>. QED BY <1>2, <3>3, <3>4
  <2>. QED BY <1>1, <1>3, <2>1, <2>2
<1>5. ASSUME g.live, g.ready PROVE InitIn(L, i, Len(L))
  <2>1. (f.live /\ f.ready) \/ InitIn(K, 0, Len(K)) BY <1>5 DEF Joins
  <2>2. ASSUME f.live, f.ready PROVE InitIn(L, i, Len(L))
    <3>1. InitIn(J, i, m) BY <2>2 DEF Outgrown, m
    <3>2. Len(L) \in m..Len(L) BY <1>1
    <3>. QED BY <1>2, <3>1, <3>2
  <2>. QED BY <1>2, <2>1, <2>2
<1>. QED BY <1>4, <1>5 DEF Outgrown, L

LEMMA OutgrownCut ==
    ASSUME NEW J \in Seq(JobType), NEW f, NEW i \in Nat, Outgrown(J, i, f), NEW k \in 0..Len(J)
    PROVE  Outgrown(SubSeq(J, 1, k), i, Off)
<1>. DEFINE K == SubSeq(J, 1, k)
<1>1. Len(K) = k /\ Len(J) \in Nat /\ \A j \in 1..k : K[j] = J[j] OBVIOUS
<1>. HIDE DEF K
<1>2. ASSUME NEW j \in (i + 1)..Len(K), IsMpd(K[j]) PROVE InitIn(K, i, j - 1)
  <2>1. j \in (i + 1)..Len(J) /\ K[j] = J[j] BY <1>1
  <2>2. PICK y \in (i + 1)..(j - 1) : IsInit(J[y]) BY <1>2, <2>1 DEF Outgrown, InitIn
  <2>3. K[y] = J[y] BY <1>1, <2>1, <2>2
  <2>. QED BY <2>2, <2>3 DEF InitIn
<1>. QED BY <1>2 DEF Outgrown, Off, K

-----------------------------------------------------------------------------
\* Courses.
LEMMA StageFacts ==
    ASSUME NEW x \in Stage
    PROVE  /\ x.init \in Nat /\ x.gen \in Nat /\ x.num \in Nat /\ x.num \in 0..MaxSeg
           /\ x.mpd.gen \in Nat /\ x.mpd.segs \in Seq(1..MaxSeg)
           /\ x.mpd \in [gen : 0..MaxGen, segs : Seq(1..MaxSeg)]
           /\ x.mpd.segs # <<>> => Newest(x.mpd) \in Nat
<1>1. /\ x.init \in 0..MaxGen /\ x.gen \in 0..MaxGen /\ x.num \in 0..MaxSeg
      /\ x.mpd \in [gen : 0..MaxGen, segs : Seq(1..MaxSeg)]
  BY DEF Stage
<1>2. x.mpd.gen \in 0..MaxGen /\ x.mpd.segs \in Seq(1..MaxSeg) BY <1>1
<1>3. ASSUME x.mpd.segs # <<>> PROVE Newest(x.mpd) \in Nat
  <2>1. Listing(x.mpd) BY <1>2, <1>3 DEF Listing
  <2>. QED BY <2>1, ListingFacts
<1>. QED BY <1>1, <1>2, <1>3

LEMMA CourseTail ==
    ASSUME NEW J \in Seq(JobType), J # <<>>, NEW c, Course(c, J)
    PROVE  /\ c[0] \in Stage /\ c[1] \in Stage /\ Sound(c[0]) /\ Sound(c[1])
           /\ Timely(c[0], J[1]) /\ Turns(c[0], J[1], c[1])
           /\ \E e : /\ Course(e, Tail(J)) /\ e[0] = c[1] /\ e[Len(Tail(J))] = c[Len(J)]
                     /\ \A f : Closes(c, J, f) => Closes(e, Tail(J), f)
<1>. DEFINE K == Tail(J)
            e == [i \in 0..Len(K) |-> c[i + 1]]
<1>1. /\ Len(K) \in Nat /\ Len(J) = Len(K) + 1 /\ \A i \in 1..Len(K) : K[i] = J[i + 1]
  OBVIOUS
<1>2. \A i \in Nat : \A f : Outgrown(J, i + 1, f) => Outgrown(K, i, f) BY OutgrownTail
<1>. HIDE DEF K
<1>3. \A i \in 0..Len(K) : e[i] = c[i + 1] OBVIOUS
<1>4. \A i \in 0..Len(K) : i + 1 \in 0..Len(J) /\ i \in Nat BY <1>1
<1>5. /\ \A i \in 0..Len(J) : c[i] \in Stage /\ Sound(c[i])
      /\ \A i \in 1..Len(J) : Timely(c[i - 1], J[i]) /\ Turns(c[i - 1], J[i], c[i])
  BY DEF Course
<1>6. e \in [0..Len(K) -> Stage] /\ \A i \in 0..Len(K) : Sound(e[i]) BY <1>3, <1>4, <1>5
<1>. HIDE DEF e
<1>7. ASSUME NEW i \in 1..Len(K) PROVE Timely(e[i - 1], K[i]) /\ Turns(e[i - 1], K[i], e[i])
  <2>1. i - 1 \in 0..Len(K) /\ i \in 0..Len(K) /\ i + 1 \in 1..Len(J) /\ (i - 1) + 1 = (i + 1) - 1
    BY <1>1
  <2>2. e[i - 1] = c[(i + 1) - 1] /\ e[i] = c[i + 1] /\ K[i] = J[i + 1] BY <1>1, <1>3, <2>1
  <2>. QED BY <1>5, <2>1, <2>2
<1>8. Course(e, K) BY <1>6, <1>7 DEF Course
<1>9. ASSUME NEW f, Closes(c, J, f) PROVE Closes(e, K, f)
  BY <1>2, <1>3, <1>4, <1>9 DEF Closes
<1>10. e[0] = c[1] /\ e[Len(K)] = c[Len(J)]
  <2>1. 0 \in 0..Len(K) /\ Len(K) \in 0..Len(K) BY <1>1
  <2>. QED BY <1>1, <1>3, <2>1
<1>11. 0 \in 0..Len(J) /\ 1 \in 0..Len(J) /\ 1 \in 1..Len(J) BY <1>1
<1>12. Timely(c[0], J[1]) /\ Turns(c[0], J[1], c[1])
  <2>1. Timely(c[1 - 1], J[1]) /\ Turns(c[1 - 1], J[1], c[1]) BY <1>5, <1>11
  <2>. QED BY <2>1
<1>. QED BY <1>5, <1>8, <1>9, <1>10, <1>11, <1>12 DEF K

LEMMA CourseCut ==
    ASSUME NEW J \in Seq(JobType), NEW c, Course(c, J), NEW f, Closes(c, J, f), NEW k \in 0..Len(J)
    PROVE  \E e : /\ Course(e, SubSeq(J, 1, k)) /\ e[0] = c[0]
                  /\ Closes(e, SubSeq(J, 1, k), Off)
<1>. DEFINE K == SubSeq(J, 1, k)
            e == [i \in 0..k |-> c[i]]
<1>1. K \in Seq(JobType) /\ Len(K) = k /\ k \in Nat /\ Len(J) \in Nat /\ \A i \in 1..k : K[i] = J[i]
  OBVIOUS
<1>2. \A i \in Nat : Outgrown(J, i, f) => Outgrown(K, i, Off) BY OutgrownCut
<1>. HIDE DEF K
<1>3. \A i \in 0..k : e[i] = c[i] /\ i \in 0..Len(J) /\ i \in Nat BY <1>1
<1>4. /\ \A i \in 0..Len(J) : c[i] \in Stage /\ Sound(c[i])
      /\ \A i \in 1..Len(J) : Timely(c[i - 1], J[i]) /\ Turns(c[i - 1], J[i], c[i])
  BY DEF Course
<1>5. e \in [0..k -> Stage] /\ \A i \in 0..k : Sound(e[i]) BY <1>3, <1>4
<1>. HIDE DEF e
<1>6. ASSUME NEW i \in 1..k PROVE Timely(e[i - 1], K[i]) /\ Turns(e[i - 1], K[i], e[i])
  <2>1. i - 1 \in 0..k /\ i \in 0..k /\ i \in 1..Len(J) BY <1>1
  <2>. QED BY <1>1, <1>3, <1>4, <2>1
<1>7. Course(e, K) BY <1>1, <1>5, <1>6 DEF Course
<1>8. Closes(e, K, Off) BY <1>1, <1>2, <1>3 DEF Closes
<1>9. 0 \in 0..k BY <1>1
<1>. QED BY <1>3, <1>7, <1>8, <1>9 DEF K

LEMMA CourseGlue ==
    ASSUME NEW J \in Seq(JobType), NEW K \in Seq(JobType), NEW c, NEW d,
           Course(c, J), Course(d, K), c[Len(J)] = d[0]
    PROVE  \E e : /\ Course(e, J \o K)
                  /\ \A i \in 0..Len(J) : e[i] = c[i]
                  /\ \A i \in 0..Len(K) : e[Len(J) + i] = d[i]
<1>. DEFINE L == J \o K
            m == Len(J)
            e == [i \in 0..Len(L) |-> IF i <= m THEN c[i] ELSE d[i - m]]
<1>1. /\ m \in Nat /\ Len(K) \in Nat /\ Len(L) = m + Len(K)
      /\ \A i \in 1..m : L[i] = J[i]
      /\ \A i \in 1..Len(K) : L[m + i] = K[i]
  OBVIOUS
<1>2. /\ \A i \in 0..m : c[i] \in Stage /\ Sound(c[i])
      /\ \A i \in 1..m : Timely(c[i - 1], J[i]) /\ Turns(c[i - 1], J[i], c[i])
      /\ \A i \in 0..Len(K) : d[i] \in Stage /\ Sound(d[i])
      /\ \A i \in 1..Len(K) : Timely(d[i - 1], K[i]) /\ Turns(d[i - 1], K[i], d[i])
      /\ c[m] = d[0]
  BY DEF Course
<1>. HIDE DEF L, m
<1>3. \A i \in 0..m : e[i] = c[i] BY <1>1
<1>4. ASSUME NEW i \in 0..Len(K) PROVE e[m + i] = d[i]
  <2>1. m + i \in 0..Len(L) /\ (m + i) - m = i BY <1>1
  <2>2. CASE i = 0 BY <1>1, <1>2, <2>1, <2>2
  <2>3. CASE i # 0
    <3>1. ~(m + i <= m) BY <1>1, <2>3
    <3>. QED BY <2>1, <3>1
  <2>. QED BY <2>2, <2>3
<1>5. ASSUME NEW i \in 0..Len(L), i \notin 0..m
      PROVE  i - m \in 1..Len(K) /\ i = m + (i - m) /\ i - m \in 0..Len(K)
  BY <1>1, <1>5
<1>6. e \in [0..Len(L) -> Stage] /\ \A i \in 0..Len(L) : Sound(e[i])
  <2>1. ASSUME NEW i \in 0..Len(L) PROVE e[i] \in Stage /\ Sound(e[i])
    <3>1. CASE i \in 0..m BY <1>2, <1>3, <3>1
    <3>2. CASE i \notin 0..m
      <4>1. PICK j \in 0..Len(K) : i = m + j BY <1>5, <3>2
      <4>. HIDE DEF e
      <4>. QED BY <1>2, <1>4, <4>1
    <3>. QED BY <3>1, <3>2
  <2>. QED BY <2>1
<1>. HIDE DEF e
<1>7. ASSUME NEW i \in 1..Len(L) PROVE Timely(e[i - 1], L[i]) /\ Turns(e[i - 1], L[i], e[i])
  <2>1. CASE i \in 1..m
    <3>1. i - 1 \in 0..m /\ i \in 0..m BY <1>1, <2>1
    <3>. QED BY <1>1, <1>2, <1>3, <2>1, <3>1
  <2>2. CASE i \notin 1..m
    <3>1. PICK j \in 1..Len(K) : i = m + j
      <4>1. i \in 0..Len(L) /\ i \notin 0..m BY <1>1, <2>2
      <4>. QED BY <1>5, <4>1
    <3>2. j - 1 \in 0..Len(K) /\ j \in 0..Len(K) /\ i - 1 = m + (j - 1) BY <1>1, <3>1
    <3>3. e[i - 1] = d[j - 1] /\ e[i] = d[j] /\ L[i] = K[j] BY <1>1, <1>4, <3>1, <3>2
    <3>. QED BY <1>2, <3>3
  <2>. QED BY <2>1, <2>2
<1>8. Course(e, L) BY <1>6, <1>7 DEF Course
<1>. QED BY <1>3, <1>4, <1>8 DEF L, m

-----------------------------------------------------------------------------
\* From x, the jobs K lead to y; calmly, if none of them takes the last segment
\* from a manifest.
Runs(x, K, y, calm) ==
    \E d : /\ Course(d, K) /\ d[0] = x /\ d[Len(K)] = y
           /\ calm => \A i \in 0..Len(K) : ~Closing(d[i])

\* A generation's end: no manifest, and an init.mp4 at last if one is needed.
Ends(K, g) ==
    /\ \A i \in 1..Len(K) : ~IsMpd(K[i])
    /\ g.live /\ g.ready => K # <<>> /\ IsInit(K[Len(K)])

\* The manifest loses its last segment only when a generation ends.
Seals(K, y, g, calm) == calm \/ (y.mpd = NoMpd /\ Ends(K, g))

LEMMA RunsJoin ==
    ASSUME NEW J \in Seq(JobType), NEW K \in Seq(JobType), NEW x, NEW y, NEW z, NEW calm \in BOOLEAN,
           Runs(x, J, y, calm), Runs(y, K, z, calm)
    PROVE  Runs(x, J \o K, z, calm)
<1>1. PICK c : /\ Course(c, J) /\ c[0] = x /\ c[Len(J)] = y
               /\ calm => \A i \in 0..Len(J) : ~Closing(c[i])
  BY DEF Runs
<1>2. PICK d : /\ Course(d, K) /\ d[0] = y /\ d[Len(K)] = z
               /\ calm => \A i \in 0..Len(K) : ~Closing(d[i])
  BY DEF Runs
<1>3. PICK e : /\ Course(e, J \o K)
               /\ \A i \in 0..Len(J) : e[i] = c[i]
               /\ \A i \in 0..Len(K) : e[Len(J) + i] = d[i]
  BY <1>1, <1>2, CourseGlue
<1>4. Len(J) \in Nat /\ Len(K) \in Nat /\ Len(J \o K) = Len(J) + Len(K) OBVIOUS
<1>5. e[0] = x /\ e[Len(J \o K)] = z
  <2>1. 0 \in 0..Len(J) /\ Len(K) \in 0..Len(K) BY <1>4
  <2>. QED BY <1>1, <1>2, <1>3, <1>4, <2>1
<1>6. ASSUME calm, NEW i \in 0..Len(J \o K) PROVE ~Closing(e[i])
  <2>1. CASE i \in 0..Len(J) BY <1>1, <1>3, <1>6, <2>1
  <2>2. CASE i \notin 0..Len(J)
    <3>1. i - Len(J) \in 0..Len(K) /\ i = Len(J) + (i - Len(J)) BY <1>4, <2>2
    <3>2. e[i] = d[i - Len(J)] BY <1>3, <3>1
    <3>. QED BY <1>2, <1>6, <3>1, <3>2
  <2>. QED BY <2>1, <2>2
<1>. QED BY <1>3, <1>5, <1>6 DEF Runs

LEMMA CourseJoin ==
    ASSUME NEW J \in Seq(JobType), NEW K \in Seq(JobType), NEW c, NEW f, NEW g, NEW y,
           NEW calm \in BOOLEAN, Course(c, J), Closes(c, J, f), Joins(f, K, g),
           Runs(c[Len(J)], K, y, calm), Seals(K, y, g, calm)
    PROVE  \E e : /\ Course(e, J \o K) /\ Closes(e, J \o K, g)
                  /\ e[0] = c[0] /\ e[Len(J \o K)] = y
<1>. DEFINE L == J \o K
            m == Len(J)
<1>1. PICK d : /\ Course(d, K) /\ d[0] = c[m] /\ d[Len(K)] = y
               /\ calm => \A i \in 0..Len(K) : ~Closing(d[i])
  BY DEF Runs
<1>2. PICK e : /\ Course(e, L)
               /\ \A i \in 0..m : e[i] = c[i]
               /\ \A i \in 0..Len(K) : e[m + i] = d[i]
  BY <1>1, CourseGlue
<1>3. /\ m \in Nat /\ Len(K) \in Nat /\ Len(L) = m + Len(K)
      /\ \A h \in 1..Len(K) : L[m + h] = K[h]
      /\ K # <<>> => Len(K) # 0
  OBVIOUS
<1>4. \A i \in 0..m : Outgrown(J, i, f) => Outgrown(L, i, g) BY OutgrownJoin
<1>5. \A i \in 0..m : Closing(c[i]) => Outgrown(J, i, f) BY DEF Closes
<1>. HIDE DEF L, m
<1>6. ASSUME NEW i \in 0..Len(L), Closing(e[i]) PROVE Outgrown(L, i, g)
  <2>1. CASE i \in 0..m BY <1>2, <1>4, <1>5, <1>6, <2>1
  <2>2. CASE i \notin 0..m
    <3>1. PICK j \in 0..Len(K) : i = m + j
      <4>1. i - m \in 0..Len(K) /\ i = m + (i - m) BY <1>3, <2>2
      <4>. QED BY <4>1
    <3>2. Closing(d[j]) BY <1>2, <1>6, <3>1
    <3>3. y.mpd = NoMpd /\ Ends(K, g) BY <1>1, <3>2 DEF Seals
    <3>4. j < Len(K)
      <4>1. j # Len(K) BY <1>1, <3>2, <3>3 DEF Closing
      <4>. QED BY <1>3, <4>1
    <3>5. ASSUME NEW h \in (i + 1)..Len(L) PROVE ~IsMpd(L[h])
      <4>1. h - m \in 1..Len(K) /\ h = m + (h - m) BY <1>3, <3>1
      <4>. QED BY <1>3, <3>3, <4>1 DEF Ends
    <3>6. ASSUME g.live, g.ready PROVE InitIn(L, i, Len(L))
      <4>1. Len(K) \in 1..Len(K) /\ Len(L) = m + Len(K) /\ Len(L) \in (i + 1)..Len(L)
        BY <1>3, <3>1, <3>4
      <4>2. IsInit(L[Len(L)]) BY <1>3, <3>3, <3>6, <4>1 DEF Ends
      <4>. QED BY <4>1, <4>2 DEF InitIn
    <3>. QED BY <3>5, <3>6 DEF Outgrown
  <2>. QED BY <2>1, <2>2
<1>7. Closes(e, L, g) BY <1>6 DEF Closes
<1>8. e[0] = c[0] /\ e[Len(L)] = y
  <2>1. 0 \in 0..m /\ Len(K) \in 0..Len(K) BY <1>3
  <2>. QED BY <1>1, <1>2, <1>3, <2>1
<1>. QED BY <1>2, <1>7, <1>8 DEF L

LEMMA OneRuns ==
    ASSUME NEW x \in Stage, NEW y \in Stage, NEW job, NEW calm,
           Sound(x), Sound(y), Timely(x, job), Turns(x, job, y),
           calm => ~Closing(x) /\ ~Closing(y)
    PROVE  Runs(x, <<job>>, y, calm)
<1>. DEFINE K == <<job>>
            d == [i \in 0..1 |-> IF i = 0 THEN x ELSE y]
<1>1. Len(K) = 1 /\ K[1] = job OBVIOUS
<1>. HIDE DEF K
<1>2. d \in [0..1 -> Stage] /\ d[0] = x /\ d[1] = y OBVIOUS
<1>. HIDE DEF d
<1>3. Course(d, K)
  <2>1. ASSUME NEW i \in 1..1 PROVE Timely(d[i - 1], K[i]) /\ Turns(d[i - 1], K[i], d[i])
    <3>1. i = 1 /\ i - 1 = 0 OBVIOUS
    <3>. QED BY <1>1, <1>2, <3>1
  <2>2. ASSUME NEW i \in 0..1 PROVE Sound(d[i])
    <3>1. i = 0 \/ i = 1 OBVIOUS
    <3>. QED BY <1>2, <3>1
  <2>. QED BY <1>1, <1>2, <2>1, <2>2 DEF Course
<1>4. ASSUME calm, NEW i \in 0..1 PROVE ~Closing(d[i])
  <2>1. i = 0 \/ i = 1 OBVIOUS
  <2>. QED BY <1>2, <1>4, <2>1
<1>. QED BY <1>1, <1>2, <1>3, <1>4 DEF Runs, K

LEMMA NoneRuns ==
    ASSUME NEW x \in Stage, Sound(x), NEW calm, calm => ~Closing(x)
    PROVE  Runs(x, <<>>, x, calm)
<1>. DEFINE K == <<>>
            d == [i \in 0..0 |-> x]
<1>1. Len(K) = 0 OBVIOUS
<1>2. d \in [0..0 -> Stage] /\ d[0] = x /\ \A i \in 0..0 : d[i] = x OBVIOUS
<1>. HIDE DEF d, K
<1>3. Course(d, K) BY <1>1, <1>2 DEF Course
<1>. QED BY <1>1, <1>2, <1>3 DEF Runs, K

St(i, m, g, n) == [init |-> i, mpd |-> m, gen |-> g, num |-> n]

LEMMA StFields ==
    /\ \A i, m, g, n : LET x == St(i, m, g, n) IN x.init = i /\ x.mpd = m /\ x.gen = g /\ x.num = n
    /\ \A i \in 0..MaxGen, m \in [gen : 0..MaxGen, segs : Seq(1..MaxSeg)] :
          \A g \in 0..MaxGen, n \in 0..MaxSeg : St(i, m, g, n) \in Stage
    /\ \A x \in Stage : /\ x.init \in 0..MaxGen /\ x.gen \in 0..MaxGen /\ x.num \in 0..MaxSeg
                        /\ x.mpd \in [gen : 0..MaxGen, segs : Seq(1..MaxSeg)]
BY DEF St, Stage

\* The segments of a batch.
LEMMA SegmentsRun ==
    ASSUME Feeds(feed), NEW k \in Nat, k <= MaxBatch, feed.next + k <= MaxSeg + 1,
           NEW x \in Stage, Sound(x), Reaches(x, feed)
    PROVE  \E y \in Stage :
              /\ Runs(x, Segments(k), y, TRUE) /\ Sound(y) /\ ~Closing(y)
              /\ y.init = x.init /\ y.mpd = x.mpd /\ y.num = feed.next + k - 1
              /\ y.gen = feed.gen \/ (k = 0 /\ feed.next = 1 /\ y.gen < feed.gen)
<1>. DEFINE K == Segments(k)
            g == feed.gen
            next == feed.next
            z(i) == St(x.init, x.mpd, g, next + i - 1)
            d == [i \in 0..k |-> IF i = 0 THEN x ELSE z(i)]
<1>1. Len(K) = k /\ \A i \in 1..k : K[i] = SegJob(g, next + i - 1) BY DEF Segments
<1>2. g \in 0..MaxGen /\ g \in Nat /\ next \in Nat /\ next # 0 /\ MaxSeg \in Nat /\ MaxBatch \in Nat
  BY FeedFacts, FilesAssumption, DirectoryAssumption
<1>3. /\ x.init \in 0..MaxGen /\ x.mpd \in [gen : 0..MaxGen, segs : Seq(1..MaxSeg)]
      /\ x.gen \in Nat /\ x.num \in Nat /\ (x.mpd.segs # <<>> => Newest(x.mpd) \in Nat)
  BY StFields, StageFacts
<1>4. /\ next = 1 => x.num = 0 /\ x.gen < g /\ x.mpd = NoMpd
      /\ next # 1 => x.num = next - 1 /\ x.gen = g /\ (x.mpd # NoMpd => Newest(x.mpd) = x.num)
  BY DEF Reaches
<1>5. ~Closing(x) BY <1>2, <1>4 DEF Closing
<1>6. ASSUME NEW i \in 1..k
      PROVE  /\ z(i) \in Stage /\ Sound(z(i)) /\ ~Closing(z(i))
             /\ z(i).init = x.init /\ z(i).mpd = x.mpd /\ z(i).gen = g /\ z(i).num = next + i - 1
  <2>1. next + i - 1 \in 0..MaxSeg /\ next + i - 1 # 0 BY <1>2
  <2>2. /\ z(i).init = x.init /\ z(i).mpd = x.mpd /\ z(i).gen = g /\ z(i).num = next + i - 1
        /\ z(i) \in Stage
    BY <1>2, <1>3, <2>1, StFields
  <2>. HIDE DEF z
  <2>3. ASSUME x.mpd # NoMpd
        PROVE  /\ x.init = x.mpd.gen /\ x.mpd.segs # <<>>
               /\ Newest(x.mpd) <= next + i - 1 /\ next + i - 1 <= Newest(x.mpd) + MaxBatch
    <3>1. next # 1 /\ Newest(x.mpd) = next - 1 BY <1>4, <2>3
    <3>2. x.init = x.mpd.gen /\ x.mpd.segs # <<>> BY <2>3 DEF Sound
    <3>. QED BY <1>2, <3>1, <3>2
  <2>. QED BY <2>1, <2>2, <2>3 DEF Sound, Closing
<1>7. d \in [0..k -> Stage] BY <1>6
<1>8. d[0] = x /\ \A i \in 1..k : d[i] = z(i) OBVIOUS
<1>9. \A i \in 0..k : i = 0 \/ i \in 1..k OBVIOUS
<1>. HIDE DEF d, z, K
<1>10. ASSUME NEW i \in 1..k PROVE Timely(d[i - 1], K[i]) /\ Turns(d[i - 1], K[i], d[i])
  <2>1. /\ IsSeg(K[i]) /\ ~IsInit(K[i]) /\ ~IsMpd(K[i]) /\ K[i].gen = g /\ K[i].n = next + i - 1
        /\ K[i] # DelMpd
    BY <1>1 DEF IsSeg, IsInit, IsMpd, SegJob, DelMpd
  <2>2. d[i] = z(i) BY <1>8
  <2>3. CASE i = 1
    <3>1. d[i - 1] = x BY <1>8, <2>3
    <3>2. Timely(x, K[i]) BY <1>2, <1>4, <2>1, <2>3 DEF Timely
    <3>. QED BY <1>6, <2>1, <2>2, <3>1, <3>2 DEF Turns
  <2>4. CASE i # 1
    <3>1. i - 1 \in 1..k BY <2>4
    <3>2. d[i - 1] = z(i - 1) BY <1>8, <3>1
    <3>3. z(i - 1).num = next + (i - 1) - 1 /\ z(i - 1).gen = g BY <1>6, <3>1
    <3>4. Timely(z(i - 1), K[i]) BY <1>2, <2>1, <2>4, <3>3 DEF Timely
    <3>. QED BY <1>6, <2>1, <2>2, <3>1, <3>2, <3>4 DEF Turns
  <2>. QED BY <2>3, <2>4
<1>11. ASSUME NEW i \in 0..k PROVE Sound(d[i]) /\ ~Closing(d[i]) /\ d[i].init = x.init
              /\ d[i].mpd = x.mpd /\ d[i].num = next + i - 1
  <2>1. CASE i = 0 BY <1>2, <1>4, <1>5, <1>8, <2>1
  <2>2. CASE i # 0 BY <1>6, <1>8, <1>9, <2>2
  <2>. QED BY <2>1, <2>2
<1>12. Course(d, K) BY <1>1, <1>7, <1>10, <1>11 DEF Course
<1>13. k \in 0..k /\ d[k] \in Stage BY <1>7
<1>14. d[k].gen = g \/ (k = 0 /\ next = 1 /\ d[k].gen < g) BY <1>4, <1>6, <1>8, <1>9, <1>13
<1>15. Runs(x, K, d[k], TRUE) BY <1>1, <1>8, <1>11, <1>12 DEF Runs
<1>. QED BY <1>11, <1>13, <1>14, <1>15 DEF K

\* Deletes of earlier segments change nothing that matters here.
LEMMA DeletesRun ==
    ASSUME NEW s \in Seq(1..MaxSeg), NEW x \in Stage, Sound(x)
    PROVE  /\ ~Closing(x) /\ (\A i \in 1..Len(s) : s[i] < x.num) => Runs(x, Deletes(s), x, TRUE)
           /\ \E y \in Stage : /\ Runs(x, Deletes(s), y, FALSE) /\ Sound(y)
                               /\ y.init = x.init /\ y.mpd = x.mpd /\ y.gen = x.gen
<1>. DEFINE K == Deletes(s)
            m == Len(s)
            gone(i) == \E j \in 1..i : s[j] >= x.num
            z(i) == St(x.init, x.mpd, x.gen, IF gone(i) THEN 0 ELSE x.num)
            d == [i \in 0..m |-> IF gone(i) THEN z(i) ELSE x]
<1>1. m \in Nat /\ \A i \in 1..m : s[i] \in 1..MaxSeg /\ s[i] \in Nat
  <2>1. m \in Nat /\ \A i \in 1..m : s[i] \in 1..MaxSeg BY ElementOf
  <2>. QED BY <2>1
<1>2. Len(K) = m /\ \A i \in 1..m : K[i] = DelSeg(s[i]) BY DeletesTyped
<1>3. /\ x.init \in 0..MaxGen /\ x.mpd \in [gen : 0..MaxGen, segs : Seq(1..MaxSeg)]
      /\ x.gen \in 0..MaxGen /\ x.num \in 0..MaxSeg /\ x.num \in Nat /\ 0 \in 0..MaxSeg
  BY StFields, StageFacts, DirectoryAssumption
<1>. HIDE DEF K, m
<1>4. ASSUME NEW i \in 0..m
      PROVE  /\ d[i] \in Stage /\ Sound(d[i])
             /\ d[i].init = x.init /\ d[i].mpd = x.mpd /\ d[i].gen = x.gen
             /\ d[i].num = IF gone(i) THEN 0 ELSE x.num
             /\ ~gone(i) => d[i] = x
  <2>. HIDE DEF gone
  <2>1. /\ z(i) \in Stage /\ z(i).init = x.init /\ z(i).mpd = x.mpd /\ z(i).gen = x.gen
        /\ z(i).num = IF gone(i) THEN 0 ELSE x.num
    BY <1>3, StFields
  <2>. HIDE DEF z
  <2>2. d[i] = IF gone(i) THEN z(i) ELSE x OBVIOUS
  <2>3. gone(i) => Sound(z(i)) BY <2>1 DEF Sound
  <2>. QED BY <2>1, <2>2, <2>3
<1>5. DOMAIN d = 0..m /\ d \in [0..m -> Stage] /\ 0 \in 0..m /\ m \in 0..m
  <2>1. \A i \in 0..m : d[i] \in Stage BY <1>4
  <2>. QED BY <1>1, <2>1
<1>6. ~gone(0) OBVIOUS
<1>7. ASSUME NEW i \in 1..m PROVE gone(i) <=> gone(i - 1) \/ s[i] >= x.num
  <2>1. \A j : j \in 1..i <=> j \in 1..(i - 1) \/ j = i BY <1>1
  <2>. QED BY <2>1
<1>8. (\A i \in 1..m : s[i] < x.num) => \A i \in 0..m : ~gone(i)
  <2>. SUFFICES ASSUME \A i \in 1..m : s[i] < x.num, NEW i \in 0..m, NEW j \in 1..i, s[j] >= x.num
                PROVE  FALSE
    OBVIOUS
  <2>1. j \in 1..m BY <1>1
  <2>. QED BY <1>1, <1>3, <2>1
<1>. HIDE DEF d, z, gone
<1>9. ASSUME NEW i \in 1..m PROVE Timely(d[i - 1], K[i]) /\ Turns(d[i - 1], K[i], d[i])
  <2>1. /\ ~IsSeg(K[i]) /\ ~IsInit(K[i]) /\ ~IsMpd(K[i]) /\ K[i].kind = "del_seg" /\ K[i].n = s[i]
        /\ K[i] # DelMpd
    BY <1>2 DEF IsSeg, IsInit, IsMpd, DelSeg, DelMpd
  <2>2. i - 1 \in 0..m /\ i \in 0..m BY <1>1
  <2>3. d[i].num = IF s[i] >= d[i - 1].num THEN 0 ELSE d[i - 1].num
    BY <1>1, <1>3, <1>4, <1>7, <2>2
  <2>. QED BY <1>4, <2>1, <2>2, <2>3 DEF Timely, Turns
<1>10. Course(d, K) BY <1>2, <1>4, <1>5, <1>9 DEF Course
<1>11. d[0] = x BY <1>4, <1>5, <1>6
<1>12. Runs(x, K, d[m], FALSE) BY <1>2, <1>10, <1>11 DEF Runs
<1>13. ASSUME ~Closing(x), \A i \in 1..m : s[i] < x.num PROVE Runs(x, K, x, TRUE)
  <2>1. \A i \in 0..m : d[i] = x BY <1>4, <1>8, <1>13
  <2>2. d[Len(K)] = x /\ \A i \in 0..Len(K) : ~Closing(d[i]) BY <1>2, <1>5, <1>13, <2>1
  <2>. QED BY <1>10, <1>11, <2>2 DEF Runs
<1>. QED BY <1>4, <1>5, <1>12, <1>13 DEF K, m

\* What the packager's calls lead to.
LEMMA PrepareJoins ==
    ASSUME NEW g
    PROVE  Joins(feed, <<InitJob(feed.gen)>>, g)
<1>. DEFINE K == <<InitJob(feed.gen)>>
<1>1. Len(K) = 1 /\ IsInit(K[1]) /\ ~IsMpd(K[1]) BY DEF InitJob, IsInit, IsMpd
<1>. HIDE DEF K
<1>2. InitIn(K, 0, Len(K))
  <2>1. 1 \in (0 + 1)..Len(K) BY <1>1
  <2>. QED BY <1>1, <2>1 DEF InitIn
<1>3. Joins(feed, K, g) BY <1>1, <1>2 DEF Joins
<1>. QED BY <1>3 DEF K

LEMMA PrepareRuns ==
    ASSUME Feeds(feed), ~feed.ready, NEW x \in Stage, Sound(x), Reaches(x, feed)
    PROVE  LET f == [feed EXCEPT !.ready = TRUE]
               K == <<InitJob(feed.gen)>>
           IN  \E y : Runs(x, K, y, TRUE) /\ Reaches(y, f)
<1>. DEFINE f == [feed EXCEPT !.ready = TRUE]
            job == InitJob(feed.gen)
            K == <<job>>
            y == St(feed.gen, x.mpd, x.gen, x.num)
<1>1. /\ feed.next = 1 /\ feed.gen \in 0..MaxGen /\ feed.gen \in Nat
      /\ f.gen = feed.gen /\ f.next = feed.next /\ f.ready
  BY FeedFacts DEF Feeds, FeedType
<1>2. /\ x.num = 0 /\ x.gen < feed.gen /\ x.mpd = NoMpd /\ x.init <= feed.gen /\ x.init # feed.gen
  BY <1>1 DEF Reaches
<1>3. /\ y \in Stage /\ y.init = feed.gen /\ y.mpd = x.mpd /\ y.gen = x.gen /\ y.num = x.num
  BY <1>1, StFields
<1>4. IsInit(job) /\ ~IsSeg(job) /\ ~IsMpd(job) /\ job # DelMpd /\ job.gen = feed.gen
      /\ job.kind # "del_seg"
  BY DEF InitJob, IsInit, IsSeg, IsMpd, DelMpd
<1>. HIDE DEF f, job, y
<1>5. Timely(x, job) /\ Turns(x, job, y) BY <1>1, <1>2, <1>3, <1>4, StageFacts DEF Timely, Turns
<1>6. Sound(y) /\ ~Closing(x) /\ ~Closing(y) BY <1>2, <1>3 DEF Sound, Closing
<1>7. Runs(x, K, y, TRUE) BY <1>3, <1>5, <1>6, OneRuns
<1>. HIDE DEF K
<1>8. Reaches(y, f) BY <1>1, <1>2, <1>3 DEF Reaches
<1>. QED BY <1>7, <1>8 DEF f, K, job

LEMMA AddRuns ==
    ASSUME Feeds(feed), feed.live, feed.ready, NEW k \in Nat, k # 0, k <= MaxBatch,
           feed.next + k <= MaxSeg + 1, NEW x \in Stage, Sound(x), Reaches(x, feed)
    PROVE  LET f == [feed EXCEPT !.next = @ + k]
               K == Segments(k) \o (Deletes(Slides(k)) \o <<MpdJob(feed.gen, Window(feed.next + k))>>)
           IN  \E y : Runs(x, K, y, TRUE) /\ Reaches(y, f)
<1>. DEFINE f == [feed EXCEPT !.next = @ + k]
            n == feed.next + k
            w == Window(n)
            job == MpdJob(feed.gen, w)
            A == Segments(k)
            B == Deletes(Slides(k))
            C == <<job>>
            K == A \o (B \o C)
<1>1. /\ feed.gen \in 1..MaxGen /\ feed.gen \in Nat /\ feed.gen \in 0..MaxGen /\ feed.gen # 0
      /\ feed.next \in Nat /\ feed.next # 0 /\ First(feed.next) \in Nat
      /\ n \in Nat /\ n \in 1..(MaxSeg + 1) /\ n > 1
  BY FeedFacts, DirectoryAssumption
<1>2. f.gen = feed.gen /\ f.next = n /\ f.ready BY Extended
<1>3. First(n) \in 1..n /\ First(n) < n /\ First(n) \in Nat BY <1>1, WindowFacts
<1>4. /\ w \in Seq(1..MaxSeg) /\ Len(w) = n - First(n) /\ w # <<>>
      /\ w[Len(w)] = n - 1
  <2>1. w \in Seq(1..MaxSeg) /\ Len(w) = n - First(n)
        /\ \A i \in 1..(n - First(n)) : w[i] = First(n) + i - 1
    BY <1>1, WindowFacts
  <2>2. n - First(n) \in 1..(n - First(n)) BY <1>1, <1>3
  <2>. HIDE DEF w
  <2>3. w # <<>> BY <2>1, <2>2
  <2>. QED BY <1>1, <1>3, <2>1, <2>2, <2>3
<1>5. A \in Seq(JobType) /\ B \in Seq(JobType) /\ C \in Seq(JobType) /\ Slides(k) \in Seq(1..MaxSeg)
  BY AddTyped, AddMore
<1>6. \A i \in 1..Len(Slides(k)) : Slides(k)[i] < n - 1
  <2>1. First(n) - First(feed.next) \in Nat \/ First(n) - First(feed.next) < 0 BY <1>1, <1>3
  <2>2. \A i \in 1..Len(Slides(k)) : i \in 1..(First(n) - First(feed.next))
    <3>1. DOMAIN Slides(k) = 1..(First(n) - First(feed.next)) BY DEF Slides
    <3>2. DOMAIN Slides(k) = 1..Len(Slides(k)) BY <1>5, ElementOf
    <3>. QED BY <3>1, <3>2
  <2>3. \A i \in 1..Len(Slides(k)) : Slides(k)[i] = First(feed.next) + i - 1 BY <2>2 DEF Slides
  <2>. QED BY <1>1, <1>3, <2>2, <2>3
<1>7. IsMpd(job) /\ ~IsSeg(job) /\ ~IsInit(job) /\ job.gen = feed.gen /\ job.segs = w
      /\ job # DelMpd /\ job.kind # "del_seg"
  BY DEF MpdJob, IsInit, IsSeg, IsMpd, DelMpd
<1>. HIDE DEF f, w, A, B, job
<1>8. PICK y \in Stage :
         /\ Runs(x, A, y, TRUE) /\ Sound(y) /\ ~Closing(y)
         /\ y.init = x.init /\ y.mpd = x.mpd /\ y.num = n - 1 /\ y.gen = feed.gen
  <2>1. PICK y \in Stage :
           /\ Runs(x, A, y, TRUE) /\ Sound(y) /\ ~Closing(y)
           /\ y.init = x.init /\ y.mpd = x.mpd /\ y.num = feed.next + k - 1
           /\ y.gen = feed.gen \/ (k = 0 /\ feed.next = 1 /\ y.gen < feed.gen)
    BY SegmentsRun DEF A
  <2>2. y.num = n - 1 /\ y.gen = feed.gen BY <1>1, <2>1
  <2>. HIDE DEF n
  <2>. QED BY <2>1, <2>2
<1>9. Runs(y, B, y, TRUE) BY <1>5, <1>6, <1>8, DeletesRun DEF B
<1>. DEFINE m == [gen |-> feed.gen, segs |-> w]
            z == St(y.init, m, feed.gen, n - 1)
<1>10. /\ z \in Stage /\ z.init = y.init /\ z.mpd = m /\ z.gen = feed.gen /\ z.num = n - 1
  <2>1. m \in [gen : 0..MaxGen, segs : Seq(1..MaxSeg)] BY <1>1, <1>4
  <2>2. n - 1 \in 0..MaxSeg BY <1>1, DirectoryAssumption
  <2>3. y.init \in 0..MaxGen /\ feed.gen \in 0..MaxGen BY <1>1, <1>8, StFields
  <2>. HIDE DEF m
  <2>. QED BY <2>1, <2>2, <2>3, StFields
<1>11. m.gen = feed.gen /\ m.segs = w /\ Newest(m) = n - 1 BY <1>4 DEF Newest
<1>12. y.init = feed.gen BY <1>8 DEF Reaches
<1>13. n - 1 \in Nat /\ n - 1 # 0 /\ MaxBatch \in Nat BY <1>1, FilesAssumption
<1>14. y.mpd # NoMpd => Newest(y.mpd) < n - 1
  <2>. SUFFICES ASSUME y.mpd # NoMpd PROVE Newest(y.mpd) < n - 1 OBVIOUS
  <2>1. Newest(x.mpd) = feed.next - 1 BY <1>8 DEF Reaches
  <2>. QED BY <1>1, <1>8, <2>1
<1>. HIDE DEF z, m
<1>15. Timely(y, job) BY <1>4, <1>7, <1>8, <1>12, <1>13, <1>14 DEF Timely
<1>16. Turns(y, job, z) BY <1>7, <1>8, <1>10 DEF Turns, m
<1>17. Sound(z) /\ ~Closing(z) BY <1>4, <1>10, <1>11, <1>12, <1>13 DEF Sound, Closing
<1>18. Runs(y, C, z, TRUE) BY <1>8, <1>10, <1>15, <1>16, <1>17, OneRuns
<1>19. Reaches(z, f) BY <1>1, <1>2, <1>10, <1>11, <1>12 DEF Reaches
<1>. HIDE DEF C
<1>20. Runs(x, K, z, TRUE)
  <2>1. Runs(y, B \o C, z, TRUE) BY <1>5, <1>9, <1>18, RunsJoin
  <2>2. B \o C \in Seq(JobType) BY <1>5, Join
  <2>. QED BY <1>5, <1>8, <2>1, <2>2, RunsJoin
<1>. QED BY <1>19, <1>20 DEF f, K, A, B, C, job, w

\* The jobs of a new generation close the one before.
LEMMA RotateJoins ==
    ASSUME Feeds(feed), NEW k \in Nat, k <= MaxBatch, feed.next + k <= MaxSeg + 1,
           feed.gen < MaxGen, NEW ready \in BOOLEAN
    PROVE  LET old == Run(First(feed.next), feed.next + k - First(feed.next))
               L == IF ready THEN <<InitJob(feed.gen + 1)>> ELSE <<>>
               K == (Segments(k) \o (Deletes(old \o old) \o <<DelMpd>>)) \o L
               f == [New(feed.gen + 1) EXCEPT !.ready = ready]
           IN  Joins(feed, K, f) /\ Ends(K, f)
<1>. DEFINE old == Run(First(feed.next), feed.next + k - First(feed.next))
            s == old \o old
            A == Segments(k)
            B == Deletes(s)
            C == <<DelMpd>>
            job == InitJob(feed.gen + 1)
            L == IF ready THEN <<job>> ELSE <<>>
            M == A \o (B \o C)
            K == M \o L
            f == [New(feed.gen + 1) EXCEPT !.ready = ready]
<1>1. f.ready = ready BY DEF New, Off
<1>2. s \in Seq(1..MaxSeg) /\ B \in Seq(JobType) BY RotateTyped
<1>3. A \in Seq(JobType) /\ L \in Seq(JobType) BY RotateMore
<1>4. C \in Seq(JobType)
  <2>1. DelMpd \in JobType BY DEF JobType
  <2>. QED BY <2>1
<1>5. /\ (\A g, n : ~IsMpd(SegJob(g, n))) /\ (\A n : ~IsMpd(DelSeg(n)))
      /\ ~IsMpd(DelMpd) /\ ~IsMpd(job) /\ IsInit(job)
  BY DEF IsMpd, IsInit, SegJob, DelSeg, DelMpd, InitJob
<1>6. NoMpds(A)
  <2>1. Len(A) = k /\ \A i \in 1..k : A[i] = SegJob(feed.gen, feed.next + i - 1) BY DEF Segments
  <2>. HIDE DEF A
  <2>. QED BY <1>5, <2>1 DEF NoMpds
<1>7. NoMpds(B)
  <2>1. Len(B) = Len(s) /\ \A i \in 1..Len(s) : B[i] = DelSeg(s[i]) BY <1>2, DeletesTyped
  <2>. HIDE DEF B
  <2>. QED BY <1>5, <2>1 DEF NoMpds
<1>8. NoMpds(C) /\ NoMpds(L) BY <1>5 DEF NoMpds
<1>. HIDE DEF A, B, C, s, job, f
<1>9. M \in Seq(JobType) /\ NoMpds(M)
  <2>1. B \o C \in Seq(JobType) /\ NoMpds(B \o C) BY <1>2, <1>4, <1>7, <1>8, Join, NoneJoin
  <2>. QED BY <1>3, <1>6, <2>1, Join, NoneJoin
<1>. HIDE DEF M
<1>10. ready => L # <<>> /\ IsInit(K[Len(K)]) /\ Len(K) \in (0 + 1)..Len(K)
  <2>. SUFFICES ASSUME ready PROVE K # <<>> /\ IsInit(K[Len(K)]) /\ Len(K) \in (0 + 1)..Len(K)
               /\ L # <<>>
    OBVIOUS
  <2>1. L = <<job>> OBVIOUS
  <2>2. Len(K) = Len(M) + 1 /\ K[Len(M) + 1] = job /\ Len(M) \in Nat BY <1>9, <2>1
  <2>3. K # <<>> /\ L # <<>> BY <1>3, <1>9, <2>1, <2>2
  <2>. HIDE DEF K, L
  <2>. QED BY <1>5, <2>2, <2>3
<1>. HIDE DEF L
<1>11. NoMpds(K) BY <1>3, <1>8, <1>9, NoneJoin
<1>12. K # <<>> \/ Len(K) = 0
  <2>1. K \in Seq(JobType) BY <1>3, <1>9, Join
  <2>. HIDE DEF K
  <2>. QED BY <2>1
<1>. HIDE DEF K
<1>13. Ends(K, f)
  <2>1. ready => K # <<>> /\ IsInit(K[Len(K)])
    <3>1. ready => Len(K) # 0 BY <1>10
    <3>. QED BY <1>10, <1>12, <3>1
  <2>. QED BY <1>1, <1>11, <2>1 DEF Ends, NoMpds
<1>14. Joins(feed, K, f)
  <2>1. ready => InitIn(K, 0, Len(K)) BY <1>10 DEF InitIn
  <2>. QED BY <1>1, <1>11, <2>1 DEF Joins, NoMpds
<1>. QED BY <1>13, <1>14 DEF f, K, M, A, B, C, L, s, job

LEMMA RotateRuns ==
    ASSUME Feeds(feed), NEW k \in Nat, k <= MaxBatch, feed.next + k <= MaxSeg + 1,
           feed.gen < MaxGen, NEW ready \in BOOLEAN, NEW x \in Stage, Sound(x), Reaches(x, feed)
    PROVE  LET old == Run(First(feed.next), feed.next + k - First(feed.next))
               L == IF ready THEN <<InitJob(feed.gen + 1)>> ELSE <<>>
               K == (Segments(k) \o (Deletes(old \o old) \o <<DelMpd>>)) \o L
               f == [New(feed.gen + 1) EXCEPT !.ready = ready]
           IN  \E y : Runs(x, K, y, FALSE) /\ Reaches(y, f) /\ y.mpd = NoMpd
<1>. DEFINE old == Run(First(feed.next), feed.next + k - First(feed.next))
            s == old \o old
            A == Segments(k)
            B == Deletes(s)
            C == <<DelMpd>>
            job == InitJob(feed.gen + 1)
            L == IF ready THEN <<job>> ELSE <<>>
            M == A \o (B \o C)
            K == M \o L
            f == [New(feed.gen + 1) EXCEPT !.ready = ready]
<1>1. /\ feed.gen \in 1..MaxGen /\ feed.gen \in Nat /\ feed.gen + 1 \in 1..MaxGen
      /\ feed.gen + 1 \in 0..MaxGen /\ feed.next \in Nat /\ feed.next # 0
  BY FeedFacts, FilesAssumption
<1>2. f.gen = feed.gen + 1 /\ f.next = 1 /\ f.ready = ready BY DEF New, Off
<1>3. s \in Seq(1..MaxSeg) /\ B \in Seq(JobType) BY RotateTyped
<1>4. A \in Seq(JobType) /\ L \in Seq(JobType) BY RotateMore
<1>5. C \in Seq(JobType)
  <2>1. DelMpd \in JobType BY DEF JobType
  <2>. QED BY <2>1
<1>6. /\ ~IsMpd(DelMpd) /\ ~IsSeg(DelMpd) /\ ~IsInit(DelMpd)
      /\ ~IsMpd(job) /\ ~IsSeg(job) /\ IsInit(job) /\ job.gen = feed.gen + 1
      /\ job # DelMpd /\ job.kind # "del_seg"
  BY DEF IsMpd, IsSeg, IsInit, DelMpd, InitJob
<1>7. PICK y \in Stage :
          /\ Runs(x, A, y, TRUE) /\ Sound(y)
          /\ y.init = x.init /\ y.mpd = x.mpd /\ y.gen <= feed.gen
  <2>. HIDE DEF A
  <2>1. PICK y \in Stage :
          /\ Runs(x, A, y, TRUE) /\ Sound(y)
          /\ y.init = x.init /\ y.mpd = x.mpd
          /\ y.gen = feed.gen \/ (k = 0 /\ feed.next = 1 /\ y.gen < feed.gen)
    BY SegmentsRun DEF A
  <2>2. y.gen <= feed.gen BY <1>1, <2>1, StageFacts
  <2>. QED BY <2>1, <2>2
<1>8. Runs(x, A, y, FALSE)
  <2>. HIDE DEF A
  <2>. QED BY <1>7 DEF Runs
<1>9. PICK z \in Stage : /\ Runs(y, B, z, FALSE) /\ Sound(z)
                          /\ z.init = y.init /\ z.mpd = y.mpd /\ z.gen = y.gen
  BY <1>3, <1>7, DeletesRun
<1>. HIDE DEF A, B, s
<1>. DEFINE u == St(z.init, NoMpd, z.gen, 0)
            v == St(feed.gen + 1, NoMpd, z.gen, 0)
<1>10. NoMpd \in [gen : 0..MaxGen, segs : Seq(1..MaxSeg)] /\ 0 \in 0..MaxSeg
  BY FilesAssumption, DirectoryAssumption DEF NoMpd
<1>11. /\ u \in Stage /\ u.init = z.init /\ u.mpd = NoMpd /\ u.gen = z.gen /\ u.num = 0
       /\ v \in Stage /\ v.init = feed.gen + 1 /\ v.mpd = NoMpd /\ v.gen = z.gen /\ v.num = 0
  <2>1. z.init \in 0..MaxGen /\ z.gen \in 0..MaxGen BY StFields
  <2>2. /\ u.init = z.init /\ u.mpd = NoMpd /\ u.gen = z.gen /\ u.num = 0
        /\ v.init = feed.gen + 1 /\ v.mpd = NoMpd /\ v.gen = z.gen /\ v.num = 0
    BY StFields
  <2>3. u \in Stage BY <1>10, <2>1, StFields
  <2>4. v \in Stage BY <1>1, <1>10, <2>1, StFields
  <2>. QED BY <2>2, <2>3, <2>4
<1>12. z.init <= feed.gen /\ z.init \in Nat /\ z.gen \in Nat /\ z.gen <= feed.gen
  BY <1>7, <1>9, StageFacts DEF Reaches
<1>. HIDE DEF u, v, job
<1>13. Sound(u) /\ Sound(v) BY <1>11 DEF Sound
<1>14. Runs(z, C, u, FALSE)
  <2>1. Timely(z, DelMpd) BY <1>6 DEF Timely
  <2>2. Turns(z, DelMpd, u) BY <1>6, <1>11 DEF Turns
  <2>. QED BY <1>9, <1>11, <1>13, <2>1, <2>2, OneRuns
<1>. HIDE DEF C
<1>15. Runs(x, M, u, FALSE)
  <2>1. Runs(y, B \o C, u, FALSE) BY <1>3, <1>5, <1>9, <1>14, RunsJoin
  <2>2. B \o C \in Seq(JobType) BY <1>3, <1>5, Join
  <2>. QED BY <1>4, <1>8, <2>1, <2>2, RunsJoin
<1>16. M \in Seq(JobType)
  <2>1. B \o C \in Seq(JobType) BY <1>3, <1>5, Join
  <2>. QED BY <1>4, <2>1, Join
<1>. HIDE DEF M, f
<1>17. \E q : Runs(u, L, q, FALSE) /\ Reaches(q, f) /\ q.mpd = NoMpd
  <2>1. CASE ready
    <3>1. Timely(u, job) BY <1>1, <1>6, <1>11, <1>12 DEF Timely
    <3>2. Turns(u, job, v) BY <1>6, <1>11 DEF Turns
    <3>3. Runs(u, <<job>>, v, FALSE) BY <1>11, <1>13, <3>1, <3>2, OneRuns
    <3>4. Reaches(v, f) BY <1>1, <1>2, <1>11, <1>12, <2>1 DEF Reaches
    <3>. QED BY <1>11, <2>1, <3>3, <3>4
  <2>2. CASE ~ready
    <3>1. Runs(u, <<>>, u, FALSE) BY <1>11, <1>13, NoneRuns
    <3>2. Reaches(u, f) BY <1>1, <1>2, <1>11, <1>12, <2>2 DEF Reaches
    <3>. QED BY <1>11, <2>2, <3>1, <3>2
  <2>. QED BY <2>1, <2>2
<1>. HIDE DEF L
<1>18. \E q : Runs(x, K, q, FALSE) /\ Reaches(q, f) /\ q.mpd = NoMpd
  BY <1>4, <1>15, <1>16, <1>17, RunsJoin
<1>. QED BY <1>18 DEF f, K, M, A, B, C, L, s, job

-----------------------------------------------------------------------------
\* A job that takes effect.
IsDel(job) == job.kind = "del_seg"

LEMMA JobKinds ==
    ASSUME NEW job \in JobType
    PROVE  \/ /\ IsInit(job) /\ ~IsSeg(job) /\ ~IsMpd(job) /\ ~IsDel(job) /\ job # DelMpd
              /\ job.gen \in 1..MaxGen /\ job = InitJob(job.gen)
           \/ /\ IsSeg(job) /\ ~IsInit(job) /\ ~IsMpd(job) /\ ~IsDel(job) /\ job # DelMpd
              /\ job.gen \in 1..MaxGen /\ job.n \in 1..MaxSeg /\ job = SegJob(job.gen, job.n)
           \/ /\ IsMpd(job) /\ ~IsInit(job) /\ ~IsSeg(job) /\ ~IsDel(job) /\ job # DelMpd
              /\ job.gen \in 1..MaxGen /\ job.segs \in Seq(1..MaxSeg)
              /\ job = MpdJob(job.gen, job.segs)
           \/ /\ IsDel(job) /\ ~IsInit(job) /\ ~IsSeg(job) /\ ~IsMpd(job) /\ job # DelMpd
              /\ job.n \in 1..MaxSeg /\ job = DelSeg(job.n)
           \/ job = DelMpd /\ ~IsInit(job) /\ ~IsSeg(job) /\ ~IsMpd(job) /\ ~IsDel(job)
<1>. USE DEF IsInit, IsSeg, IsMpd, IsDel, InitJob, SegJob, MpdJob, DelSeg, DelMpd
<1>1. CASE \E g \in 1..MaxGen : job = InitJob(g) BY <1>1
<1>2. CASE \E g \in 1..MaxGen, n \in 1..MaxSeg : job = SegJob(g, n) BY <1>2
<1>3. CASE \E g \in 1..MaxGen, s \in Seq(1..MaxSeg) : job = MpdJob(g, s)
  <2>1. PICK g \in 1..MaxGen, s \in Seq(1..MaxSeg) : job = MpdJob(g, s) BY <1>3
  <2>2. job.kind = "mpd" /\ job.gen = g /\ job.segs = s BY <2>1
  <2>. QED BY <2>1, <2>2
<1>4. CASE \E n \in 1..MaxSeg : job = DelSeg(n) BY <1>4
<1>5. CASE job = DelMpd BY <1>5
<1>. QED BY <1>1, <1>2, <1>3, <1>4, <1>5 DEF JobType

LEMMA AfterFields ==
    ASSUME NEW d \in DirType, NEW job \in JobType
    PROVE  /\ After(d, job).init = IF IsInit(job) THEN job.gen ELSE d.init
           /\ After(d, job).mpd = IF IsMpd(job) THEN [gen |-> job.gen, segs |-> job.segs]
                                  ELSE IF job = DelMpd THEN NoMpd ELSE d.mpd
           /\ \A n \in 1..MaxSeg :
                 After(d, job).seg[n] = IF IsSeg(job) /\ n = job.n THEN job.gen
                                        ELSE IF IsDel(job) /\ n = job.n THEN 0 ELSE d.seg[n]
<1>0. d.seg \in [1..MaxSeg -> 0..MaxGen] BY DirFacts
<1>1. CASE IsInit(job) BY <1>1, JobKinds, AfterEach, DirFields
<1>2. CASE IsSeg(job)
  <2>1. ~IsInit(job) /\ ~IsMpd(job) /\ job # DelMpd /\ job.gen \in 0..MaxGen /\ job.gen # 0
        /\ job.n \in 1..MaxSeg /\ job = SegJob(job.gen, job.n) /\ ~IsDel(job)
    BY <1>2, JobKinds
  <2>2. /\ After(d, job).init = d.init /\ After(d, job).mpd = d.mpd
        /\ \A q \in 1..MaxSeg : After(d, job).seg[q] = IF q = job.n THEN job.gen ELSE d.seg[q]
    BY <2>1, AfterOne
  <2>. QED BY <1>2, <2>1, <2>2
<1>3. CASE IsMpd(job)
  <2>1. /\ ~IsInit(job) /\ ~IsSeg(job) /\ job.gen \in 1..MaxGen /\ job.segs \in Seq(1..MaxSeg)
        /\ job = MpdJob(job.gen, job.segs) /\ ~IsDel(job)
    BY <1>3, JobKinds
  <2>2. After(d, job) = Dir(d.init, [gen |-> job.gen, segs |-> job.segs], d.seg, d.lost)
    BY <2>1, AfterEach
  <2>. QED BY <1>3, <2>1, <2>2, DirFields
<1>4. CASE IsDel(job)
  <2>1. ~IsInit(job) /\ ~IsMpd(job) /\ ~IsSeg(job) /\ job # DelMpd
        /\ job.n \in 1..MaxSeg /\ job = DelSeg(job.n)
    BY <1>4, JobKinds
  <2>2. 0 \in 0..MaxGen BY FilesAssumption
  <2>3. /\ After(d, job).init = d.init /\ After(d, job).mpd = d.mpd
        /\ \A q \in 1..MaxSeg : After(d, job).seg[q] = IF q = job.n THEN 0 ELSE d.seg[q]
    BY <2>1, <2>2, AfterOne
  <2>. QED BY <1>4, <2>1, <2>3
<1>5. CASE job = DelMpd BY <1>5, JobKinds, AfterEach, DirFields
<1>. QED BY <1>1, <1>2, <1>3, <1>4, <1>5, JobKinds

LEMMA DoneReflects ==
    ASSUME NEW d \in DirType, NEW J \in Seq(JobType), J # <<>>, NEW f,
           NEW x \in Stage, NEW y \in Stage, Reflects(d, x, J, f),
           Timely(x, J[1]), Turns(x, J[1], y)
    PROVE  Reflects(After(d, J[1]), y, Tail(J), f)
<1>. DEFINE job == J[1]
            e == After(d, job)
            K == Tail(J)
<1>1. job \in JobType OBVIOUS
<1>2. /\ e.init = IF IsInit(job) THEN job.gen ELSE d.init
      /\ e.mpd = IF IsMpd(job) THEN [gen |-> job.gen, segs |-> job.segs]
                 ELSE IF job = DelMpd THEN NoMpd ELSE d.mpd
      /\ \A n \in 1..MaxSeg :
            e.seg[n] = IF IsSeg(job) /\ n = job.n THEN job.gen
                       ELSE IF IsDel(job) /\ n = job.n THEN 0 ELSE d.seg[n]
  BY <1>1, AfterFields
<1>3. /\ Outgrown(J, 0, f) => ~IsMpd(job)
      /\ Outgrown(J, 0, f) /\ ~IsInit(job) => Outgrown(K, 0, f)
  BY OutgrownTail
<1>4. /\ d.mpd \in {NoMpd, x.mpd}
      /\ d.init = x.init \/ (d.init = 0 /\ d.mpd = NoMpd /\ Outgrown(J, 0, f))
      /\ \A p \in 1..MaxSeg :
            d.seg[p] <= x.gen /\ (d.seg[p] # 0 /\ d.seg[p] = x.gen /\ x.num # 0 => p <= x.num)
  BY DEF Reflects
<1>5. /\ x.gen \in Nat /\ x.num \in Nat /\ y.gen \in Nat /\ y.num \in Nat
      /\ \A p \in 1..MaxSeg : d.seg[p] \in Nat /\ p \in Nat
  BY SegNat, StageFacts
<1>6. Timely(x, job) /\ Turns(x, job, y) OBVIOUS
<1>. HIDE DEF job, e, K
<1>7. e.mpd \in {NoMpd, y.mpd} BY <1>2, <1>4, <1>6 DEF Turns
<1>8. e.init = y.init \/ (e.init = 0 /\ e.mpd = NoMpd /\ Outgrown(K, 0, f))
  BY <1>2, <1>3, <1>4, <1>6 DEF Turns
<1>9. ASSUME NEW p \in 1..MaxSeg
      PROVE  e.seg[p] <= y.gen /\ (e.seg[p] # 0 /\ e.seg[p] = y.gen /\ y.num # 0 => p <= y.num)
  <2>1. CASE IsSeg(job)
    <3>1. job.gen \in Nat /\ job.n \in Nat
      <4>1. job.gen \in 1..MaxGen /\ job.n \in 1..MaxSeg BY <1>1, <2>1, SegFields
      <4>. QED BY <4>1
    <3>2. y.gen = job.gen /\ y.num = job.n BY <1>6, <2>1 DEF Turns
    <3>3. e.seg[p] = IF p = job.n THEN job.gen ELSE d.seg[p] BY <1>2, <2>1 DEF IsSeg, IsDel
    <3>4. IF x.num = 0 THEN job.gen > x.gen ELSE job.gen = x.gen /\ job.n = x.num + 1
      BY <1>6, <2>1 DEF Timely
    <3>. QED BY <1>4, <1>5, <3>1, <3>2, <3>3, <3>4
  <2>2. CASE ~IsSeg(job)
    <3>1. y.gen = x.gen /\ y.num \in {0, x.num} BY <1>6, <2>2 DEF Turns
    <3>2. e.seg[p] \in {0, d.seg[p]} BY <1>2, <2>2
    <3>. QED BY <1>4, <1>5, <3>1, <3>2
  <2>. QED BY <2>1, <2>2
<1>. QED BY <1>7, <1>8, <1>9 DEF Reflects, e, K, job

\* What a change of the directory does to the ages.
Ages(d, e, a, b) ==
    /\ \A n \in 1..MaxSeg : b[n] = IF e.seg[n] # d.seg[n] THEN 0 ELSE a[n]
    /\ b[InitFile] = IF e.init # d.init THEN 0 ELSE a[InitFile]
    /\ b[MpdFile] = IF e.mpd # d.mpd THEN 0 ELSE a[MpdFile]

LEMMA DoneYoung ==
    ASSUME NEW d \in DirType, NEW J \in Seq(JobType), J # <<>>, NEW f,
           NEW x \in Stage, NEW y \in Stage, Reflects(d, x, J, f), Sound(x),
           Timely(x, J[1]), Turns(x, J[1], y), NEW a, NEW b, Ages(d, After(d, J[1]), a, b),
           \A n \in 1..MaxSeg : a[n] \in Nat, a[MpdFile] \in Nat, Young(d, a, x)
    PROVE  Young(After(d, J[1]), b, y)
<1>. DEFINE job == J[1]
            e == After(d, job)
<1>1. job \in JobType OBVIOUS
<1>2. /\ e.mpd = IF IsMpd(job) THEN [gen |-> job.gen, segs |-> job.segs]
                 ELSE IF job = DelMpd THEN NoMpd ELSE d.mpd
      /\ \A n \in 1..MaxSeg :
            e.seg[n] = IF IsSeg(job) /\ n = job.n THEN job.gen
                       ELSE IF IsDel(job) /\ n = job.n THEN 0 ELSE d.seg[n]
  BY <1>1, AfterFields
<1>3. /\ \A n \in 1..MaxSeg : b[n] = IF e.seg[n] # d.seg[n] THEN 0 ELSE a[n]
      /\ b[MpdFile] = IF e.mpd # d.mpd THEN 0 ELSE a[MpdFile]
  BY DEF Ages
<1>4. /\ d.mpd \in {NoMpd, x.mpd}
      /\ \A p \in 1..MaxSeg :
            d.seg[p] <= x.gen /\ (d.seg[p] # 0 /\ d.seg[p] = x.gen /\ x.num # 0 => p <= x.num)
  BY DEF Reflects
<1>5. /\ x.gen \in Nat /\ x.num \in Nat /\ y.num \in Nat
      /\ \A p \in 1..MaxSeg : d.seg[p] \in Nat /\ p \in Nat
      /\ x.mpd.segs # <<>> => Newest(x.mpd) \in Nat
      /\ GopSecs \in Nat
  <2>1. \A p \in 1..MaxSeg : d.seg[p] \in Nat /\ p \in Nat BY SegNat
  <2>2. GopSecs \in Nat BY SpanFacts
  <2>. QED BY <2>1, <2>2, StageFacts
<1>6. Timely(x, job) /\ Turns(x, job, y) OBVIOUS
<1>7. x.num # 0 =>
         /\ x.num \in 1..MaxSeg /\ d.seg[x.num] # 0 /\ a[x.num] <= GopSecs
         /\ \A p \in 1..MaxSeg : d.seg[p] # 0 => a[x.num] <= a[p]
         /\ d.mpd # NoMpd => a[MpdFile] <= a[x.num] + Span(Newest(d.mpd), x.num)
  <2>1. x.num # 0 => x.num \in 1..MaxSeg
    <3>1. x.num \in 0..MaxSeg BY StageFacts
    <3>. QED BY <3>1, Limits
  <2>. QED BY <2>1 DEF Young
<1>. HIDE DEF job, e
<1>8. CASE IsSeg(job)
  <2>1. job.gen \in 1..MaxGen /\ job.n \in 1..MaxSeg /\ job.gen \in Nat /\ job.n \in Nat
        /\ job.gen # 0
    <3>1. job.gen \in 1..MaxGen /\ job.n \in 1..MaxSeg BY <1>1, <1>8, SegFields
    <3>. QED BY <3>1
  <2>2. y.num = job.n BY <1>6, <1>8 DEF Turns
  <2>3. IF x.num = 0 THEN job.gen > x.gen /\ x.mpd = NoMpd ELSE job.gen = x.gen /\ job.n = x.num + 1
    BY <1>6, <1>8 DEF Timely
  <2>4. e.seg[job.n] = job.gen /\ e.mpd = d.mpd BY <1>1, <1>2, <1>8, <2>1, JobKinds
  <2>5. d.seg[job.n] # job.gen BY <1>4, <1>5, <2>1, <2>3
  <2>6. b[job.n] = 0 BY <1>3, <2>1, <2>4, <2>5
  <2>7. \A p \in 1..MaxSeg : b[p] \in Nat BY <1>3
  <2>8. ASSUME e.mpd # NoMpd PROVE b[MpdFile] <= b[job.n] + Span(Newest(e.mpd), job.n)
    <3>1. d.mpd = x.mpd /\ x.mpd # NoMpd /\ x.num # 0 /\ job.n = x.num + 1
      BY <1>4, <2>3, <2>4, <2>8
    <3>2. x.mpd.segs # <<>> /\ Newest(x.mpd) <= x.num BY <3>1 DEF Sound
    <3>3. PICK n \in Nat : n = Newest(x.mpd) BY <1>5, <3>2
    <3>4. Span(n, job.n) = Span(n, x.num) + Span(x.num, job.n)
          /\ Span(n, x.num) \in Nat /\ Span(x.num, job.n) \in Nat /\ Span(x.num, job.n) >= GopSecs
      <4>1. PICK q \in Nat : q = x.num BY <1>5
      <4>2. n <= q /\ q < q + 1 /\ q <= q + 1 /\ q + 1 \in Nat BY <3>2, <3>3, <4>1
      <4>3. Span(n, q + 1) = Span(n, q) + Span(q, q + 1)
            /\ Span(n, q) \in Nat /\ Span(q, q + 1) \in Nat /\ Span(q, q + 1) >= GopSecs
        BY <4>2, SpanFacts
      <4>. QED BY <3>1, <4>1, <4>3
    <3>5. a[MpdFile] <= a[x.num] + Span(n, x.num) /\ a[x.num] <= GopSecs /\ a[x.num] \in Nat
      BY <1>7, <3>1, <3>3
    <3>6. b[MpdFile] = a[MpdFile] /\ Newest(e.mpd) = n BY <1>3, <2>4, <3>1, <3>3
    <3>. QED BY <1>5, <2>6, <3>4, <3>5, <3>6
  <2>9. \A p \in 1..MaxSeg : b[job.n] <= b[p] BY <2>6, <2>7
  <2>10. e.seg[y.num] # 0 /\ b[y.num] <= GopSecs BY <1>5, <2>1, <2>2, <2>4, <2>6
  <2>. QED BY <2>2, <2>8, <2>9, <2>10 DEF Young, e, job
<1>9. CASE IsMpd(job)
  <2>1. job.gen \in 1..MaxGen /\ job.segs \in Seq(1..MaxSeg) /\ ~IsSeg(job) /\ ~IsDel(job)
        /\ job # DelMpd
    BY <1>1, <1>9, JobKinds
  <2>. DEFINE m == [gen |-> job.gen, segs |-> job.segs]
  <2>2. m.gen = job.gen /\ m.segs = job.segs /\ e.mpd = m BY <1>2, <1>9
  <2>3. m # NoMpd BY <2>1, <2>2 DEF NoMpd
  <2>4. /\ x.num # 0 /\ job.segs[Len(job.segs)] = x.num
        /\ x.mpd # NoMpd => Newest(x.mpd) < x.num
    BY <1>6, <1>9 DEF Timely
  <2>5. y.num = x.num BY <1>6, <1>9, <2>1 DEF Turns, IsDel
  <2>6. Newest(m) = x.num BY <2>2, <2>4 DEF Newest
  <2>. HIDE DEF m
  <2>7. d.mpd # m
    <3>1. CASE d.mpd = NoMpd BY <2>3, <3>1
    <3>2. CASE d.mpd # NoMpd
      <4>1. d.mpd = x.mpd /\ Newest(x.mpd) < x.num BY <1>4, <2>4, <3>2
      <4>. QED BY <1>5, <2>6, <4>1
    <3>. QED BY <3>1, <3>2
  <2>8. b[MpdFile] = 0 BY <1>3, <2>2, <2>7
  <2>9. \A p \in 1..MaxSeg : e.seg[p] = d.seg[p] /\ b[p] = a[p] BY <1>2, <1>3, <2>1
  <2>10. Span(x.num, x.num) \in Nat
    <3>1. PICK q \in Nat : q = x.num BY <1>5
    <3>2. q <= q BY <3>1
    <3>. QED BY <3>1, <3>2, SpanFacts
  <2>11. a[x.num] \in Nat /\ x.num \in 1..MaxSeg BY <1>7, <2>4
  <2>12. b[MpdFile] <= b[x.num] + Span(Newest(e.mpd), x.num)
    BY <2>2, <2>6, <2>8, <2>9, <2>10, <2>11
  <2>13. e.seg[y.num] # 0 /\ b[y.num] <= GopSecs BY <1>7, <2>4, <2>5, <2>9, <2>11
  <2>14. \A p \in 1..MaxSeg : e.seg[p] # 0 => b[y.num] <= b[p] BY <1>7, <2>4, <2>5, <2>9, <2>11
  <2>. QED BY <2>5, <2>12, <2>13, <2>14 DEF Young, e, job
<1>10. CASE ~IsSeg(job) /\ ~IsMpd(job)
  <2>. SUFFICES ASSUME y.num # 0
                PROVE  /\ e.seg[y.num] # 0 /\ b[y.num] <= GopSecs
                       /\ \A p \in 1..MaxSeg : e.seg[p] # 0 => b[y.num] <= b[p]
                       /\ e.mpd # NoMpd => b[MpdFile] <= b[y.num] + Span(Newest(e.mpd), y.num)
    BY DEF Young, e, job
  <2>1. y.num = x.num /\ x.num # 0 /\ job # DelMpd /\ ~(IsDel(job) /\ job.n >= x.num)
    BY <1>6, <1>10 DEF Turns, IsDel
  <2>2. \A p \in 1..MaxSeg : e.seg[p] = IF IsDel(job) /\ p = job.n THEN 0 ELSE d.seg[p]
    BY <1>2, <1>10
  <2>3. e.mpd = d.mpd /\ b[MpdFile] = a[MpdFile] BY <1>2, <1>3, <1>10, <2>1
  <2>4. \A p \in 1..MaxSeg : e.seg[p] # 0 => e.seg[p] = d.seg[p] /\ b[p] = a[p] BY <1>3, <2>2
  <2>5. x.num \in 1..MaxSeg /\ e.seg[x.num] = d.seg[x.num] /\ b[x.num] = a[x.num]
    <3>1. IsDel(job) => job.n \in Nat
      <4>1. IsDel(job) => job.n \in 1..MaxSeg BY <1>1, <1>10, JobKinds
      <4>. QED BY <4>1
    <3>2. ~(IsDel(job) /\ x.num = job.n) BY <1>5, <2>1, <3>1
    <3>. QED BY <1>3, <1>7, <2>1, <2>2, <3>2
  <2>. QED BY <1>7, <2>1, <2>3, <2>4, <2>5
<1>. QED BY <1>8, <1>9, <1>10 DEF e, job

LEMMA DoneTracks ==
    ASSUME NEW d \in DirType, NEW J \in Seq(JobType), J # <<>>, NEW f, NEW c, NEW a, NEW b,
           Tracks(c, d, a, J, f), Ages(d, After(d, J[1]), a, b),
           \A n \in 1..MaxSeg : a[n] \in Nat, a[MpdFile] \in Nat
    PROVE  \E e : Tracks(e, After(d, J[1]), b, Tail(J), f)
<1>1. /\ Course(c, J) /\ Closes(c, J, f) /\ Reflects(d, c[0], J, f) /\ Young(d, a, c[0])
      /\ f.live => Reaches(c[Len(J)], f)
  BY DEF Tracks
<1>2. /\ c[0] \in Stage /\ c[1] \in Stage /\ Sound(c[0]) /\ Sound(c[1])
      /\ Timely(c[0], J[1]) /\ Turns(c[0], J[1], c[1])
  BY <1>1, CourseTail
<1>3. PICK e : /\ Course(e, Tail(J)) /\ e[0] = c[1] /\ e[Len(Tail(J))] = c[Len(J)]
               /\ \A g : Closes(c, J, g) => Closes(e, Tail(J), g)
  BY <1>1, CourseTail
<1>4. Reflects(After(d, J[1]), c[1], Tail(J), f) BY <1>1, <1>2, DoneReflects
<1>5. Young(After(d, J[1]), b, c[1]) BY <1>1, <1>2, DoneYoung
<1>. QED BY <1>1, <1>3, <1>4, <1>5 DEF Tracks

-----------------------------------------------------------------------------
\* The packager's and its writer's steps.
LEMMA AgesAfter ==
    ASSUME FilesTypeOK, Inv, Packaging
    PROVE  /\ Ages(dir, dir', age, age') /\ (dir' = dir => age' = age)
           /\ sweep'.phase = sweep.phase /\ sweep'.ticks = sweep.ticks
           /\ feed.live \/ (~feed'.live /\ jobs' # jobs) => late' = late /\ hit' = hit
<1>. DEFINE changed == {f \in File : Content(dir', f) # Content(dir, f)}
            s == IF sweep.phase = "scan" THEN Noted(changed) ELSE sweep
<1>1. age' = IF changed = {} THEN age ELSE [f \in File |-> IF f \in changed THEN 0 ELSE age[f]]
  BY DEF Packaging
<1>2. InitFile \in File /\ MpdFile \in File /\ InitFile # MpdFile
  BY Limits DEF InitFile, MpdFile, File
<1>3. InitFile \in changed <=> dir'.init # dir.init BY <1>2 DEF Content
<1>4. MpdFile \in changed <=> dir'.mpd # dir.mpd BY <1>2 DEF Content
<1>5. sweep \in SweepType BY DEF Inv, CacheTypeOK, SweepType, Phases
<1>6. s \in SweepType /\ s.phase = sweep.phase /\ s.ticks = sweep.ticks
  BY <1>5 DEF Noted, SweepType
<1>7. sweep' = Calls(s) BY DEF Packaging
<1>8. dir' = dir => changed = {} OBVIOUS
<1>. HIDE DEF changed, s
<1>9. sweep'.phase = s.phase /\ sweep'.ticks = s.ticks BY <1>6, <1>7 DEF Calls, SweepType
<1>10. age'[InitFile] = IF dir'.init # dir.init THEN 0 ELSE age[InitFile] BY <1>1, <1>2, <1>3
<1>11. age'[MpdFile] = IF dir'.mpd # dir.mpd THEN 0 ELSE age[MpdFile] BY <1>1, <1>2, <1>4
<1>12. \A n \in 1..MaxSeg : age'[n] = IF dir'.seg[n] # dir.seg[n] THEN 0 ELSE age[n]
  BY AgeChanges
<1>13. feed.live \/ (~feed'.live /\ jobs' # jobs) => late' = late /\ hit' = hit
  <2>1. hit \in BOOLEAN BY DEF Inv, CacheTypeOK
  <2>. QED BY <2>1 DEF Packaging, Wiping
<1>. QED BY <1>1, <1>6, <1>8, <1>9, <1>10, <1>11, <1>12, <1>13 DEF Ages

LEMMA AgeNats ==
    ASSUME FilesTypeOK, Inv
    PROVE  /\ \A n \in 1..MaxSeg : age[n] \in Nat
           /\ age[MpdFile] \in Nat /\ age[InitFile] \in Nat
           /\ sweep.ticks \in Nat /\ sweep.ticks <= SweepTicks
<1>1. InitFile \in File /\ MpdFile \in File BY Limits DEF InitFile, MpdFile, File
<1>2. \A f \in File : age[f] \in Nat
  <2>1. \A f \in File : age[f] \in 0..(EffectiveTtl + SweepTicks + 1) BY AgeFacts
  <2>. QED BY <2>1
<1>. QED BY <1>1, <1>2, AgeFacts

\* A call of the packager that adds the jobs K.
Leading(K, calm) ==
    \A x \in Stage : Sound(x) /\ Reaches(x, feed) =>
        \E y : /\ Runs(x, K, y, calm) /\ Reaches(y, feed')
               /\ Seals(K, y, feed', calm)

LEMMA MoreTracked ==
    ASSUME FilesTypeOK, Inv, Tracked, Decided, Packaging, feed.live,
           NEW K \in Seq(JobType), NEW calm \in BOOLEAN, Joins(feed, K, feed'), Leading(K, calm),
           jobs' = jobs \o K, dir' = dir
    PROVE  Tracked' /\ Decided'
<1>1. age' = age /\ late' = late /\ hit' = hit /\ sweep'.phase = sweep.phase /\ sweep'.ticks = sweep.ticks
  BY AgesAfter
<1>2. Clean' <=> Clean BY <1>1 DEF Clean
<1>3. jobs \in Seq(JobType) BY DEF FilesTypeOK
<1>4. 0 \in 0..Len(jobs) /\ Len(jobs) \in 0..Len(jobs) BY <1>3
<1>5. Outgrown(jobs, 0, feed) => Outgrown(jobs', 0, feed') BY <1>3, <1>4, OutgrownJoin
<1>6. ASSUME Clean PROVE \E e : Tracks(e, dir', age', jobs', feed')
  <2>1. PICK c : Tracks(c, dir, age, jobs, feed) BY <1>6 DEF Tracked
  <2>2. /\ Course(c, jobs) /\ Closes(c, jobs, feed) /\ Reflects(dir, c[0], jobs, feed)
        /\ Reaches(c[Len(jobs)], feed) /\ Young(dir, age, c[0])
    BY <2>1 DEF Tracks
  <2>3. c[Len(jobs)] \in Stage /\ Sound(c[Len(jobs)]) BY <1>4, <2>2 DEF Course
  <2>4. PICK y : /\ Runs(c[Len(jobs)], K, y, calm) /\ Reaches(y, feed')
                 /\ Seals(K, y, feed', calm)
    BY <2>2, <2>3 DEF Leading
  <2>5. PICK e : /\ Course(e, jobs \o K) /\ Closes(e, jobs \o K, feed')
                 /\ e[0] = c[0] /\ e[Len(jobs \o K)] = y
    BY <1>3, <2>2, <2>4, CourseJoin
  <2>6. Reflects(dir', e[0], jobs', feed') BY <1>5, <2>2, <2>5 DEF Reflects
  <2>7. Young(dir', age', e[0]) BY <1>1, <2>2, <2>5
  <2>. QED BY <2>4, <2>5, <2>6, <2>7 DEF Tracks
<1>7. Decided' BY <1>1, <1>2, <1>5 DEF Decided
<1>. QED BY <1>2, <1>6, <1>7 DEF Tracked

LEMMA OpenTracked ==
    ASSUME FilesTypeOK, Inv, Packaging, Open
    PROVE  Tracked' /\ Decided'
<1>. SUFFICES ASSUME ~dir'.lost PROVE Tracked' /\ Decided' BY DEF Tracked, Decided, Clean
<1>0. dir' = EmptyDir
  <2>1. dir \in DirType BY DEF FilesTypeOK
  <2>2. [dir EXCEPT !.lost = TRUE].lost BY <2>1, LostFacts
  <2>. QED BY <2>2 DEF Open
<1>1. PICK g \in FirstGen : feed' = New(g) /\ dir' = EmptyDir /\ jobs' = <<>>
  BY <1>0, OpenFacts DEF Open, FilesTypeOK
<1>2. g \in 1..MaxGen /\ g # 0 /\ g \in Nat
  <2>1. g \in 1..MaxGen BY FilesAssumption
  <2>. QED BY <2>1
<1>3. feed'.live /\ feed'.gen = g /\ ~feed'.ready /\ feed'.next = 1 BY <1>1 DEF New, Off
<1>4. dir'.init = 0 /\ dir'.mpd = NoMpd /\ \A n \in 1..MaxSeg : dir'.seg[n] = 0
  BY <1>1 DEF EmptyDir
<1>. DEFINE x == St(0, NoMpd, 0, 0)
            c == [i \in 0..0 |-> x]
            J == <<>>
<1>5. x \in Stage /\ x.init = 0 /\ x.mpd = NoMpd /\ x.gen = 0 /\ x.num = 0
  <2>1. NoMpd \in [gen : 0..MaxGen, segs : Seq(1..MaxSeg)] /\ 0 \in 0..MaxSeg /\ 0 \in 0..MaxGen
    BY FilesAssumption, DirectoryAssumption DEF NoMpd
  <2>. QED BY <2>1, StFields
<1>. HIDE DEF x
<1>6. Len(J) = 0 /\ jobs' = J BY <1>1
<1>7. c \in [0..0 -> Stage] /\ c[0] = x /\ \A i \in 0..0 : c[i] = x BY <1>5
<1>. HIDE DEF c, J
<1>8. Sound(x) /\ ~Closing(x) BY <1>5 DEF Sound, Closing
<1>9. Course(c, J) BY <1>6, <1>7, <1>8 DEF Course
<1>10. Closes(c, J, feed') BY <1>6, <1>7, <1>8 DEF Closes
<1>11. Reflects(dir', x, J, feed') BY <1>4, <1>5 DEF Reflects
<1>12. Reaches(x, feed') BY <1>2, <1>3, <1>5 DEF Reaches
<1>13. Young(dir', age', x) BY <1>5 DEF Young
<1>14. Tracks(c, dir', age', jobs', feed') BY <1>6, <1>7, <1>9, <1>10, <1>11, <1>12, <1>13 DEF Tracks
<1>15. Outgrown(jobs', 0, feed') BY <1>3, <1>6 DEF Outgrown
<1>. QED BY <1>4, <1>14, <1>15 DEF Tracked, Decided

LEMMA EndTracked ==
    ASSUME FilesTypeOK, Inv, Tracked, Decided, Packaging, End
    PROVE  Tracked' /\ Decided'
<1>1. jobs \in Seq(JobType) BY DEF FilesTypeOK
<1>2. feed.live /\ feed' = Off /\ dir' = dir BY DEF End
<1>3. PICK k \in 0..Len(jobs) : jobs' = SubSeq(jobs, 1, k)
  <2>1. jobs' = jobs \/ \E k \in 0..Len(jobs) : jobs' = SubSeq(jobs, 1, k) BY DEF End
  <2>2. jobs = SubSeq(jobs, 1, Len(jobs)) /\ Len(jobs) \in 0..Len(jobs) BY <1>1
  <2>. QED BY <2>1, <2>2
<1>4. age' = age /\ late' = late /\ hit' = hit /\ sweep'.phase = sweep.phase /\ sweep'.ticks = sweep.ticks
  BY <1>2, AgesAfter
<1>5. Clean' <=> Clean BY <1>2, <1>4 DEF Clean
<1>6. Outgrown(jobs, 0, feed) => Outgrown(jobs', 0, feed') BY <1>1, <1>2, <1>3, OutgrownCut
<1>7. ASSUME Clean PROVE \E e : Tracks(e, dir', age', jobs', feed')
  <2>1. PICK c : Tracks(c, dir, age, jobs, feed) BY <1>7 DEF Tracked
  <2>2. /\ Course(c, jobs) /\ Closes(c, jobs, feed) /\ Reflects(dir, c[0], jobs, feed)
        /\ Young(dir, age, c[0])
    BY <1>2, <2>1 DEF Tracks
  <2>3. PICK e : Course(e, jobs') /\ e[0] = c[0] /\ Closes(e, jobs', feed')
    BY <1>1, <1>2, <1>3, <2>2, CourseCut
  <2>4. Reflects(dir', e[0], jobs', feed') BY <1>2, <1>6, <2>2, <2>3 DEF Reflects
  <2>5. Young(dir', age', e[0]) BY <1>2, <1>4, <2>2, <2>3
  <2>6. ~feed'.live BY <1>2, OffFacts
  <2>. QED BY <2>3, <2>4, <2>5, <2>6 DEF Tracks
<1>8. Decided' BY <1>2, <1>4, <1>5, <1>6 DEF Decided
<1>. QED BY <1>5, <1>7, <1>8 DEF Tracked

LEMMA DoTracked ==
    ASSUME FilesTypeOK, Inv, Tracked, Decided, Packaging, Do
    PROVE  Tracked' /\ Decided'
<1>1. jobs \in Seq(JobType) /\ dir \in DirType BY DEF FilesTypeOK
<1>2. jobs # <<>> /\ dir' = After(dir, jobs[1]) /\ jobs' = Tail(jobs) /\ feed' = feed
  BY <1>1 DEF Do
<1>3. jobs[1] \in JobType BY <1>1, <1>2
<1>4. dir'.lost = dir.lost BY <1>1, <1>2, <1>3, AfterTyped
<1>5. /\ Ages(dir, dir', age, age') /\ late' = late /\ hit' = hit
      /\ sweep'.phase = sweep.phase /\ sweep'.ticks = sweep.ticks
  <2>1. jobs' # jobs
    <3>1. Len(Tail(jobs)) # Len(jobs) BY <1>1, <1>2
    <3>. QED BY <1>2, <3>1
  <2>. QED BY <1>2, <2>1, AgesAfter
<1>6. Clean' <=> Clean BY <1>4, <1>5 DEF Clean
<1>7. ASSUME Clean PROVE \E e : Tracks(e, dir', age', jobs', feed')
  <2>1. PICK c : Tracks(c, dir, age, jobs, feed) BY <1>7 DEF Tracked
  <2>. QED BY <1>1, <1>2, <1>5, <2>1, AgeNats, DoneTracks
<1>8. ASSUME Clean, sweep.phase \in {"drop_mpd", "drop_init"}
      PROVE  /\ age'[InitFile] <= sweep.ticks \/ Outgrown(jobs', 0, feed)
             /\ sweep.phase = "drop_init" => dir'.mpd = NoMpd \/ age'[InitFile] <= sweep.ticks
  <2>1. age'[InitFile] = IF dir'.init # dir.init THEN 0 ELSE age[InitFile] BY <1>5 DEF Ages
  <2>2. age[InitFile] \in Nat /\ sweep.ticks \in Nat BY AgeNats
  <2>3. CASE age[InitFile] <= sweep.ticks BY <2>1, <2>2, <2>3
  <2>4. CASE ~(age[InitFile] <= sweep.ticks)
    <3>1. /\ Outgrown(jobs, 0, feed)
          /\ sweep.phase = "drop_init" => dir.mpd = NoMpd
      BY <1>8, <2>4 DEF Decided
    <3>2. /\ ~IsMpd(jobs[1])
          /\ ~IsInit(jobs[1]) => Outgrown(jobs', 0, feed)
      BY <1>1, <1>2, <3>1, OutgrownTail
    <3>3. sweep.phase = "drop_init" => dir'.mpd = NoMpd
      BY <1>1, <1>2, <1>3, <3>1, <3>2, AfterFields
    <3>4. ASSUME IsInit(jobs[1]) PROVE age'[InitFile] = 0
      <4>1. PICK c : Tracks(c, dir, age, jobs, feed) BY <1>8 DEF Tracked
      <4>2. Course(c, jobs) /\ Reflects(dir, c[0], jobs, feed) BY <4>1 DEF Tracks
      <4>3. c[0] \in Stage /\ Timely(c[0], jobs[1]) BY <1>1, <1>2, <4>2, CourseTail
      <4>4. jobs[1].gen > c[0].init /\ dir.init \in {0, c[0].init} BY <3>4, <4>2, <4>3 DEF Timely, Reflects
      <4>5. jobs[1].gen \in 1..MaxGen BY <1>3, <3>4, JobKinds
      <4>6. c[0].init \in Nat BY <4>3, StageFacts
      <4>7. dir'.init = jobs[1].gen BY <1>1, <1>2, <1>3, <3>4, AfterFields
      <4>. QED BY <2>1, <4>4, <4>5, <4>6, <4>7
    <3>. QED BY <2>2, <3>2, <3>3, <3>4
  <2>. QED BY <2>3, <2>4
<1>9. Decided' BY <1>2, <1>5, <1>6, <1>8 DEF Decided
<1>. QED BY <1>6, <1>7, <1>9 DEF Tracked

LEMMA PackagingTracked ==
    ASSUME FilesTypeOK, Inv, Tracked, Decided, Packaging
    PROVE  Tracked' /\ Decided'
<1>1. jobs \in Seq(JobType) /\ dir \in DirType /\ feed \in FeedType BY DEF FilesTypeOK
<1>2. CASE Prepare
  <2>. DEFINE f == [feed EXCEPT !.ready = TRUE]
              K == <<InitJob(feed.gen)>>
  <2>1. Feeds(feed) /\ feed.live /\ ~feed.ready /\ feed' = f /\ dir' = dir
    BY <1>2 DEF Prepare, Goes, FilesTypeOK, Feeds
  <2>2. jobs' = jobs \o K BY <1>1, <1>2 DEF Prepare
  <2>3. K \in Seq(JobType) BY <2>1, PrepareMore
  <2>4. Joins(feed, K, f) /\ Leading(K, TRUE)
    <3>1. ASSUME NEW x \in Stage, Sound(x), Reaches(x, feed)
          PROVE  \E y : Runs(x, K, y, TRUE) /\ Reaches(y, f)
      BY <2>1, <3>1, PrepareRuns
    <3>2. Joins(feed, K, f) BY PrepareJoins
    <3>. HIDE DEF f, K
    <3>. QED BY <2>1, <3>1, <3>2 DEF Leading, Seals
  <2>. HIDE DEF f, K
  <2>. QED BY <2>1, <2>2, <2>3, <2>4, MoreTracked
<1>3. ASSUME NEW k \in 1..MaxBatch, Add(k) PROVE Tracked' /\ Decided'
  <2>. DEFINE f == [feed EXCEPT !.next = @ + k]
              K == Segments(k) \o (Deletes(Slides(k)) \o <<MpdJob(feed.gen, Window(feed.next + k))>>)
  <2>1. /\ Feeds(feed) /\ feed.live /\ feed.ready /\ k \in Nat /\ k # 0 /\ k <= MaxBatch
        /\ feed.next + k <= MaxSeg + 1
        /\ jobs' = jobs \o K /\ feed' = f /\ dir' = dir
    BY <1>3, AddJobs
  <2>2. K \in Seq(JobType) BY <2>1, AddMore
  <2>3. Leading(K, TRUE)
    <3>1. ASSUME NEW x \in Stage, Sound(x), Reaches(x, feed)
          PROVE  \E y : Runs(x, K, y, TRUE) /\ Reaches(y, f)
      BY <2>1, <3>1, AddRuns
    <3>. HIDE DEF f, K
    <3>. QED BY <2>1, <3>1 DEF Leading, Seals
  <2>. HIDE DEF f, K
  <2>4. Joins(feed, K, feed') BY <2>1 DEF Joins
  <2>. QED BY <2>1, <2>2, <2>3, <2>4, MoreTracked
<1>4. ASSUME NEW k \in 0..MaxBatch, NEW ready \in BOOLEAN, Rotate(k, ready)
      PROVE  Tracked' /\ Decided'
  <2>. DEFINE old == Run(First(feed.next), feed.next + k - First(feed.next))
              L == IF ready THEN <<InitJob(feed.gen + 1)>> ELSE <<>>
              K == (Segments(k) \o (Deletes(old \o old) \o <<DelMpd>>)) \o L
              f == [New(feed.gen + 1) EXCEPT !.ready = ready]
  <2>1. /\ Feeds(feed) /\ feed.live /\ k \in Nat /\ feed.gen < MaxGen /\ k <= MaxBatch
        /\ feed.next + k <= MaxSeg + 1
        /\ jobs' = jobs \o K /\ feed' = f /\ dir' = dir
    <3>1. k <= MaxBatch OBVIOUS
    <3>2. /\ Feeds(feed) /\ feed.live /\ k \in Nat /\ feed.gen < MaxGen
          /\ feed.next + k <= MaxSeg + 1
          /\ jobs' = jobs \o K /\ feed' = f /\ dir' = dir
      BY <1>4, RotateJobs
    <3>. QED BY <3>1, <3>2
  <2>2. K \in Seq(JobType) BY <2>1, RotateMore
  <2>3. ASSUME NEW x \in Stage, Sound(x), Reaches(x, feed)
        PROVE  \E y : Runs(x, K, y, FALSE) /\ Reaches(y, f) /\ y.mpd = NoMpd
    BY <2>1, <2>3, RotateRuns
  <2>4. Joins(feed, K, f) /\ Ends(K, f) BY <2>1, RotateJoins
  <2>. HIDE DEF f, K
  <2>5. Leading(K, FALSE) BY <2>1, <2>3, <2>4 DEF Leading, Seals
  <2>. QED BY <2>1, <2>2, <2>4, <2>5, MoreTracked
<1>5. CASE Fail
  <2>1. ~Clean' BY <1>1, <1>5 DEF Fail, Clean, DirType
  <2>. QED BY <2>1 DEF Tracked, Decided
<1>6. CASE Wipe
  <2>1. dir'.lost BY <1>1, <1>6, FewerFacts DEF Wipe
  <2>. QED BY <2>1 DEF Tracked, Decided, Clean
<1>. QED BY <1>2, <1>3, <1>4, <1>5, <1>6, OpenTracked, EndTracked, DoTracked DEF Packaging, FilesNext

-----------------------------------------------------------------------------
\* Time passes, and the sweeps' steps.
LEMMA PatientFacts ==
    ASSUME Patient
    PROVE  /\ GopSecs \in Nat \ {0} /\ EffectiveTtl \in Nat /\ SweepTicks \in Nat
           /\ GopSecs <= EffectiveTtl /\ SweepTicks <= EffectiveTtl
           /\ \A n \in Nat, m \in Nat : n <= m /\ m <= n + MaxBatch => GopSecs + Span(n, m) <= EffectiveTtl
<1>1. GopSecs \in Nat \ {0} /\ EffectiveTtl \in Nat /\ SweepTicks \in Nat /\ MaxBatch \in Nat
  BY Limits, SpanFacts, FilesAssumption
<1>2. (MaxBatch + 1) * GopSecs = MaxBatch * GopSecs + GopSecs /\ MaxBatch * GopSecs \in Nat BY <1>1
<1>3. MaxBatch * GopSecs + GopSecs <= EffectiveTtl /\ SweepTicks <= EffectiveTtl
  BY <1>2 DEF Patient
<1>4. ASSUME NEW n \in Nat, NEW m \in Nat, n <= m, m <= n + MaxBatch
      PROVE  GopSecs + Span(n, m) <= EffectiveTtl
  <2>1. PICK d \in Nat : d = m - n BY <1>4
  <2>2. PICK e \in Nat : MaxBatch = d + e
    <3>1. MaxBatch - d \in Nat /\ MaxBatch = d + (MaxBatch - d) BY <1>1, <1>4, <2>1
    <3>. QED BY <3>1
  <2>3. (d + e) * GopSecs = d * GopSecs + e * GopSecs /\ d * GopSecs \in Nat /\ e * GopSecs \in Nat
    BY <1>1
  <2>4. Span(n, m) = d * GopSecs BY <2>1 DEF Span
  <2>. QED BY <1>1, <1>3, <2>2, <2>3, <2>4
<1>. QED BY <1>1, <1>2, <1>3, <1>4

LEMMA PassTracked ==
    ASSUME Patient, FilesTypeOK, Inv, Tracked, Decided, Pass
    PROVE  Tracked' /\ Decided'
<1>1. dir' = dir /\ jobs' = jobs /\ feed' = feed /\ hit' = hit BY DEF Pass, fileVars
<1>2. late' = (late \/ Overdue \/ Stranded) /\ late \in BOOLEAN BY DEF Pass, Inv, CacheTypeOK
<1>3. Clean' => Clean /\ ~Overdue /\ ~Stranded BY <1>1, <1>2 DEF Clean, Overdue, Stranded
<1>4. ASSUME NEW f \in File
      PROVE  /\ age[f] \in Nat /\ age'[f] \in Nat /\ age'[f] <= age[f] + 1
             /\ Present(dir, f) => age'[f] = IF age[f] > EffectiveTtl + SweepTicks THEN age[f] ELSE age[f] + 1
  <2>1. age[f] \in Nat
    <3>1. age[f] \in 0..(EffectiveTtl + SweepTicks + 1) BY AgeFacts
    <3>. QED BY <3>1
  <2>2. age'[f] = IF ~Present(dir, f) THEN 0
                  ELSE IF age[f] > EffectiveTtl + SweepTicks THEN age[f] ELSE age[f] + 1
    BY DEF Pass
  <2>. QED BY <2>1, <2>2
<1>5. InitFile \in File /\ MpdFile \in File /\ \A n \in 1..MaxSeg : n \in File
  BY Limits DEF InitFile, MpdFile, File
<1>6. \A n \in 1..MaxSeg : Present(dir, n) <=> dir.seg[n] # 0
  BY FilesTypeOK, Inv, AgeFacts DEF Present
<1>7. ASSUME Clean', NEW x \in Stage, Sound(x), dir.mpd \in {NoMpd, x.mpd},
             Young(dir, age, x), feed.live
      PROVE  Young(dir, age', x)
  <2>. SUFFICES ASSUME x.num # 0
                PROVE  /\ dir.seg[x.num] # 0 /\ age'[x.num] <= GopSecs
                       /\ \A p \in 1..MaxSeg : dir.seg[p] # 0 => age'[x.num] <= age'[p]
                       /\ dir.mpd # NoMpd => age'[MpdFile] <= age'[x.num] + Span(Newest(dir.mpd), x.num)
    BY DEF Young
  <2>. DEFINE s == Span(Newest(dir.mpd), x.num)
  <2>1. PICK n \in 1..MaxSeg : n = x.num
    <3>1. x.num \in 0..MaxSeg BY StageFacts
    <3>. QED BY <3>1, Limits
  <2>2. /\ dir.seg[n] # 0 /\ age[n] <= GopSecs
        /\ \A p \in 1..MaxSeg : dir.seg[p] # 0 => age[n] <= age[p]
        /\ dir.mpd # NoMpd => age[MpdFile] <= age[n] + s
    BY <1>7, <2>1 DEF Young
  <2>. HIDE DEF s
  <2>3. PICK p \in 1..MaxSeg : dir.seg[p] # 0 /\ ~(age[p] >= GopSecs)
    <3>1. n \in Segs BY <1>6, <2>2 DEF Segs
    <3>2. PICK p \in Segs : ~(age[p] >= GopSecs) BY <1>3, <1>7, <3>1 DEF Overdue
    <3>. QED BY <1>6, <3>2 DEF Segs
  <2>4. age[n] < GopSecs /\ age[n] \in Nat /\ GopSecs <= EffectiveTtl /\ GopSecs \in Nat
        /\ EffectiveTtl \in Nat /\ SweepTicks \in Nat
    <3>1. age[n] \in Nat /\ age[p] \in Nat BY <1>4, <1>5
    <3>. QED BY <2>2, <2>3, <3>1, PatientFacts
  <2>5. age'[n] = age[n] + 1 BY <1>4, <1>5, <1>6, <2>2, <2>4
  <2>6. \A q \in 1..MaxSeg : dir.seg[q] # 0 => age'[n] <= age'[q]
    <3>. SUFFICES ASSUME NEW q \in 1..MaxSeg, dir.seg[q] # 0 PROVE age'[n] <= age'[q] OBVIOUS
    <3>1. /\ age[q] \in Nat /\ age[n] <= age[q]
          /\ age'[q] = IF age[q] > EffectiveTtl + SweepTicks THEN age[q] ELSE age[q] + 1
      BY <1>4, <1>5, <1>6, <2>2
    <3>. QED BY <2>4, <2>5, <3>1
  <2>7. ASSUME dir.mpd # NoMpd PROVE age'[MpdFile] <= age'[n] + s
    <3>1. age[MpdFile] \in Nat /\ age'[MpdFile] \in Nat /\ age'[MpdFile] <= age[MpdFile] + 1
      BY <1>4, <1>5
    <3>2. age[MpdFile] <= age[n] + s BY <2>2, <2>7
    <3>3. s \in Nat
      <4>1. dir.mpd = x.mpd /\ x.mpd.segs # <<>> /\ Newest(x.mpd) <= x.num
        BY <1>7, <2>7 DEF Sound
      <4>2. Newest(x.mpd) \in Nat /\ x.num \in Nat BY <4>1, StageFacts
      <4>. QED BY <4>1, <4>2, SpanFacts DEF s
    <3>. QED BY <2>4, <2>5, <3>1, <3>2, <3>3
  <2>8. age'[n] <= GopSecs BY <2>4, <2>5
  <2>. QED BY <2>1, <2>2, <2>6, <2>7, <2>8 DEF s
<1>8. ASSUME Clean' PROVE \E e : Tracks(e, dir', age', jobs', feed')
  <2>1. PICK c : Tracks(c, dir, age, jobs, feed) BY <1>3, <1>8 DEF Tracked
  <2>2. jobs # <<>> => feed.live BY <1>3, <1>8 DEF Stranded
  <2>3. c[0] \in Stage /\ Sound(c[0]) /\ dir.mpd \in {NoMpd, c[0].mpd}
    <3>1. 0 \in 0..Len(jobs) BY DEF FilesTypeOK
    <3>. QED BY <2>1, <3>1 DEF Tracks, Course, Reflects
  <2>. QED BY <1>1, <1>7, <1>8, <2>1, <2>2, <2>3 DEF Tracks
<1>9. ASSUME Clean', sweep'.phase \in {"drop_mpd", "drop_init"}
      PROVE  /\ age'[InitFile] <= sweep'.ticks \/ Outgrown(jobs', 0, feed')
             /\ sweep'.phase = "drop_init" => dir'.mpd = NoMpd \/ age'[InitFile] <= sweep'.ticks
  <2>1. sweep \in SweepType BY DEF Inv, CacheTypeOK, SweepType, Phases
  <2>2. sweep'.phase = sweep.phase /\ sweep'.ticks = sweep.ticks + 1
    BY <1>9, <2>1 DEF Pass, SweepType
  <2>3. age[InitFile] <= sweep.ticks => age'[InitFile] <= sweep'.ticks
    <3>1. sweep.ticks \in Nat BY AgeFacts
    <3>. QED BY <1>4, <1>5, <2>2, <3>1
  <2>. QED BY <1>1, <1>3, <1>9, <2>2, <2>3 DEF Decided
<1>. QED BY <1>8, <1>9 DEF Tracked, Decided

LEMMA RemovesFields ==
    ASSUME FilesTypeOK, Inv, NEW f \in File, Removes(f)
    PROVE  /\ dir'.init = (IF f = InitFile THEN 0 ELSE dir.init)
           /\ dir'.mpd = (IF f = MpdFile THEN NoMpd ELSE dir.mpd)
           /\ dir'.lost = dir.lost
           /\ \A g \in File : age'[g] = IF g = f THEN 0 ELSE age[g]
           /\ jobs' = jobs /\ feed' = feed /\ late' = late
           /\ ~hit' => ~hit /\ age[f] > EffectiveTtl
<1>1. dir \in DirType BY DEF FilesTypeOK
<1>2. age \in [File -> 0..(EffectiveTtl + SweepTicks + 1)] /\ hit \in BOOLEAN BY DEF Inv, CacheTypeOK
<1>3. InitFile # MpdFile BY Limits DEF InitFile, MpdFile
<1>4. dir'.init = (IF f = InitFile THEN 0 ELSE dir.init)
  BY <1>1, <1>3 DEF Removes, DirType
<1>5. dir'.mpd = (IF f = MpdFile THEN NoMpd ELSE dir.mpd)
  BY <1>1, <1>3 DEF Removes, DirType
<1>6. dir'.lost = dir.lost
  BY <1>1, <1>3 DEF Removes, DirType
<1>7. age' = [age EXCEPT ![f] = 0] BY DEF Removes
<1>8. \A g \in File : age'[g] = IF g = f THEN 0 ELSE age[g] BY <1>2, <1>7
<1>9. ~hit' => ~hit /\ age[f] > EffectiveTtl
  <2>1. age[f] \in Nat /\ EffectiveTtl \in Nat
    <3>1. age[f] \in 0..(EffectiveTtl + SweepTicks + 1) BY <1>2
    <3>. QED BY <3>1, Limits
  <2>2. ~hit' => ~hit /\ ~(age[f] <= EffectiveTtl) BY <1>2, Zenon DEF Removes
  <2>. QED BY <2>1, <2>2
<1>. QED BY <1>4, <1>5, <1>6, <1>8, <1>9 DEF Removes

\* A file that a sweep may take, when it is old and no packager needs it.
LEMMA RemovesTracked ==
    ASSUME Patient, PacedInv, Tracked, NEW f \in File, Removes(f),
           Clean => f # InitFile \/ age[f] <= EffectiveTtl \/ (dir.mpd = NoMpd /\ Outgrown(jobs, 0, feed))
    PROVE  Tracked' /\ (Clean' => Clean)
<1>1. FilesTypeOK /\ Inv /\ Paced BY DEF PacedInv
<1>2. /\ dir'.init = (IF f = InitFile THEN 0 ELSE dir.init)
      /\ dir'.mpd = (IF f = MpdFile THEN NoMpd ELSE dir.mpd)
      /\ dir'.lost = dir.lost
      /\ \A g \in File : age'[g] = IF g = f THEN 0 ELSE age[g]
      /\ jobs' = jobs /\ feed' = feed /\ late' = late
      /\ ~hit' => ~hit /\ age[f] > EffectiveTtl
  BY <1>1, RemovesFields
<1>3. /\ \A n \in 1..MaxSeg : n # f => dir'.seg[n] = dir.seg[n] /\ age'[n] = age[n]
      /\ f \in 1..MaxSeg => dir'.seg[f] = 0
  BY <1>1, RemovesPaced
<1>4. Clean' => Clean /\ age[f] > EffectiveTtl BY <1>2 DEF Clean
<1>5. age[f] \in Nat /\ EffectiveTtl \in Nat /\ MpdFile \in File /\ InitFile # MpdFile
  <2>1. age[f] \in 0..(EffectiveTtl + SweepTicks + 1) BY <1>1, AgeFacts
  <2>2. MpdFile \in File /\ InitFile # MpdFile BY Limits DEF InitFile, MpdFile, File
  <2>. QED BY <2>1, <2>2, Limits
<1>6. ASSUME Clean' PROVE \E e : Tracks(e, dir', age', jobs', feed')
  <2>1. PICK c : Tracks(c, dir, age, jobs, feed) BY <1>4, <1>6 DEF Tracked
  <2>2. PICK x \in Stage : x = c[0]
    <3>1. 0 \in 0..Len(jobs) BY <1>1 DEF FilesTypeOK
    <3>. QED BY <2>1, <3>1 DEF Tracks, Course
  <2>3. Reflects(dir, x, jobs, feed) BY <2>1, <2>2 DEF Tracks
  <2>4. \A p \in 1..MaxSeg : dir'.seg[p] = 0 \/ (p # f /\ dir'.seg[p] = dir.seg[p] /\ age'[p] = age[p])
    BY <1>3
  <2>5. Reflects(dir', x, jobs, feed)
    <3>1. dir'.mpd \in {NoMpd, x.mpd} BY <1>2, <2>3 DEF Reflects
    <3>2. dir'.init = x.init \/ (dir'.init = 0 /\ dir'.mpd = NoMpd /\ Outgrown(jobs, 0, feed))
      <4>1. CASE f = InitFile
        <5>1. dir.mpd = NoMpd /\ Outgrown(jobs, 0, feed) BY <1>4, <1>5, <1>6, <4>1
        <5>. QED BY <1>2, <1>5, <4>1, <5>1
      <4>2. CASE f # InitFile BY <1>2, <2>3, <4>2 DEF Reflects
      <4>. QED BY <4>1, <4>2
    <3>3. ASSUME NEW p \in 1..MaxSeg
          PROVE  dir'.seg[p] <= x.gen
                 /\ (dir'.seg[p] # 0 /\ dir'.seg[p] = x.gen /\ x.num # 0 => p <= x.num)
      <4>1. CASE dir'.seg[p] = 0
        <5>1. x.gen \in Nat BY StageFacts
        <5>. QED BY <4>1, <5>1
      <4>2. CASE dir'.seg[p] = dir.seg[p] BY <2>3, <4>2 DEF Reflects
      <4>. QED BY <2>4, <4>1, <4>2
    <3>. QED BY <3>1, <3>2, <3>3 DEF Reflects
  <2>6. ASSUME Young(dir, age, x) PROVE Young(dir', age', x)
    <3>. SUFFICES ASSUME x.num # 0
                  PROVE  /\ dir'.seg[x.num] # 0 /\ age'[x.num] <= GopSecs
                         /\ \A p \in 1..MaxSeg : dir'.seg[p] # 0 => age'[x.num] <= age'[p]
                         /\ dir'.mpd # NoMpd => age'[MpdFile] <= age'[x.num] + Span(Newest(dir'.mpd), x.num)
      BY DEF Young
    <3>1. PICK n \in 1..MaxSeg : n = x.num
      <4>1. x.num \in 0..MaxSeg BY StageFacts
      <4>. QED BY <4>1, Limits
    <3>2. /\ dir.seg[n] # 0 /\ age[n] <= GopSecs
          /\ \A p \in 1..MaxSeg : dir.seg[p] # 0 => age[n] <= age[p]
          /\ dir.mpd # NoMpd => age[MpdFile] <= age[n] + Span(Newest(dir.mpd), n)
      BY <2>6, <3>1 DEF Young
    <3>3. n # f
      <4>1. age[f] > EffectiveTtl /\ GopSecs <= EffectiveTtl /\ GopSecs \in Nat
        BY <1>4, <1>6, PatientFacts
      <4>2. ~(age[f] <= GopSecs) BY <1>5, <4>1
      <4>. QED BY <3>2, <4>2
    <3>4. dir'.seg[n] = dir.seg[n] /\ age'[n] = age[n] BY <1>3, <3>3
    <3>5. dir'.mpd # NoMpd => dir'.mpd = dir.mpd /\ age'[MpdFile] = age[MpdFile] BY <1>2, <1>5
    <3>. QED BY <2>4, <3>1, <3>2, <3>4, <3>5
  <2>. QED BY <1>2, <2>1, <2>2, <2>5, <2>6 DEF Tracks
<1>. QED BY <1>4, <1>6 DEF Tracked

\* A manifest beyond the TTL is of a generation that has come to its end.
LEMMA OldManifest ==
    ASSUME Patient, FilesTypeOK, Inv, Tracked, Clean, Present(dir, MpdFile), Old(MpdFile)
    PROVE  Outgrown(jobs, 0, feed)
<1>1. PICK c : Tracks(c, dir, age, jobs, feed) BY DEF Tracked
<1>2. PICK x \in Stage : x = c[0] /\ Sound(x)
  <2>1. 0 \in 0..Len(jobs) BY DEF FilesTypeOK
  <2>. QED BY <1>1, <2>1 DEF Tracks, Course
<1>3. dir.mpd # NoMpd
  <2>1. InitFile # MpdFile BY Limits DEF InitFile, MpdFile
  <2>. QED BY <2>1 DEF Present
<1>4. dir.mpd = x.mpd BY <1>1, <1>2, <1>3 DEF Tracks, Reflects
<1>5. CASE x.num = 0
  <2>1. 0 \in 0..Len(jobs) BY DEF FilesTypeOK
  <2>2. Closing(x) BY <1>3, <1>4, <1>5 DEF Closing
  <2>. QED BY <1>1, <1>2, <2>1, <2>2 DEF Tracks, Closes
<1>6. CASE ~feed.live /\ jobs = <<>>
  <2>1. Len(jobs) = 0 BY <1>6
  <2>. QED BY <1>6, <2>1 DEF Outgrown
<1>7. CASE x.num # 0 /\ (feed.live \/ jobs # <<>>)
  <2>1. age[x.num] <= GopSecs /\ age[MpdFile] <= age[x.num] + Span(Newest(x.mpd), x.num)
    BY <1>1, <1>2, <1>3, <1>4, <1>7 DEF Tracks, Young
  <2>2. x.mpd.segs # <<>> /\ Newest(x.mpd) <= x.num /\ x.num <= Newest(x.mpd) + MaxBatch
    BY <1>2, <1>3, <1>4, <1>7 DEF Sound
  <2>3. PICK n \in Nat : n = Newest(x.mpd) BY <2>2, StageFacts
  <2>4. PICK m \in 1..MaxSeg : m = x.num
    <3>1. x.num \in 0..MaxSeg BY StageFacts
    <3>. QED BY <1>7, <3>1, Limits
  <2>5. GopSecs + Span(n, m) <= EffectiveTtl /\ Span(n, m) \in Nat
    <3>1. n <= m /\ m <= n + MaxBatch /\ m \in Nat BY <2>2, <2>3, <2>4
    <3>. QED BY <3>1, PatientFacts, SpanFacts
  <2>6. age[m] \in Nat /\ age[MpdFile] \in Nat /\ sweep.ticks \in Nat BY AgeNats
  <2>7. age[MpdFile] > EffectiveTtl + sweep.ticks BY DEF Old
  <2>8. age[m] <= GopSecs /\ age[MpdFile] <= age[m] + Span(n, m) BY <2>1, <2>3, <2>4
  <2>9. GopSecs \in Nat /\ EffectiveTtl \in Nat BY PatientFacts
  <2>. QED BY <2>5, <2>6, <2>7, <2>8, <2>9
<1>. QED BY <1>5, <1>6, <1>7

LEMMA JanitorTracked ==
    ASSUME Patient, PacedInv, Tracked, Decided, Janitor
    PROVE  Tracked' /\ Decided'
<1>1. sweep \in SweepType /\ FilesTypeOK /\ Inv
  BY DEF PacedInv, Inv, CacheTypeOK, SweepType, Phases
<1>2. ASSUME Keeps
      PROVE  Tracked' /\ (Clean' <=> Clean) /\ dir' = dir /\ age' = age /\ jobs' = jobs /\ feed' = feed
  <2>1. dir' = dir /\ age' = age /\ jobs' = jobs /\ feed' = feed /\ late' = late /\ hit' = hit
    BY <1>2 DEF Keeps, fileVars
  <2>. QED BY <2>1 DEF Tracked, Clean
<1>3. ASSUME sweep'.phase \notin {"drop_mpd", "drop_init"} PROVE Decided' BY <1>3 DEF Decided
<1>4. Idle.phase = "idle" BY DEF Idle
<1>5. CASE Begin
  <2>1. Keeps /\ sweep'.phase = "scan" BY <1>5 DEF Begin, Idle
  <2>. QED BY <1>2, <1>3, <2>1
<1>6. ASSUME NEW early, NEW new, Scan(early, new) PROVE Tracked' /\ Decided'
  <2>. DEFINE steady == {f \in File \ Touched : Present(dir, f)}
              seen == steady \cup early \cup new
              expired == {f \in seen : (f \in steady /\ Old(f)) \/ f \in early \cap sweep.old}
              segs == expired \cap 1..MaxSeg
              fresh == (seen \ expired) \cap 1..MaxSeg # {}
              mpd == MpdFile \in seen
              init == InitFile \in seen
              s == [Idle EXCEPT !.ticks = sweep.ticks, !.calls = sweep.calls,
                                !.budget = sweep.budget, !.expired = segs,
                                !.fresh = fresh, !.mpd = mpd, !.init = init]
  <2>1. sweep' = Settled(s) /\ Keeps BY <1>6 DEF Scan
  <2>2. segs \in SUBSET (1..MaxSeg) /\ fresh \in BOOLEAN /\ mpd \in BOOLEAN /\ init \in BOOLEAN
    OBVIOUS
  <2>3. sweep.ticks \in 0..SweepTicks /\ sweep.calls \in 0..SweepCalls /\ sweep.budget \in 0..Budget
    BY <1>1 DEF SweepType
  <2>. HIDE DEF segs, fresh, mpd, init
  <2>4. s \in SweepType BY <2>2, <2>3, IdleTyped
  <2>. HIDE DEF s
  <2>5. sweep'.phase \in {"idle", "delete", "check"} BY <2>1, <2>4, SettledTyped
  <2>. QED BY <1>2, <1>3, <2>1, <2>5
<1>7. ASSUME NEW f \in 1..MaxSeg, DeleteSegment(f) PROVE Tracked' /\ Decided'
  <2>1. \E s : sweep' = Settled(s) BY <1>7 DEF DeleteSegment
  <2>2. sweep'.phase \notin {"drop_mpd", "drop_init"}
    <3>. DEFINE rest == [sweep EXCEPT !.expired = @ \ {f}]
    <3>1. rest.phase = "delete" BY <1>1, <1>7 DEF DeleteSegment, SweepType
    <3>2. \/ sweep' = Settled([rest EXCEPT !.budget = @ - 1])
          \/ sweep' = Settled([rest EXCEPT !.left = TRUE])
      BY <1>7 DEF DeleteSegment
    <3>3. rest \in SweepType BY <1>1 DEF SweepType
    <3>. HIDE DEF rest
    <3>. QED BY <1>4, <3>1, <3>2, <3>3 DEF Settled, SweepType
  <2>3. Removes(f) \/ Keeps BY <1>7 DEF DeleteSegment
  <2>4. f \in File /\ f # InitFile BY <1>1, AgeFacts
  <2>. QED BY <1>2, <1>3, <2>2, <2>3, <2>4, RemovesTracked
<1>8. CASE CheckManifest
  <2>1. Keeps /\ sweep.phase = "check" BY <1>8 DEF CheckManifest
  <2>2. CASE sweep' = Idle BY <1>2, <1>3, <1>4, <2>1, <2>2
  <2>3. CASE sweep' = [sweep EXCEPT !.phase = "drop_mpd"] /\ Present(dir, MpdFile) /\ Old(MpdFile)
    <3>1. sweep'.phase = "drop_mpd" BY <1>1, <2>3 DEF SweepType
    <3>2. Clean => Outgrown(jobs, 0, feed) BY <1>1, <2>3, OldManifest
    <3>. QED BY <1>2, <2>1, <3>1, <3>2 DEF Decided
  <2>. QED BY <1>8, <2>2, <2>3 DEF CheckManifest
<1>9. CASE DropManifest
  <2>1. sweep.phase = "drop_mpd" BY <1>9 DEF DropManifest
  <2>2. \/ Keeps /\ sweep' = Idle
        \/ /\ Removes(MpdFile)
           /\ \/ sweep' = Idle
              \/ sweep' = [sweep EXCEPT !.phase = "drop_init", !.budget = @ - 1]
    BY <1>9 DEF DropManifest
  <2>3. MpdFile \in File /\ InitFile \in File /\ MpdFile # InitFile
    BY Limits DEF MpdFile, InitFile, File
  <2>4. ASSUME Removes(MpdFile) PROVE Tracked' /\ (Clean' => Clean)
    BY <2>3, <2>4, RemovesTracked
  <2>5. ASSUME Removes(MpdFile), sweep' = [sweep EXCEPT !.phase = "drop_init", !.budget = @ - 1]
        PROVE  Decided'
    <3>1. sweep'.phase = "drop_init" /\ sweep'.ticks = sweep.ticks BY <1>1, <2>5 DEF SweepType
    <3>2. dir'.mpd = NoMpd /\ age'[InitFile] = age[InitFile] /\ jobs' = jobs /\ feed' = feed
      BY <1>1, <2>3, <2>5, RemovesFields
    <3>. QED BY <2>1, <2>4, <2>5, <3>1, <3>2 DEF Decided
  <2>. QED BY <1>2, <1>3, <1>4, <2>2, <2>4, <2>5
<1>10. CASE DropInit
  <2>1. sweep.phase = "drop_init" /\ sweep' = Idle /\ (Removes(InitFile) \/ Keeps)
    BY <1>10 DEF DropInit
  <2>2. InitFile \in File BY Limits DEF File, InitFile
  <2>3. Clean => age[InitFile] <= EffectiveTtl \/ (dir.mpd = NoMpd /\ Outgrown(jobs, 0, feed))
    <3>1. Clean => \/ age[InitFile] <= sweep.ticks
                   \/ dir.mpd = NoMpd /\ Outgrown(jobs, 0, feed)
      BY <2>1 DEF Decided
    <3>2. age[InitFile] \in Nat /\ sweep.ticks \in Nat /\ sweep.ticks <= SweepTicks BY <1>1, AgeNats
    <3>3. EffectiveTtl \in Nat /\ SweepTicks \in Nat /\ SweepTicks <= EffectiveTtl BY PatientFacts
    <3>. QED BY <3>1, <3>2, <3>3
  <2>. QED BY <1>2, <1>3, <1>4, <2>1, <2>2, <2>3, RemovesTracked
<1>. QED BY <1>5, <1>6, <1>7, <1>8, <1>9, <1>10 DEF Janitor, Sweeps

LEMMA TrackInductive ==
    ASSUME Patient
    PROVE  /\ CacheInit => TrackInv
           /\ TrackInv /\ [CacheNext]_cacheVars => TrackInv'
           /\ TrackInv => InitOutlivesManifest
<1>1. ASSUME CacheInit PROVE TrackInv
  <2>1. PacedInv BY <1>1, PacedInductive
  <2>2. dir = EmptyDir /\ jobs = <<>> /\ feed = Off /\ sweep.phase = "idle"
    BY <1>1 DEF CacheInit, Init, Idle
  <2>. DEFINE x == St(0, NoMpd, 0, 0)
              c == [i \in 0..0 |-> x]
              J == <<>>
  <2>3. x \in Stage /\ x.init = 0 /\ x.mpd = NoMpd /\ x.gen = 0 /\ x.num = 0
    <3>1. NoMpd \in [gen : 0..MaxGen, segs : Seq(1..MaxSeg)] /\ 0 \in 0..MaxSeg /\ 0 \in 0..MaxGen
      BY FilesAssumption, DirectoryAssumption DEF NoMpd
    <3>. QED BY <3>1, StFields
  <2>4. dir.init = 0 /\ dir.mpd = NoMpd /\ \A n \in 1..MaxSeg : dir.seg[n] = 0
    BY <2>2 DEF EmptyDir
  <2>. HIDE DEF x
  <2>5. Len(J) = 0 /\ jobs = J BY <2>2
  <2>6. c \in [0..0 -> Stage] /\ c[0] = x /\ \A i \in 0..0 : c[i] = x BY <2>3
  <2>. HIDE DEF c, J
  <2>7. Sound(x) /\ ~Closing(x) BY <2>3 DEF Sound, Closing
  <2>8. Course(c, J) BY <2>5, <2>6, <2>7 DEF Course
  <2>9. Closes(c, J, feed) BY <2>5, <2>6, <2>7 DEF Closes
  <2>10. Reflects(dir, x, J, feed) BY <2>3, <2>4 DEF Reflects
  <2>11. ~feed.live BY <2>2, OffFacts
  <2>12. Young(dir, age, x) BY <2>3 DEF Young
  <2>13. Tracks(c, dir, age, jobs, feed) BY <2>5, <2>6, <2>8, <2>9, <2>10, <2>11, <2>12 DEF Tracks
  <2>. QED BY <2>1, <2>2, <2>13 DEF TrackInv, Tracked, Decided
<1>2. ASSUME TrackInv, [CacheNext]_cacheVars PROVE TrackInv'
  <2>1. PacedInv /\ FilesTypeOK /\ Inv /\ Tracked /\ Decided BY <1>2 DEF TrackInv, PacedInv
  <2>2. PacedInv' BY <1>2, <2>1, PacedInductive
  <2>3. CASE Packaging BY <2>1, <2>2, <2>3, PackagingTracked DEF TrackInv
  <2>4. CASE Pass BY <2>1, <2>2, <2>4, PassTracked DEF TrackInv
  <2>5. CASE Janitor BY <2>1, <2>2, <2>5, JanitorTracked DEF TrackInv
  <2>6. CASE UNCHANGED cacheVars
    BY <2>1, <2>2, <2>6 DEF TrackInv, cacheVars, cache, fileVars, Tracked, Decided, Clean
  <2>. QED BY <1>2, <2>3, <2>4, <2>5, <2>6 DEF CacheNext
<1>3. ASSUME TrackInv, dir.mpd # NoMpd, ~late, ~hit, ~dir.lost PROVE dir.init = dir.mpd.gen
  <2>1. PICK c : Tracks(c, dir, age, jobs, feed) BY <1>3 DEF TrackInv, Tracked, Clean
  <2>2. 0 \in 0..Len(jobs) BY <1>3 DEF TrackInv, PacedInv, FilesTypeOK
  <2>3. Sound(c[0]) /\ Reflects(dir, c[0], jobs, feed) BY <2>1, <2>2 DEF Tracks, Course
  <2>. QED BY <1>3, <2>3 DEF Sound, Reflects
<1>. QED BY <1>1, <1>2, <1>3 DEF InitOutlivesManifest

\* janitor.rs:13, "preserves init.mp4": if the segments that a call leaves
\* without a manifest, and the one being made, last no longer than the TTL, and a
\* sweep is not longer either, every manifest that is left has the init.mp4 of
\* its generation, however the packager's calls, its writer's jobs and the
\* sweeps' reads and deletes interleave, and however far behind the writer is.
THEOREM InitSurvives ==
    ASSUME Patient
    PROVE  CacheSpec => []InitOutlivesManifest
<1>1. CacheInit => TrackInv BY TrackInductive
<1>2. TrackInv /\ [CacheNext]_cacheVars => TrackInv' BY TrackInductive
<1>3. TrackInv => InitOutlivesManifest BY TrackInductive
<1>. QED BY <1>1, <1>2, <1>3, PTL DEF CacheSpec

\* The first of the two holds, whatever TTL is configured, of calls that add
\* fewer than two windows of segments of the length asked for.
THEOREM InitSurvivesTtl ==
    ASSUME MaxBatch < 2 * WindowSegments, GopSecs <= SegmentSecs, SweepTicks <= EffectiveTtl
    PROVE  CacheSpec => []InitOutlivesManifest
<1>1. /\ GopSecs \in Nat /\ SegmentSecs \in Nat /\ MaxBatch \in Nat /\ WindowSegments \in Nat
      /\ EffectiveTtl \in Nat
  BY DirectoryAssumption, CacheAssumption, FilesAssumption, Limits
<1>2. EffectiveTtl >= (2 * WindowSegments) * SegmentSecs BY <1>1, TtlCoversWindow
<1>3. PICK d \in Nat : SegmentSecs = GopSecs + d
  <2>1. SegmentSecs - GopSecs \in Nat /\ SegmentSecs = GopSecs + (SegmentSecs - GopSecs) BY <1>1
  <2>. QED BY <2>1
<1>4. PICK e \in Nat : 2 * WindowSegments = (MaxBatch + 1) + e
  <2>1. PICK w \in Nat : w = 2 * WindowSegments BY <1>1
  <2>2. w - (MaxBatch + 1) \in Nat /\ w = (MaxBatch + 1) + (w - (MaxBatch + 1)) BY <1>1, <2>1
  <2>. QED BY <2>1, <2>2
<1>. DEFINE m == MaxBatch + 1
<1>5. m \in Nat BY <1>1
<1>. HIDE DEF m
<1>6. (m + e) * (GopSecs + d) = m * GopSecs + m * d + e * (GopSecs + d)
      /\ m * d \in Nat /\ e * (GopSecs + d) \in Nat /\ m * GopSecs \in Nat
  BY <1>1, <1>5
<1>7. m * GopSecs <= EffectiveTtl BY <1>1, <1>2, <1>3, <1>4, <1>6 DEF m
<1>8. Patient BY <1>7 DEF Patient, m
<1>. QED BY <1>8, InitSurvives
====
