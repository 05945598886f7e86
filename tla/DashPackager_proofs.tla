---- MODULE DashPackager_proofs ----
(***************************************************************************)
(* Theorems about DashPackager for any window, batch size and number of    *)
(* packagers, checked with the TLA+ proof system.                          *)
(***************************************************************************)
EXTENDS DashPackager, WellFoundedInduction, TLAPS

Fields == {"phase", "todo", "video", "audio", "seg", "pending", "replay", "started",
           "next", "start", "timeline", "gen", "period"}

\* n numbers from a on.
Run(a, n) == [i \in 1..n |-> a + i - 1]

\* The timeline agrees with the two counters; and the window is kept.
Counted(r) ==
    /\ DOMAIN r = Fields
    /\ r.next \in Nat \ {0} /\ r.start \in Nat \ {0} /\ r.start <= r.next
    /\ r.timeline = Run(r.start, r.next - r.start)

Windowed(r) == Counted(r) /\ r.next - r.start <= Keep

Inv == DOMAIN pk = Packager /\ \A p \in Packager : Windowed(pk[p])

-----------------------------------------------------------------------------
\* Runs: joined, and cut at a number.
LEMMA RunJoins ==
    ASSUME NEW a \in Nat, NEW n \in Nat, NEW k \in Nat
    PROVE  Run(a, n) \o Run(a + n, k) = Run(a, n + k)
BY DEF Run

LEMMA RunPops ==
    ASSUME NEW a \in Nat, NEW n \in Nat, NEW low \in a..(a + n)
    PROVE  PopBelow(Run(a, n), low) = Run(low, a + n - low)
<1>. DEFINE t == Run(a, n)
            First(i) == /\ \A j \in 1..(i - 1) : t[j] < low
                        /\ i <= Len(t) => t[i] >= low
<1>1. Len(t) = n /\ \A i \in 1..n : t[i] = a + i - 1 BY DEF Run
<1>2. low - a + 1 \in 1..(Len(t) + 1) /\ First(low - a + 1) BY <1>1
<1>. HIDE DEF t
<1>3. PICK f \in 1..(Len(t) + 1) : First(f) /\ PopBelow(t, low) = SubSeq(t, f, Len(t))
  BY <1>2, Zenon DEF PopBelow
<1>4. f = low - a + 1
  <2>1. ~(f < low - a + 1) BY <1>1, <1>3
  <2>2. ASSUME f > low - a + 1 PROVE FALSE
    <3>1. low - a + 1 \in 1..(f - 1) /\ low - a + 1 \in 1..n BY <1>1, <1>3, <2>2
    <3>2. t[low - a + 1] < low BY <1>3, <3>1
    <3>. QED BY <1>1, <3>1, <3>2
  <2>. QED BY <1>3, <1>1, <2>1, <2>2
<1>5. SubSeq(t, f, Len(t)) = Run(low, a + n - low)
  BY <1>1, <1>4 DEF Run, t
<1>. QED BY <1>3, <1>5 DEF t

-----------------------------------------------------------------------------
\* What each part of a handler does to the window.
LEMMA AddCounted ==
    ASSUME NEW r, Counted(r), NEW k \in Nat
    PROVE  /\ Counted(AddSegments(r, k))
           /\ AddSegments(r, k).replay = r.replay /\ AddSegments(r, k).phase = r.phase
<1>. DEFINE q == AddSegments(r, k)
<1>1. DOMAIN q = Fields /\ q.next = r.next + k /\ q.start = r.start
      /\ q.timeline = r.timeline \o Number(r, k) /\ q.replay = r.replay /\ q.phase = r.phase
  BY DEF Counted, Fields, AddSegments
<1>2. Number(r, k) = Run(r.start + (r.next - r.start), k) BY DEF Number, Run, Counted
<1>3. /\ r.start \in Nat /\ r.next - r.start \in Nat
      /\ r.timeline = Run(r.start, r.next - r.start)
      /\ (r.next - r.start) + k = (r.next + k) - r.start
  BY DEF Counted
<1>. HIDE DEF q
<1>4. q.timeline = Run(r.start, q.next - q.start)
  <2>1. PICK n \in Nat : n = r.next - r.start BY <1>3
  <2>2. Run(r.start, n) \o Run(r.start + n, k) = Run(r.start, n + k) BY <1>3, RunJoins
  <2>3. n + k = q.next - q.start BY <1>1, <1>3, <2>1
  <2>. QED BY <1>1, <1>2, <1>3, <2>1, <2>2, <2>3
<1>5. Counted(q) BY <1>1, <1>4 DEF Counted
<1>. QED BY <1>1, <1>5 DEF q

LEMMA PruneWindowed ==
    ASSUME NEW r, Counted(r)
    PROVE  Windowed(Prune(r)) /\ Prune(r).replay = r.replay /\ Prune(r).phase = r.phase
<1>. DEFINE q == Prune(r)
            low == IF r.next - r.start > Keep THEN r.next - Keep ELSE r.start
<1>1. Keep \in Nat BY DirectoryAssumption DEF Keep, Grace
<1>2. low \in r.start..r.next /\ low \in Nat \ {0} /\ r.next - low <= Keep
  BY <1>1 DEF Counted
<1>3. DOMAIN q = Fields /\ q.next = r.next /\ q.start = low
      /\ q.timeline = (IF low = r.start THEN r.timeline ELSE PopBelow(r.timeline, low))
      /\ q.replay = r.replay /\ q.phase = r.phase
  BY DEF Counted, Fields, Prune
<1>. HIDE DEF q, low
<1>4. PopBelow(r.timeline, low) = Run(low, r.start + (r.next - r.start) - low)
  BY <1>2, RunPops DEF Counted
<1>5. q.timeline = Run(low, r.next - low) BY <1>2, <1>3, <1>4 DEF Counted
<1>. QED BY <1>2, <1>3, <1>5 DEF Counted, Windowed, q

LEMMA FlushKeeps ==
    ASSUME NEW r, Windowed(r), NEW dirty
    PROVE  /\ Windowed(FlushMpd(r, dirty))
           /\ FlushMpd(r, dirty).replay = r.replay /\ FlushMpd(r, dirty).phase = r.phase
BY DEF Windowed, Counted, Fields, FlushMpd

LEMMA StartKeeps ==
    ASSUME NEW r, Windowed(r), NEW built
    PROVE  /\ Windowed(Start(r, built)) /\ Start(r, built).phase = r.phase
           /\ r.pending = <<>> /\ r.replay = <<>> => Start(r, built).replay = <<>>
<1>1. FromSync(<<>>) = <<>> BY DEF FromSync
<1>. QED BY <1>1 DEF Windowed, Counted, Fields, Start

LEMMA RestartWindowed ==
    ASSUME NEW r, DOMAIN r = Fields, NEW g
    PROVE  /\ Windowed(Restart(r, g))
           /\ Restart(r, g).replay = r.replay /\ Restart(r, g).phase = r.phase
           /\ Restart(r, g).pending = <<>>
<1>1. Run(1, 0) = <<>> BY DEF Run
<1>2. Keep \in Nat BY DirectoryAssumption DEF Keep, Grace
<1>. QED BY <1>1, <1>2 DEF Windowed, Counted, Fields, Restart

LEMMA RotateWindowed ==
    ASSUME NEW r, DOMAIN r = Fields, NEW built
    PROVE  /\ Windowed(Rotate(r, built)) /\ Rotate(r, built).phase = r.phase
           /\ r.replay = <<>> => Rotate(r, built).replay = <<>>
<1>. DEFINE old == [r EXCEPT !.todo = @ \o Purge(r)]
            new == Restart(old, Len(periods) + 1)
<1>1. DOMAIN old = Fields /\ old.phase = r.phase /\ old.replay = r.replay BY DEF Fields
<1>. HIDE DEF old
<1>2. Windowed(new) /\ new.phase = r.phase /\ new.replay = r.replay /\ new.pending = <<>>
  BY <1>1, RestartWindowed
<1>3. Rotate(r, built) = Start(new, built) BY DEF Rotate, old
<1>. HIDE DEF new
<1>. QED BY <1>2, <1>3, StartKeeps

LEMMA DrainWindowed ==
    ASSUME NEW r, Windowed(r), NEW k \in Nat, NEW skewed \in BOOLEAN, NEW built
    PROVE  /\ Windowed(Drain(r, k, skewed, built)) /\ Drain(r, k, skewed, built).phase = r.phase
           /\ r.replay = <<>> => Drain(r, k, skewed, built).replay = <<>>
<1>. DEFINE more == AddSegments(r, k)
<1>1. Counted(more) /\ more.replay = r.replay /\ more.phase = r.phase
  BY AddCounted DEF Windowed
<1>. HIDE DEF more
<1>2. CASE skewed
  <2>1. Drain(r, k, skewed, built) = Rotate(more, built) BY <1>2 DEF Drain, more
  <2>. QED BY <1>1, <2>1, RotateWindowed DEF Counted
<1>3. CASE ~skewed
  <2>1. Drain(r, k, skewed, built) = FlushMpd(Prune(more), k > 0) BY <1>3 DEF Drain, more
  <2>2. Windowed(Prune(more)) /\ Prune(more).replay = r.replay /\ Prune(more).phase = r.phase
    BY <1>1, PruneWindowed
  <2>. QED BY <2>1, <2>2, FlushKeeps
<1>. QED BY <1>2, <1>3

LEMMA PushWindowed ==
    ASSUME NEW r, Windowed(r), NEW sample, NEW k \in Nat, NEW skewed \in BOOLEAN, NEW built
    PROVE  Windowed(Push(r, sample, k, skewed, built)) /\ Push(r, sample, k, skewed, built).phase = r.phase
<1>. DEFINE q == [r EXCEPT !.started = TRUE]
<1>1. Windowed(q) /\ q.phase = r.phase BY DEF Windowed, Counted, Fields
<1>2. Push(r, sample, k, skewed, built) \in {r, q, Drain(q, k, skewed, built)} BY DEF Push
<1>. HIDE DEF q
<1>. QED BY <1>1, <1>2, DrainWindowed

-----------------------------------------------------------------------------
\* Each action leaves every packager a window.
LEMMA InitInv == Init => Inv
<1>. SUFFICES ASSUME Init PROVE Inv OBVIOUS
<1>1. Run(1, 0) = <<>> /\ Keep \in Nat BY DirectoryAssumption DEF Run, Keep, Grace
<1>2. Windowed(Closed) BY <1>1 DEF Closed, Windowed, Counted, Fields
<1>. QED BY <1>2 DEF Init, Inv

\* A handler that makes one packager r.
LEMMA BecomesInv ==
    ASSUME Inv, NEW p \in Packager, NEW r, Windowed(r), pk' = [pk EXCEPT ![p] = r]
    PROVE  Inv'
BY DEF Inv

LEMMA NextInv == Inv /\ [Next]_vars => Inv'
<1>. SUFFICES ASSUME Inv, [Next]_vars PROVE Inv' OBVIOUS
<1>. USE PackagerAssumption
<1>1. ASSUME NEW p \in Packager PROVE Windowed(pk[p]) /\ DOMAIN pk[p] = Fields
  BY DEF Inv, Windowed, Counted
<1>2. ASSUME NEW p \in Packager, NEW g
      PROVE  Windowed(Restart(Closed, g)) /\ Windowed(Restart(pk[p], g)) /\ Windowed(Closed)
  <2>1. Run(1, 0) = <<>> /\ Keep \in Nat BY DirectoryAssumption DEF Run, Keep, Grace
  <2>2. Windowed(Closed) /\ DOMAIN Closed = Fields BY <2>1 DEF Closed, Windowed, Counted, Fields
  <2>. QED BY <1>1, <2>2, RestartWindowed
<1>3. ASSUME NEW p \in Packager, Media(p) PROVE Inv'
  <2>1. PICK built \in Builds :
           \/ \E c \in ConfigId : VideoConfig(p, c, built) \/ AudioConfig(p, c, built)
           \/ Discontinuity(p, built)
           \/ \E sample \in Samples : QueueSample(p, sample)
           \/ \E sample \in Samples, k \in 0..MaxBatch, skewed \in BOOLEAN :
                 PushSample(p, sample, k, skewed, built)
    BY <1>3 DEF Media
  <2>2. ASSUME NEW c \in ConfigId, VideoConfig(p, c, built) PROVE Inv'
    <3>. DEFINE r == [pk[p] EXCEPT !.video = c]
    <3>1. Windowed(r) /\ DOMAIN r = Fields BY <1>1 DEF Windowed, Counted, Fields
    <3>2. pk' = [pk EXCEPT ![p] = Start(r, built)] \/ pk' = [pk EXCEPT ![p] = Rotate(r, built)]
      BY <2>2 DEF VideoConfig, Becomes
    <3>. HIDE DEF r
    <3>. QED BY <3>1, <3>2, StartKeeps, RotateWindowed, BecomesInv
  <2>3. ASSUME NEW c \in ConfigId, AudioConfig(p, c, built) PROVE Inv'
    <3>. DEFINE r == [pk[p] EXCEPT !.audio = c]
    <3>1. Windowed(r) /\ DOMAIN r = Fields BY <1>1 DEF Windowed, Counted, Fields
    <3>2. pk' = [pk EXCEPT ![p] = Start(r, built)] \/ pk' = [pk EXCEPT ![p] = Rotate(r, built)]
      BY <2>3 DEF AudioConfig, Becomes
    <3>. HIDE DEF r
    <3>. QED BY <3>1, <3>2, StartKeeps, RotateWindowed, BecomesInv
  <2>4. ASSUME Discontinuity(p, built) PROVE Inv'
    BY <1>1, <2>4, RotateWindowed, BecomesInv DEF Discontinuity, Becomes
  <2>5. ASSUME NEW sample \in Samples, QueueSample(p, sample) PROVE Inv'
    <3>1. PICK q : pk' = [pk EXCEPT ![p] = [pk[p] EXCEPT !.pending = q]]
      BY <2>5 DEF QueueSample, Becomes
    <3>2. Windowed([pk[p] EXCEPT !.pending = q]) BY <1>1 DEF Windowed, Counted, Fields
    <3>. QED BY <3>1, <3>2, BecomesInv
  <2>6. ASSUME NEW sample \in Samples, NEW k \in 0..MaxBatch, NEW skewed \in BOOLEAN,
               PushSample(p, sample, k, skewed, built)
        PROVE  Inv'
    <3>1. k \in Nat OBVIOUS
    <3>. QED BY <1>1, <2>6, <3>1, PushWindowed, BecomesInv DEF PushSample, Becomes
  <2>. QED BY <2>1, <2>2, <2>3, <2>4, <2>5, <2>6
<1>4. ASSUME NEW p \in Packager, Inner(p) PROVE Inv'
  <2>1. ASSUME NEW built \in Builds, NEW k \in 0..MaxBatch, NEW skewed \in BOOLEAN,
               ReplaySample(p, k, skewed, built)
        PROVE  Inv'
    <3>. DEFINE r == [pk[p] EXCEPT !.replay = Tail(@)]
    <3>1. Windowed(r) BY <1>1 DEF Windowed, Counted, Fields
    <3>2. PICK sample : pk' = [pk EXCEPT ![p] = Push(r, sample, k, skewed, built)]
      BY <2>1 DEF ReplaySample, Becomes
    <3>3. k \in Nat OBVIOUS
    <3>. HIDE DEF r
    <3>. QED BY <3>1, <3>2, <3>3, PushWindowed, BecomesInv
  <2>2. ASSUME FinishDone(p) \/ ReconnectDone(p) PROVE Inv'
    <3>1. PICK f : pk' = [pk EXCEPT ![p] = [pk[p] EXCEPT !.phase = f]]
      BY <2>2 DEF FinishDone, ReconnectDone, Becomes
    <3>2. Windowed([pk[p] EXCEPT !.phase = f]) BY <1>1 DEF Windowed, Counted, Fields
    <3>. QED BY <3>1, <3>2, BecomesInv
  <2>3. ASSUME Accept(p) PROVE Inv'
    <3>1. pk' = [pk EXCEPT ![p] = [pk[p] EXCEPT !.todo = Tail(@)]] BY <2>3 DEF Accept
    <3>2. Windowed([pk[p] EXCEPT !.todo = Tail(@)]) BY <1>1 DEF Windowed, Counted, Fields
    <3>. QED BY <3>1, <3>2, BecomesInv
  <2>4. ASSUME Apply(p) \/ Remove(p) PROVE Inv' BY <2>4 DEF Apply, Remove, Inv
  <2>5. ASSUME Opened(p) PROVE Inv'
    <3>1. pk' = [pk EXCEPT ![p] = [Restart(Closed, Len(periods) + 1) EXCEPT !.phase = "live"]]
      BY <2>5 DEF Opened, Becomes
    <3>2. Windowed([Restart(Closed, Len(periods) + 1) EXCEPT !.phase = "live"])
      BY <1>2 DEF Windowed, Counted, Fields
    <3>. QED BY <3>1, <3>2, BecomesInv
  <2>. QED BY <1>4, <2>1, <2>2, <2>3, <2>4, <2>5 DEF Inner
<1>5. ASSUME NEW p \in Packager, Owner(p) PROVE Inv'
  <2>1. ASSUME Open(p) PROVE Inv'
    <3>1. pk' = [pk EXCEPT ![p] = [Closed EXCEPT !.phase = "opening"]] BY <2>1 DEF Open, Becomes
    <3>2. Windowed([Closed EXCEPT !.phase = "opening"]) BY <1>2 DEF Windowed, Counted, Fields
    <3>. QED BY <3>1, <3>2, BecomesInv
  <2>2. ASSUME Reconnect(p) PROVE Inv'
    <3>. DEFINE r == [Restart(pk[p], Len(periods) + 1) EXCEPT !.video = 0, !.audio = 0, !.phase = "wiping"]
    <3>1. pk' = [pk EXCEPT ![p] = r] BY <2>2 DEF Reconnect, Becomes
    <3>2. Windowed(r) BY <1>2 DEF Windowed, Counted, Fields
    <3>. QED BY <3>1, <3>2, BecomesInv
  <2>3. ASSUME Drop(p) PROVE Inv' BY <1>2, <2>3, BecomesInv DEF Drop
  <2>4. ASSUME NEW built \in Builds, NEW k \in 0..MaxBatch, NEW skewed \in BOOLEAN,
               Finish(p, k, skewed, built)
        PROVE  Inv'
    <3>. DEFINE r == IF pk[p].seg THEN Drain(pk[p], k, skewed, built) ELSE pk[p]
    <3>1. pk' = [pk EXCEPT ![p] = [r EXCEPT !.phase = "closing"]] BY <2>4 DEF Finish, Becomes
    <3>2. k \in Nat OBVIOUS
    <3>3. Windowed(r) BY <1>1, <3>2, DrainWindowed
    <3>. HIDE DEF r
    <3>4. Windowed([r EXCEPT !.phase = "closing"]) BY <3>3 DEF Windowed, Counted, Fields
    <3>. QED BY <3>1, <3>4, BecomesInv
  <2>. QED BY <1>5, <2>1, <2>2, <2>3, <2>4 DEF Owner
<1>6. ASSUME NEW p \in Packager, FailJob(p) PROVE Inv' BY <1>6 DEF FailJob, Inv
<1>7. CASE Tick \/ UNCHANGED vars BY <1>7 DEF Tick, Inv, vars
<1>. QED BY <1>3, <1>4, <1>5, <1>6, <1>7 DEF Next

-----------------------------------------------------------------------------
\* The timeline is the window after every call, for any window size and any
\* batches (packager.rs:31-34, 456-523).
THEOREM WindowIsKept == Spec => []WindowIsTimeline
<1>1. Inv => WindowIsTimeline BY DEF Inv, Windowed, Counted, Run, WindowIsTimeline
<1>. QED BY InitInv, NextInv, <1>1, PTL DEF Spec

-----------------------------------------------------------------------------
\* Types.  What a handler makes of a packager's record stays of its type.
Phases == {"gone", "opening", "live", "closing", "closed", "wiping"}
Recs == [phase : Phases, todo : Seq(JobSet),
         video : ConfigId \cup {0}, audio : ConfigId \cup {0}, seg : BOOLEAN,
         pending : SmallSeq(MaxPending), replay : Seq(Samples), started : BOOLEAN,
         next : Numbers, start : Numbers, timeline : Seq(1..MaxSeg),
         gen : Gens, period : Nat]

LEMMA RecFields ==
    ASSUME NEW r \in Recs
    PROVE  /\ r.phase \in Phases /\ r.todo \in Seq(JobSet) /\ r.seg \in BOOLEAN
           /\ r.video \in ConfigId \cup {0} /\ r.audio \in ConfigId \cup {0}
           /\ r.pending \in SmallSeq(MaxPending) /\ r.replay \in Seq(Samples) /\ r.started \in BOOLEAN
           /\ r.next \in Numbers /\ r.start \in Numbers /\ r.timeline \in Seq(1..MaxSeg)
           /\ r.gen \in Gens /\ r.period \in Nat
BY DEF Recs

LEMMA RecQueue ==
    ASSUME NEW r \in Recs, NEW t \in Seq(JobSet)
    PROVE  [r EXCEPT !.todo = t] \in Recs
BY DEF Recs

LEMMA RecAdd ==
    ASSUME NEW r \in Recs, NEW t \in Seq(JobSet), NEW l \in Seq(1..MaxSeg), NEW n \in Numbers
    PROVE  [r EXCEPT !.todo = t, !.timeline = l, !.next = n] \in Recs
BY DEF Recs

LEMMA RecPrune ==
    ASSUME NEW r \in Recs, NEW t \in Seq(JobSet), NEW l \in Seq(1..MaxSeg), NEW n \in Numbers
    PROVE  [r EXCEPT !.todo = t, !.start = n, !.timeline = l] \in Recs
BY DEF Recs

LEMMA RecStart ==
    ASSUME NEW r \in Recs, NEW t \in Seq(JobSet), NEW y \in Seq(Samples), <<>> \in SmallSeq(MaxPending)
    PROVE  [r EXCEPT !.todo = t, !.seg = TRUE, !.replay = y, !.pending = <<>>] \in Recs
BY DEF Recs

LEMMA RecRestart ==
    ASSUME NEW r \in Recs, NEW g \in Gens, NEW i \in Nat, <<>> \in SmallSeq(MaxPending), 1 \in Numbers
    PROVE  [r EXCEPT !.seg = FALSE, !.pending = <<>>, !.started = FALSE, !.timeline = <<>>,
              !.next = 1, !.start = 1, !.gen = g, !.period = i] \in Recs
<1>1. <<>> \in Seq(1..MaxSeg) OBVIOUS
<1>. QED BY <1>1 DEF Recs

LEMMA RecOther ==
    ASSUME NEW r \in Recs
    PROVE  /\ \A c \in ConfigId : [r EXCEPT !.video = c] \in Recs /\ [r EXCEPT !.audio = c] \in Recs
           /\ [r EXCEPT !.started = TRUE] \in Recs
           /\ \A f \in Phases : [r EXCEPT !.phase = f] \in Recs
           /\ \A s \in SmallSeq(MaxPending) : [r EXCEPT !.pending = s] \in Recs
           /\ \A s \in Seq(Samples) : [r EXCEPT !.replay = s] \in Recs
BY DEF Recs

LEMMA Sequenced ==
    ASSUME NEW m \in Nat, NEW S, NEW s \in [1..m -> S]
    PROVE  s \in Seq(S) /\ Len(s) = m
OBVIOUS

LEMMA ElementOf ==
    ASSUME NEW S, NEW s \in Seq(S)
    PROVE  Len(s) \in Nat /\ DOMAIN s = 1..Len(s) /\ \A i \in 1..Len(s) : s[i] \in S
OBVIOUS

LEMMA Appended ==
    ASSUME NEW S, NEW s \in Seq(S), NEW x \in S
    PROVE  Append(s, x) \in Seq(S) /\ Len(Append(s, x)) = Len(s) + 1
OBVIOUS

LEMMA Least ==
    ASSUME NEW T, T \subseteq Nat, T # {}
    PROVE  \E x \in T : \A y \in T : x <= y
<1>1. PICK x \in T : \A y \in T : <<y, x>> \notin OpToRel(<, Nat)
  BY WFMin, NatLessThanWellFounded, Zenon
<1>2. \A y \in T : ~(y < x) BY <1>1, Zenon DEF OpToRel
<1>. QED BY <1>2

LEMMA SmallFacts ==
    ASSUME NEW n \in Nat
    PROVE  /\ <<>> \in SmallSeq(n)
           /\ \A s : s \in SmallSeq(n) <=> s \in Seq(Samples) /\ Len(s) <= n
<1>1. ASSUME NEW s, s \in SmallSeq(n) PROVE s \in Seq(Samples) /\ Len(s) <= n
  <2>1. PICK k \in 0..n : s \in [1..k -> Samples] BY <1>1 DEF SmallSeq
  <2>2. k \in Nat /\ k <= n BY <2>1
  <2>. QED BY <2>1, <2>2, Sequenced
<1>2. ASSUME NEW s \in Seq(Samples), Len(s) <= n PROVE s \in SmallSeq(n)
  <2>1. Len(s) \in 0..n /\ s \in [1..Len(s) -> Samples] BY <1>2
  <2>. QED BY <2>1 DEF SmallSeq
<1>3. <<>> \in Seq(Samples) /\ Len(<<>>) <= n OBVIOUS
<1>. QED BY <1>1, <1>2, <1>3

LEMMA FromSyncTyped ==
    ASSUME NEW s \in Seq(Samples)
    PROVE  FromSync(s) \in Seq(Samples)
<1>. DEFINE T == {i \in DOMAIN s : s[i] = "sync"}
<1>1. CASE T = {}
  <2>1. FromSync(s) = <<>> BY <1>1 DEF FromSync
  <2>. QED BY <2>1
<1>2. CASE T # {}
  <2>1. T \subseteq Nat BY DOMAIN s = 1..Len(s)
  <2>2. PICK x \in T : \A y \in T : x <= y BY <1>2, <2>1, Least
  <2>3. \E i \in DOMAIN s : s[i] = "sync" /\ \A j \in 1..(i - 1) : s[j] # "sync"
    <3>1. ASSUME NEW j \in 1..(x - 1) PROVE s[j] # "sync"
      <4>1. j \in DOMAIN s /\ ~(x <= j) OBVIOUS
      <4>. QED BY <2>2, <4>1
    <3>. QED BY <3>1
  <2>. DEFINE f == CHOOSE i \in DOMAIN s : s[i] = "sync" /\ \A j \in 1..(i - 1) : s[j] # "sync"
  <2>4. f \in DOMAIN s BY <2>3
  <2>5. FromSync(s) = SubSeq(s, f, Len(s)) BY <1>2 DEF FromSync
  <2>. HIDE DEF f
  <2>6. f \in 1..Len(s) BY <2>4
  <2>. QED BY <2>5, <2>6
<1>. QED BY <1>1, <1>2

LEMMA SmallAdd ==
    ASSUME NEW s \in SmallSeq(MaxPending), NEW x \in Samples
    PROVE  LET q == Append(s, x) IN
           (IF Len(q) > MaxPending THEN Tail(q) ELSE q) \in SmallSeq(MaxPending)
<1>1. s \in Seq(Samples) /\ Len(s) <= MaxPending /\ MaxPending \in Nat
  BY SmallFacts, PackagerAssumption
<1>. DEFINE q == Append(s, x)
<1>2. q \in Seq(Samples) /\ Len(q) = Len(s) + 1 /\ q # <<>> BY <1>1
<1>3. Tail(q) \in Seq(Samples) /\ Len(Tail(q)) = Len(s) BY <1>1, <1>2
<1>. HIDE DEF q
<1>4. CASE Len(q) > MaxPending BY <1>1, <1>3, <1>4, SmallFacts DEF q
<1>5. CASE ~(Len(q) > MaxPending)
  <2>1. Len(q) <= MaxPending BY <1>1, <1>2, <1>5
  <2>. QED BY <1>1, <1>2, <1>5, <2>1, SmallFacts DEF q
<1>. QED BY <1>4, <1>5

-----------------------------------------------------------------------------
\* The jobs of each part of a handler.
LEMMA JobsTyped ==
    /\ \A g \in Gens : InitJob(g) \in JobSet
    /\ \A g \in Gens, n \in 1..MaxSeg : SegJob(g, n) \in JobSet
    /\ \A g \in Gens, s \in Seq(1..MaxSeg) : MpdJob(g, s) \in JobSet
    /\ \A n \in 1..MaxSeg : DelSeg(n) \in JobSet
    /\ DelMpd \in JobSet
<1>1. \A g \in Gens, s \in Seq(1..MaxSeg) : MpdJob(g, s) \in [kind : {"mpd"}, gen : Gens, segs : Seq(1..MaxSeg)]
  BY DEF MpdJob
<1>. QED BY <1>1 DEF JobSet

LEMMA Numbered ==
    ASSUME NEW r \in Recs
    PROVE  /\ r.next \in Nat /\ r.next # 0 /\ r.start \in Nat /\ r.start # 0
           /\ r.next <= MaxSeg + 1 /\ r.start <= MaxSeg + 1 /\ MaxSeg \in Nat /\ MaxSeg # 0
BY RecFields, DirectoryAssumption DEF Numbers

LEMMA SegmentsTyped ==
    ASSUME NEW r \in Recs, NEW k \in Nat, r.next + k <= MaxSeg + 1
    PROVE  /\ Number(r, k) \in Seq(1..MaxSeg) /\ Len(Number(r, k)) = k
           /\ [i \in 1..k |-> SegJob(r.gen, Number(r, k)[i])] \in Seq(JobSet)
           /\ r.next + k \in Numbers
<1>1. \A i \in 1..k : r.next + i - 1 \in 1..MaxSeg BY Numbered
<1>2. Number(r, k) \in [1..k -> 1..MaxSeg] BY <1>1 DEF Number
<1>. DEFINE s == Number(r, k)
            J == [i \in 1..k |-> SegJob(r.gen, s[i])]
<1>. HIDE DEF s
<1>3. s \in Seq(1..MaxSeg) /\ Len(s) = k /\ \A i \in 1..k : s[i] \in 1..MaxSeg
  BY <1>2, Sequenced DEF s
<1>4. J \in [1..k -> JobSet] BY <1>3, RecFields, JobsTyped
<1>. HIDE DEF J
<1>5. J \in Seq(JobSet) BY <1>4, Sequenced
<1>6. r.next + k \in Numbers BY Numbered DEF Numbers
<1>. QED BY <1>3, <1>5, <1>6 DEF s, J

LEMMA DeletesTyped ==
    ASSUME NEW n \in Nat, NEW f, \A i \in 1..n : f[i] \in 1..MaxSeg
    PROVE  /\ [i \in 1..n |-> DelSeg(f[i])] \in Seq(JobSet)
           /\ Len([i \in 1..n |-> DelSeg(f[i])]) = n
<1>. DEFINE J == [i \in 1..n |-> DelSeg(f[i])]
<1>1. J \in [1..n -> JobSet] BY JobsTyped
<1>. HIDE DEF J
<1>2. J \in Seq(JobSet) /\ Len(J) = n BY <1>1, Sequenced
<1>. QED BY <1>2 DEF J

LEMMA RangeDeletes ==
    ASSUME NEW a \in Nat, a # 0, NEW n \in Nat, a + n <= MaxSeg + 1
    PROVE  [i \in 1..n |-> DelSeg(a + i - 1)] \in Seq(JobSet)
<1>. DEFINE J == [i \in 1..n |-> DelSeg(a + i - 1)]
<1>1. \A i \in 1..n : a + i - 1 \in 1..MaxSeg BY DirectoryAssumption
<1>2. J \in [1..n -> JobSet] BY <1>1, JobsTyped
<1>. HIDE DEF J
<1>3. J \in Seq(JobSet) BY <1>2, Sequenced
<1>. QED BY <1>3 DEF J

LEMMA Join ==
    ASSUME NEW S, NEW s \in Seq(S), NEW t \in Seq(S)
    PROVE  s \o t \in Seq(S)
OBVIOUS

LEMMA PurgeTyped ==
    ASSUME NEW r \in Recs, Counted(r)
    PROVE  Purge(r) \in Seq(JobSet)
<1>. DEFINE A == [i \in DOMAIN r.timeline |-> DelSeg(r.timeline[i])]
            B == [i \in 1..(r.next - r.start) |-> DelSeg(r.start + i - 1)]
            C == <<DelMpd>>
<1>. DEFINE n == Len(r.timeline)
<1>2. n \in Nat /\ DOMAIN r.timeline = 1..n /\ \A i \in 1..n : r.timeline[i] \in 1..MaxSeg
  BY RecFields, ElementOf
<1>. HIDE DEF n
<1>3. A \in Seq(JobSet) BY <1>2, DeletesTyped
<1>4. r.next - r.start \in Nat BY DEF Counted
<1>5. r.start + (r.next - r.start) <= MaxSeg + 1 BY <1>4, Numbered
<1>6. B \in Seq(JobSet) BY <1>4, <1>5, Numbered, RangeDeletes
<1>7. C \in Seq(JobSet) BY JobsTyped
<1>. HIDE DEF A, B, C
<1>8. A \o B \o C \in Seq(JobSet) BY <1>3, <1>6, <1>7
<1>. QED BY <1>8 DEF Purge, A, B, C

LEMMA RunTyped ==
    ASSUME NEW a \in Nat, a # 0, NEW n \in Nat, a + n <= MaxSeg + 1
    PROVE  Run(a, n) \in Seq(1..MaxSeg) /\ Len(Run(a, n)) = n
<1>1. \A i \in 1..n : a + i - 1 \in 1..MaxSeg BY DirectoryAssumption
<1>2. Run(a, n) \in [1..n -> 1..MaxSeg] BY <1>1 DEF Run
<1>. QED BY <1>2, Sequenced

\* What a packager is between two calls.
Sound(r) == r \in Recs /\ Windowed(r)

LEMMA AddTyped ==
    ASSUME NEW r \in Recs, Counted(r), NEW k \in Nat, r.next + k <= MaxSeg + 1
    PROVE  AddSegments(r, k) \in Recs
<1>. DEFINE s == [i \in 1..k |-> SegJob(r.gen, Number(r, k)[i])]
            t == r.todo \o s
            l == r.timeline \o Number(r, k)
            n == r.next + k
<1>1. s \in Seq(JobSet) /\ Number(r, k) \in Seq(1..MaxSeg) /\ n \in Numbers BY SegmentsTyped
<1>2. AddSegments(r, k) = [r EXCEPT !.todo = t, !.timeline = l, !.next = n] BY DEF AddSegments
<1>. HIDE DEF s
<1>3. t \in Seq(JobSet) /\ l \in Seq(1..MaxSeg) BY <1>1, RecFields, Join
<1>. HIDE DEF t, l, n
<1>4. n \in Numbers BY <1>1
<1>5. [r EXCEPT !.todo = t, !.timeline = l, !.next = n] \in Recs BY <1>3, <1>4, RecAdd
<1>. QED BY <1>2, <1>5

LEMMA PruneTyped ==
    ASSUME NEW r \in Recs, Counted(r)
    PROVE  Prune(r) \in Recs
<1>. DEFINE low == IF r.next - r.start > Keep THEN r.next - Keep ELSE r.start
            s == [i \in 1..(low - r.start) |-> DelSeg(r.start + i - 1)]
            t == r.todo \o s
            l == IF low = r.start THEN r.timeline ELSE PopBelow(r.timeline, low)
<1>1. Keep \in Nat BY DirectoryAssumption DEF Keep, Grace
<1>2. r.next \in Nat /\ r.start \in Nat /\ r.start # 0 /\ r.start <= r.next /\ r.next <= MaxSeg + 1
      /\ MaxSeg \in Nat
  BY Numbered DEF Counted
<1>3. low \in r.start..r.next BY <1>1, <1>2
<1>4. Prune(r) = [r EXCEPT !.todo = t, !.start = low, !.timeline = l] BY DEF Prune
<1>. HIDE DEF low
<1>5. low - r.start \in Nat /\ r.start + (low - r.start) <= MaxSeg + 1 BY <1>2, <1>3
<1>6. s \in Seq(JobSet) BY <1>2, <1>5, RangeDeletes
<1>7. low \in Numbers BY <1>2, <1>3 DEF Numbers
<1>8. l \in Seq(1..MaxSeg)
  <2>1. r.timeline = Run(r.start, r.next - r.start) BY DEF Counted
  <2>2. PICK n \in Nat : n = r.next - r.start BY <1>2
  <2>3. low \in r.start..(r.start + n) BY <1>2, <1>3, <2>2
  <2>4. PopBelow(r.timeline, low) = Run(low, r.start + n - low) BY <1>2, <2>1, <2>2, <2>3, RunPops
  <2>5. r.start + n - low \in Nat /\ low + (r.start + n - low) <= MaxSeg + 1 /\ low \in Nat /\ low # 0
    BY <1>2, <1>3, <2>2
  <2>6. Run(low, r.start + n - low) \in Seq(1..MaxSeg) BY <2>5, RunTyped
  <2>. QED BY <2>4, <2>6, RecFields
<1>. HIDE DEF s
<1>9. t \in Seq(JobSet) BY <1>6, RecFields, Join
<1>. HIDE DEF t, l
<1>10. [r EXCEPT !.todo = t, !.start = low, !.timeline = l] \in Recs BY <1>7, <1>8, <1>9, RecPrune
<1>. QED BY <1>4, <1>10

LEMMA FlushTyped ==
    ASSUME NEW r \in Recs, NEW dirty
    PROVE  FlushMpd(r, dirty) \in Recs
<1>1. MpdJob(r.gen, r.timeline) \in JobSet BY RecFields, JobsTyped
<1>. DEFINE t == Append(r.todo, MpdJob(r.gen, r.timeline))
<1>2. t \in Seq(JobSet) BY <1>1, RecFields
<1>3. FlushMpd(r, dirty) \in {r, [r EXCEPT !.todo = t]} BY DEF FlushMpd
<1>. HIDE DEF t
<1>. QED BY <1>2, <1>3, RecQueue

LEMMA StartTyped ==
    ASSUME NEW r \in Recs, NEW built
    PROVE  Start(r, built) \in Recs
<1>. DEFINE t == Append(r.todo, InitJob(r.gen))
            y == r.replay \o FromSync(r.pending)
<1>1. InitJob(r.gen) \in JobSet BY RecFields, JobsTyped
<1>2. t \in Seq(JobSet) BY <1>1, RecFields
<1>3. FromSync(r.pending) \in Seq(Samples) BY RecFields, PackagerAssumption, SmallFacts, FromSyncTyped
<1>4. y \in Seq(Samples) BY <1>3, RecFields, Join
<1>5. <<>> \in SmallSeq(MaxPending) BY PackagerAssumption, SmallFacts
<1>6. Start(r, built) \in {r, [r EXCEPT !.todo = t, !.seg = TRUE, !.replay = y, !.pending = <<>>]}
  BY DEF Start
<1>. HIDE DEF t, y
<1>7. [r EXCEPT !.todo = t, !.seg = TRUE, !.replay = y, !.pending = <<>>] \in Recs
  BY <1>2, <1>4, <1>5, RecStart
<1>. QED BY <1>6, <1>7

LEMMA RestartTyped ==
    ASSUME NEW r \in Recs, NEW g \in Gens, now \in Nat
    PROVE  Restart(r, g) \in Recs
<1>1. <<>> \in SmallSeq(MaxPending) BY PackagerAssumption, SmallFacts
<1>2. 1 \in Numbers BY DirectoryAssumption DEF Numbers
<1>3. PICK i \in Nat : i = NextPeriod(r.period) BY RecFields DEF NextPeriod
<1>. QED BY <1>1, <1>2, <1>3, RecRestart DEF Restart

LEMMA RotateTyped ==
    ASSUME NEW r \in Recs, Counted(r), NEW built, Len(periods) + 1 \in Gens, now \in Nat
    PROVE  Rotate(r, built) \in Recs
<1>. DEFINE t == r.todo \o Purge(r)
            old == [r EXCEPT !.todo = t]
<1>1. Purge(r) \in Seq(JobSet) BY PurgeTyped
<1>2. t \in Seq(JobSet) BY <1>1, RecFields, Join
<1>3. Rotate(r, built) = Start(Restart(old, Len(periods) + 1), built) BY DEF Rotate
<1>. HIDE DEF t
<1>4. old \in Recs BY <1>2, RecQueue
<1>. HIDE DEF old
<1>. QED BY <1>3, <1>4, RestartTyped, StartTyped

\* The generation that a handler leaves.
LEMMA StartGen ==
    ASSUME NEW r, NEW built
    PROVE  /\ r.gen = Start(r, built).gen /\ r.next = Start(r, built).next
           /\ r.period = Start(r, built).period
BY DEF Start

LEMMA RotateGen ==
    ASSUME NEW r, DOMAIN r = Fields, NEW built
    PROVE  Rotate(r, built).gen = Len(periods) + 1
<1>. DEFINE old == [r EXCEPT !.todo = @ \o Purge(r)]
            new == Restart(old, Len(periods) + 1)
<1>1. DOMAIN old = Fields BY DEF Fields
<1>2. Rotate(r, built) = Start(new, built) BY DEF Rotate
<1>. HIDE DEF old
<1>3. new.gen = Len(periods) + 1 BY <1>1 DEF Restart, Fields
<1>. HIDE DEF new
<1>. QED BY <1>2, <1>3, StartGen

\* A generation is a number in the bound when Becomes has accepted it.
Room(r) == Len(periods) \in Nat /\ now \in Nat /\ r.gen <= MaxGen

LEMMA RotateBounded ==
    ASSUME NEW r \in Recs, Counted(r), NEW built, Room(Rotate(r, built))
    PROVE  Rotate(r, built) \in Recs
<1>1. Rotate(r, built).gen = Len(periods) + 1 BY RotateGen DEF Counted
<1>2. Len(periods) + 1 \in Gens BY <1>1, PackagerAssumption DEF Room, Gens
<1>. QED BY <1>2, RotateTyped DEF Room

LEMMA DrainTyped ==
    ASSUME NEW r \in Recs, Windowed(r), NEW k \in Nat, r.next + k <= MaxSeg + 1,
           NEW skewed \in BOOLEAN, NEW built, Room(Drain(r, k, skewed, built))
    PROVE  Drain(r, k, skewed, built) \in Recs
<1>. DEFINE more == AddSegments(r, k)
<1>1. Counted(more) /\ more \in Recs BY AddCounted, AddTyped DEF Windowed
<1>2. Drain(r, k, skewed, built) = IF skewed THEN Rotate(more, built) ELSE FlushMpd(Prune(more), k > 0)
  BY DEF Drain
<1>. HIDE DEF more
<1>3. CASE skewed BY <1>1, <1>2, <1>3, RotateBounded
<1>4. CASE ~skewed BY <1>1, <1>2, <1>4, PruneTyped, FlushTyped
<1>. QED BY <1>3, <1>4

LEMMA PushTyped ==
    ASSUME NEW r \in Recs, Windowed(r), NEW sample, NEW k \in Nat, r.next + k <= MaxSeg + 1,
           NEW skewed \in BOOLEAN, NEW built, Room(Push(r, sample, k, skewed, built))
    PROVE  Push(r, sample, k, skewed, built) \in Recs
<1>. DEFINE q == [r EXCEPT !.started = TRUE]
<1>1. q \in Recs /\ q.next = r.next BY RecOther DEF Windowed, Counted, Fields
<1>2. Windowed(q) BY DEF Windowed, Counted, Fields
<1>3. Push(r, sample, k, skewed, built) \in {r, q, Drain(q, k, skewed, built)} BY DEF Push
<1>. HIDE DEF q
<1>4. CASE Push(r, sample, k, skewed, built) \in {r, q} BY <1>1, <1>4
<1>5. CASE Push(r, sample, k, skewed, built) = Drain(q, k, skewed, built)
  BY <1>1, <1>2, <1>5, DrainTyped
<1>. QED BY <1>3, <1>4, <1>5

-----------------------------------------------------------------------------
\* The files.
DirSet == [init : Gens, mpd : [gen : Gens, segs : Seq(1..MaxSeg)],
           seg : [1..MaxSeg -> Gens], lost : BOOLEAN]

LEMMA AfterTyped ==
    ASSUME NEW d \in DirSet, NEW job \in JobSet
    PROVE  After(d, job) \in DirSet
<1>. DEFINE Mpds == [gen : Gens, segs : Seq(1..MaxSeg)]
<1>1. 0 \in Gens BY PackagerAssumption DEF Gens
<1>2. NoMpd \in Mpds BY <1>1 DEF NoMpd
<1>3. d.seg \in [1..MaxSeg -> Gens] /\ d.mpd \in Mpds BY DEF DirSet
<1>4. CASE \E g \in Gens : job = InitJob(g) BY <1>4 DEF InitJob, After, DirSet
<1>5. CASE \E g \in Gens, n \in 1..MaxSeg : job = SegJob(g, n)
  <2>1. PICK g \in Gens, n \in 1..MaxSeg : job = SegJob(g, n) BY <1>5
  <2>2. PICK s \in [1..MaxSeg -> Gens] : s = [d.seg EXCEPT ![n] = g] BY <1>3
  <2>3. After(d, job) = [d EXCEPT !.seg = s] BY <2>1, <2>2 DEF After, SegJob
  <2>. QED BY <2>3 DEF DirSet
<1>6. CASE job \in [kind : {"mpd"}, gen : Gens, segs : Seq(1..MaxSeg)]
  <2>1. PICK m \in Mpds : m = [gen |-> job.gen, segs |-> job.segs] BY <1>6
  <2>2. After(d, job) = [d EXCEPT !.mpd = m] BY <1>6, <2>1 DEF After
  <2>. QED BY <2>2 DEF DirSet
<1>7. CASE \E n \in 1..MaxSeg : job = DelSeg(n)
  <2>1. PICK n \in 1..MaxSeg : job = DelSeg(n) BY <1>7
  <2>2. PICK s \in [1..MaxSeg -> Gens] : s = [d.seg EXCEPT ![n] = 0] BY <1>1, <1>3
  <2>3. After(d, job) = [d EXCEPT !.seg = s] BY <2>1, <2>2 DEF After, DelSeg
  <2>. QED BY <2>3 DEF DirSet
<1>8. CASE job = DelMpd
  <2>1. After(d, job) = [d EXCEPT !.mpd = NoMpd] BY <1>8 DEF After, DelMpd
  <2>. QED BY <1>2, <2>1 DEF DirSet
<1>. QED BY <1>4, <1>5, <1>6, <1>7, <1>8 DEF JobSet

LEMMA EmptyTyped == EmptyDir \in DirSet
<1>. DEFINE s == [n \in 1..MaxSeg |-> 0]
            l == FALSE
<1>1. 0 \in Gens BY PackagerAssumption DEF Gens
<1>2. NoMpd \in [gen : Gens, segs : Seq(1..MaxSeg)] BY <1>1 DEF NoMpd
<1>3. s \in [1..MaxSeg -> Gens] /\ l \in BOOLEAN BY <1>1
<1>4. EmptyDir = [init |-> 0, mpd |-> NoMpd, seg |-> s, lost |-> l] BY DEF EmptyDir
<1>. HIDE DEF s, l
<1>. QED BY <1>1, <1>2, <1>3, <1>4 DEF DirSet

\* A file less; an operation that has failed.
LEMMA FewerTyped ==
    ASSUME NEW d \in DirSet, NEW e \in Fewer(d)
    PROVE  e \in DirSet
<1>. DEFINE D == {DelMpd} \cup {DelSeg(n) : n \in 1..MaxSeg}
            less == {After(d, job) : job \in D} \cup {[d EXCEPT !.init = 0]}
<1>1. PICK c \in less : e = [c EXCEPT !.lost = TRUE] BY DEF Fewer
<1>2. D \subseteq JobSet BY JobsTyped
<1>3. c \in DirSet
  <2>1. CASE c = [d EXCEPT !.init = 0] BY <2>1, PackagerAssumption DEF DirSet, Gens
  <2>2. CASE \E job \in D : c = After(d, job) BY <1>2, <2>2, AfterTyped
  <2>. QED BY <1>1, <2>1, <2>2
<1>. QED BY <1>1, <1>3 DEF DirSet

LEMMA WipedTyped ==
    ASSUME dir \in DirSet, Wiped
    PROVE  dir' \in DirSet
<1>1. [dir EXCEPT !.lost = TRUE] \in DirSet BY DEF DirSet
<1>. QED BY <1>1, EmptyTyped DEF Wiped

Rows == [id : Nat, by : Packager, opens : BOOLEAN]
Row(i, p, o) == [id |-> i, by |-> p, opens |-> o]

LEMMA RowFacts ==
    ASSUME NEW i \in Nat, NEW p \in Packager, NEW o \in BOOLEAN
    PROVE  Row(i, p, o) \in Rows /\ Row(i, p, o).id = i /\ Row(i, p, o).opens = o
BY DEF Row, Rows

\* What Becomes makes of the history.
LEMMA BecomesRow ==
    ASSUME NEW p \in Packager, NEW r, Becomes(p, r)
    PROVE  \E o \in BOOLEAN :
              /\ o <=> pk[p].phase = "opening"
              /\ periods' = IF r.gen > Len(periods) THEN Append(periods, Row(r.period, p, o)) ELSE periods
<1>. DEFINE o == pk[p].phase = "opening"
<1>1. periods' = IF r.gen > Len(periods) THEN Append(periods, Row(r.period, p, o)) ELSE periods
  BY Zenon DEF Becomes, Row
<1>2. o \in BOOLEAN /\ (o <=> pk[p].phase = "opening") OBVIOUS
<1>. HIDE DEF o
<1>. QED BY <1>1, <1>2

Types ==
    /\ pk \in [Packager -> Recs] /\ pipe \in [Packager -> Seq(JobSet)] /\ dir \in DirSet
    /\ periods \in Seq(Rows) /\ Len(periods) \in Gens
    /\ now \in 1..MaxClock

LEMMA TypesMean == Types <=> TypeOK
BY DEF Types, TypeOK, Recs, Phases, DirSet, Rows

LEMMA ClosedSound == Closed \in Recs
<1>. DEFINE f == FALSE
<1>1. f \in BOOLEAN OBVIOUS
<1>2. <<>> \in SmallSeq(MaxPending) BY PackagerAssumption, SmallFacts
<1>3. 1 \in Numbers BY DirectoryAssumption DEF Numbers
<1>4. 0 \in Gens BY PackagerAssumption DEF Gens
<1>5. Closed = [phase |-> "gone", todo |-> <<>>, video |-> 0, audio |-> 0, seg |-> f,
                pending |-> <<>>, replay |-> <<>>, started |-> f,
                next |-> 1, start |-> 1, timeline |-> <<>>, gen |-> 0, period |-> 0]
  BY DEF Closed
<1>. HIDE DEF f
<1>6. <<>> \in Seq(JobSet) /\ <<>> \in Seq(Samples) /\ <<>> \in Seq(1..MaxSeg) OBVIOUS
<1>7. "gone" \in Phases BY DEF Phases
<1>. QED BY <1>1, <1>2, <1>3, <1>4, <1>5, <1>6, <1>7 DEF Recs

LEMMA BecomesTyped ==
    ASSUME Types, NEW p \in Packager, NEW r \in Recs, Becomes(p, r)
    PROVE  /\ pk' \in [Packager -> Recs]
           /\ periods' \in Seq(Rows) /\ Len(periods') \in Gens
<1>1. pk' \in [Packager -> Recs] BY DEF Becomes, Types
<1>2. r.gen \in Gens /\ r.period \in Nat BY RecFields
<1>3. PICK o \in BOOLEAN :
         periods' = IF r.gen > Len(periods) THEN Append(periods, Row(r.period, p, o)) ELSE periods
  BY BecomesRow
<1>4. PICK b \in Rows : b = Row(r.period, p, o) BY <1>2, RowFacts
<1>5. CASE r.gen > Len(periods)
  <2>1. Len(periods) + 1 \in Gens BY <1>2, <1>5, PackagerAssumption DEF Types, Gens
  <2>2. periods' = Append(periods, b) BY <1>3, <1>4, <1>5
  <2>3. periods' \in Seq(Rows) /\ Len(periods') = Len(periods) + 1
    BY <2>2, Appended DEF Types
  <2>. QED BY <1>1, <2>1, <2>3
<1>6. CASE ~(r.gen > Len(periods)) BY <1>1, <1>3, <1>6 DEF Types
<1>. QED BY <1>5, <1>6

\* A handler that only makes p's packager r.
LEMMA HandlerTyped ==
    ASSUME Types, NEW p \in Packager, NEW r, Becomes(p, r), Room(r) => r \in Recs,
           UNCHANGED <<pipe, dir, now>>
    PROVE  Types'
<1>1. Len(periods) \in Nat /\ now \in Nat BY PackagerAssumption DEF Types, Gens
<1>2. r \in Recs BY <1>1 DEF Becomes, Room
<1>. QED BY <1>2, BecomesTyped DEF Types

LEMMA QueueFacts ==
    ASSUME NEW S, NEW s \in Seq(S), s # <<>>
    PROVE  Head(s) \in S /\ Tail(s) \in Seq(S)
OBVIOUS

LEMMA InitTyped == Init => Types
<1>1. <<>> \in Seq(JobSet) /\ <<>> \in Seq(Rows) /\ Len(<<>>) = 0 OBVIOUS
<1>2. 0 \in Gens /\ 1 \in 1..MaxClock BY PackagerAssumption DEF Gens
<1>. QED BY <1>1, <1>2, ClosedSound, EmptyTyped DEF Init, Types

LEMMA BatchRoom ==
    ASSUME NEW r \in Recs, NEW k \in Nat, Batch(r, k)
    PROVE  r.next + k <= MaxSeg + 1
BY Numbered DEF Batch

LEMMA NextTyped == Types /\ Inv /\ [Next]_vars => Types'
<1>. SUFFICES ASSUME Types, Inv, [Next]_vars PROVE Types' OBVIOUS
<1>1. ASSUME NEW p \in Packager
      PROVE  pk[p] \in Recs /\ Windowed(pk[p]) /\ Counted(pk[p]) /\ DOMAIN pk[p] = Fields
  BY DEF Types, Inv, Windowed, Counted
<1>2. now \in Nat /\ MaxBatch \in Nat BY PackagerAssumption DEF Types
<1>3. ASSUME NEW p \in Packager, Media(p) PROVE Types'
  <2>1. PICK built \in Builds :
           \/ \E c \in ConfigId : VideoConfig(p, c, built) \/ AudioConfig(p, c, built)
           \/ Discontinuity(p, built)
           \/ \E sample \in Samples : QueueSample(p, sample)
           \/ \E sample \in Samples, k \in 0..MaxBatch, skewed \in BOOLEAN :
                 PushSample(p, sample, k, skewed, built)
    BY <1>3 DEF Media
  <2>2. ASSUME NEW c \in ConfigId, NEW r, r \in {[pk[p] EXCEPT !.video = c], [pk[p] EXCEPT !.audio = c]}
        PROVE  r \in Recs /\ Counted(r)
    <3>1. [pk[p] EXCEPT !.video = c] \in Recs /\ [pk[p] EXCEPT !.audio = c] \in Recs
      BY <1>1, RecOther
    <3>2. Counted(r) BY <1>1, <2>2 DEF Counted, Fields
    <3>. QED BY <2>2, <3>1, <3>2
  <2>3. ASSUME NEW c \in ConfigId, VideoConfig(p, c, built) \/ AudioConfig(p, c, built) PROVE Types'
    <3>1. PICK r \in {[pk[p] EXCEPT !.video = c], [pk[p] EXCEPT !.audio = c]} :
             Becomes(p, Start(r, built)) \/ Becomes(p, Rotate(r, built))
      BY <2>3 DEF VideoConfig, AudioConfig
    <3>2. UNCHANGED <<pipe, dir, now>> BY <2>3 DEF VideoConfig, AudioConfig
    <3>3. r \in Recs /\ Counted(r) BY <2>2
    <3>4. Start(r, built) \in Recs BY <3>3, StartTyped
    <3>5. Room(Rotate(r, built)) => Rotate(r, built) \in Recs BY <3>3, RotateBounded
    <3>. QED BY <3>1, <3>2, <3>4, <3>5, HandlerTyped
  <2>4. ASSUME Discontinuity(p, built) PROVE Types'
    <3>1. Room(Rotate(pk[p], built)) => Rotate(pk[p], built) \in Recs BY <1>1, RotateBounded
    <3>. QED BY <2>4, <3>1, HandlerTyped DEF Discontinuity
  <2>5. ASSUME NEW sample \in Samples, QueueSample(p, sample) PROVE Types'
    <3>. DEFINE q == Append(pk[p].pending, sample)
                s == IF Len(q) > MaxPending THEN Tail(q) ELSE q
                r == [pk[p] EXCEPT !.pending = s]
    <3>1. s \in SmallSeq(MaxPending) BY <1>1, RecFields, SmallAdd
    <3>2. Becomes(p, r) /\ UNCHANGED <<pipe, dir, now>> BY <2>5 DEF QueueSample
    <3>. HIDE DEF s
    <3>3. r \in Recs BY <1>1, <3>1, RecOther
    <3>. HIDE DEF r
    <3>. QED BY <3>2, <3>3, HandlerTyped
  <2>6. ASSUME NEW sample \in Samples, NEW k \in 0..MaxBatch, NEW skewed \in BOOLEAN,
               PushSample(p, sample, k, skewed, built)
        PROVE  Types'
    <3>. DEFINE r == Push(pk[p], sample, k, skewed, built)
    <3>1. Batch(pk[p], k) /\ Becomes(p, r) /\ UNCHANGED <<pipe, dir, now>> BY <2>6 DEF PushSample
    <3>2. k \in Nat OBVIOUS
    <3>3. pk[p].next + k <= MaxSeg + 1 BY <1>1, <3>1, <3>2, BatchRoom
    <3>4. Room(r) => r \in Recs BY <1>1, <3>2, <3>3, PushTyped
    <3>. HIDE DEF r
    <3>. QED BY <3>1, <3>4, HandlerTyped
  <2>. QED BY <2>1, <2>3, <2>4, <2>5, <2>6
<1>4. ASSUME NEW p \in Packager, Inner(p) PROVE Types'
  <2>1. ASSUME NEW built \in Builds, NEW k \in 0..MaxBatch, NEW skewed \in BOOLEAN,
               ReplaySample(p, k, skewed, built)
        PROVE  Types'
    <3>. DEFINE s == Tail(pk[p].replay)
                q == [pk[p] EXCEPT !.replay = s]
                r == Push(q, Head(pk[p].replay), k, skewed, built)
    <3>1. Batch(pk[p], k) /\ Becomes(p, r) /\ UNCHANGED <<pipe, dir, now>> /\ pk[p].replay # <<>>
      BY <2>1 DEF ReplaySample
    <3>2. k \in Nat OBVIOUS
    <3>3. pk[p].next + k <= MaxSeg + 1 BY <1>1, <3>1, <3>2, BatchRoom
    <3>4. s \in Seq(Samples) BY <1>1, <3>1, RecFields, QueueFacts
    <3>. HIDE DEF s
    <3>5. q \in Recs /\ Windowed(q) /\ q.next = pk[p].next
      BY <1>1, <3>4, RecOther DEF Windowed, Counted, Fields
    <3>. HIDE DEF q
    <3>6. Room(r) => r \in Recs BY <3>2, <3>3, <3>5, PushTyped
    <3>. HIDE DEF r
    <3>. QED BY <3>1, <3>6, HandlerTyped
  <2>2. ASSUME FinishDone(p) \/ ReconnectDone(p) PROVE Types'
    <3>1. "closed" \in Phases /\ "live" \in Phases BY DEF Phases
    <3>2. [pk[p] EXCEPT !.phase = "closed"] \in Recs /\ [pk[p] EXCEPT !.phase = "live"] \in Recs
      BY <1>1, <3>1, RecOther
    <3>3. CASE FinishDone(p) BY <3>2, <3>3, HandlerTyped DEF FinishDone
    <3>4. CASE ReconnectDone(p) BY <3>2, <3>4, BecomesTyped, WipedTyped DEF ReconnectDone, Types
    <3>. QED BY <2>2, <3>3, <3>4
  <2>3. ASSUME Accept(p) PROVE Types'
    <3>. DEFINE t == Tail(pk[p].todo)
                q == Append(pipe[p], Head(pk[p].todo))
    <3>1. pk[p].todo \in Seq(JobSet) /\ pk[p].todo # <<>> BY <1>1, <2>3, RecFields DEF Accept
    <3>2. Head(pk[p].todo) \in JobSet /\ t \in Seq(JobSet) BY <3>1, QueueFacts
    <3>3. q \in Seq(JobSet) BY <3>2 DEF Types
    <3>4. pk' = [pk EXCEPT ![p] = [pk[p] EXCEPT !.todo = t]] /\ pipe' = [pipe EXCEPT ![p] = q]
          /\ UNCHANGED <<dir, periods, now>>
      BY <2>3 DEF Accept
    <3>. HIDE DEF t, q
    <3>5. [pk[p] EXCEPT !.todo = t] \in Recs BY <1>1, <3>2, RecQueue
    <3>6. pk' \in [Packager -> Recs] /\ pipe' \in [Packager -> Seq(JobSet)]
      BY <3>3, <3>4, <3>5 DEF Types
    <3>. QED BY <3>4, <3>6 DEF Types
  <2>4. ASSUME Apply(p) PROVE Types'
    <3>1. pipe[p] \in Seq(JobSet) /\ pipe[p] # <<>> BY <2>4 DEF Apply, Types
    <3>2. Head(pipe[p]) \in JobSet /\ Tail(pipe[p]) \in Seq(JobSet) BY <3>1, QueueFacts
    <3>3. dir' \in DirSet BY <2>4, <3>2, AfterTyped DEF Apply, Types
    <3>4. pipe' \in [Packager -> Seq(JobSet)] BY <2>4, <3>2 DEF Apply, Types
    <3>. QED BY <2>4, <3>3, <3>4 DEF Apply, Types
  <2>5. ASSUME Remove(p) PROVE Types' BY <2>5, FewerTyped DEF Remove, Types
  <2>6. ASSUME Opened(p) PROVE Types'
    <3>. DEFINE new == Restart(Closed, Len(periods) + 1)
    <3>1. Becomes(p, [new EXCEPT !.phase = "live"]) /\ Wiped /\ UNCHANGED <<pipe, now>>
      BY <2>6 DEF Opened
    <3>2. new.gen = Len(periods) + 1 BY DEF Restart, Closed
    <3>. HIDE DEF new
    <3>3. Len(periods) + 1 \in Gens
      BY <3>1, <3>2, PackagerAssumption DEF Becomes, Types, Gens
    <3>4. new \in Recs BY <1>2, <3>3, ClosedSound, RestartTyped DEF new
    <3>5. "live" \in Phases BY DEF Phases
    <3>6. [new EXCEPT !.phase = "live"] \in Recs BY <3>4, <3>5, RecOther
    <3>. QED BY <3>1, <3>6, BecomesTyped, WipedTyped DEF Types
  <2>. QED BY <1>4, <2>1, <2>2, <2>3, <2>4, <2>5, <2>6 DEF Inner
<1>5. ASSUME NEW p \in Packager, Owner(p) PROVE Types'
  <2>1. ASSUME Open(p) PROVE Types'
    <3>1. Becomes(p, [Closed EXCEPT !.phase = "opening"]) /\ UNCHANGED <<pipe, dir, now>>
      BY <2>1 DEF Open
    <3>2. "opening" \in Phases BY DEF Phases
    <3>3. [Closed EXCEPT !.phase = "opening"] \in Recs BY <3>2, ClosedSound, RecOther
    <3>. QED BY <3>1, <3>3, HandlerTyped
  <2>2. ASSUME Reconnect(p) PROVE Types'
    <3>. DEFINE new == Restart(pk[p], Len(periods) + 1)
                r == [new EXCEPT !.video = 0, !.audio = 0, !.phase = "wiping"]
    <3>1. Becomes(p, r) /\ UNCHANGED <<pipe, dir, now>> BY <2>2 DEF Reconnect
    <3>2. new.gen = Len(periods) + 1 BY <1>1 DEF Restart, Fields
    <3>. HIDE DEF new
    <3>3. r.gen = new.gen OBVIOUS
    <3>4. Room(r) => Len(periods) + 1 \in Gens
      BY <3>2, <3>3, PackagerAssumption DEF Room, Gens
    <3>5. Room(r) => new \in Recs BY <1>1, <1>2, <3>4, RestartTyped DEF new
    <3>6. new \in Recs => r \in Recs BY DEF Recs, Phases
    <3>. HIDE DEF r
    <3>. QED BY <3>1, <3>5, <3>6, HandlerTyped
  <2>3. ASSUME Drop(p) PROVE Types'
    <3>1. PICK k \in 0..1 : k <= Len(pipe[p]) /\ pipe' = [pipe EXCEPT ![p] = SubSeq(@, 1, k)]
      BY <2>3 DEF Drop
    <3>2. pipe[p] \in Seq(JobSet) BY DEF Types
    <3>3. SubSeq(pipe[p], 1, k) \in Seq(JobSet) BY <3>1, <3>2
    <3>4. pipe' \in [Packager -> Seq(JobSet)] BY <3>1, <3>3 DEF Types
    <3>5. pk' \in [Packager -> Recs] BY <2>3, ClosedSound DEF Drop, Types
    <3>. QED BY <2>3, <3>4, <3>5 DEF Drop, Types
  <2>4. ASSUME NEW built \in Builds, NEW k \in 0..MaxBatch, NEW skewed \in BOOLEAN,
               Finish(p, k, skewed, built)
        PROVE  Types'
    <3>. DEFINE q == IF pk[p].seg THEN Drain(pk[p], k, skewed, built) ELSE pk[p]
                r == [q EXCEPT !.phase = "closing"]
    <3>1. Batch(pk[p], k) /\ Becomes(p, r) /\ UNCHANGED <<pipe, dir, now>> BY <2>4 DEF Finish
    <3>2. k \in Nat OBVIOUS
    <3>3. pk[p].next + k <= MaxSeg + 1 BY <1>1, <3>1, <3>2, BatchRoom
    <3>4. Room(q) => q \in Recs BY <1>1, <3>2, <3>3, DrainTyped
    <3>5. r.gen = q.gen
      <4>1. DOMAIN q = Fields BY <1>1, <3>2, DrainWindowed DEF Windowed, Counted
      <4>. HIDE DEF q
      <4>. QED BY <4>1 DEF Fields
    <3>. HIDE DEF q
    <3>6. "closing" \in Phases BY DEF Phases
    <3>7. q \in Recs => r \in Recs BY <3>6, RecOther
    <3>8. Room(r) => r \in Recs BY <3>4, <3>5, <3>7 DEF Room
    <3>. HIDE DEF r
    <3>. QED BY <3>1, <3>8, HandlerTyped
  <2>. QED BY <1>5, <2>1, <2>2, <2>3, <2>4 DEF Owner
<1>6. ASSUME NEW p \in Packager, FailJob(p) PROVE Types'
  <2>1. pipe[p] \in Seq(JobSet) /\ pipe[p] # <<>> BY <1>6 DEF FailJob, Types
  <2>2. Tail(pipe[p]) \in Seq(JobSet) BY <2>1, QueueFacts
  <2>3. pipe' \in [Packager -> Seq(JobSet)] BY <1>6, <2>2 DEF FailJob, Types
  <2>4. dir' \in DirSet BY <1>6 DEF FailJob, Types, DirSet
  <2>. QED BY <1>6, <2>3, <2>4 DEF FailJob, Types
<1>7. CASE Tick BY <1>7, PackagerAssumption DEF Tick, Types
<1>8. CASE UNCHANGED vars BY <1>8 DEF Types, vars
<1>. QED BY <1>3, <1>4, <1>5, <1>6, <1>7, <1>8 DEF Next

\* Every variable keeps its type, for any number of packagers.
THEOREM TypeCorrect == Spec => []TypeOK
<1>1. Init => Types /\ Inv BY InitTyped, InitInv
<1>2. Types /\ Inv /\ [Next]_vars => (Types /\ Inv)' BY NextTyped, NextInv
<1>3. Types => TypeOK BY TypesMean
<1>. QED BY <1>1, <1>2, <1>3, PTL DEF Spec

-----------------------------------------------------------------------------
\* What a call makes of a packager that has no job left to hand over: how many
\* segments it adds, and the jobs it leaves for the writer.
Segs(g, n, k) == [i \in 1..k |-> SegJob(g, n + i - 1)]
Dels(a, n)    == [i \in 1..n |-> DelSeg(a + i - 1)]

\* The oldest segment that is kept when n is the number to come.
Low(n) == IF n > Keep THEN n - Keep ELSE 1

Fit(r) == r.start = Low(r.next) /\ (r.seg => Both(r)) /\ (~r.seg => r.next = 1)

Goes(r, q) == q.gen = r.gen /\ q.period = r.period

Still(r, q) == Goes(r, q) /\ q.todo = <<>> /\ q.next = r.next /\ q.seg = r.seg

Prepared(r, q) == Goes(r, q) /\ ~r.seg /\ q.seg /\ q.next = r.next /\ q.todo = <<InitJob(r.gen)>>

Added(r, q, k) ==
    /\ Goes(r, q) /\ r.seg /\ q.seg /\ q.next = r.next + k
    /\ q.todo = Segs(r.gen, r.next, k)
                \o Dels(Low(r.next), Low(r.next + k) - Low(r.next))
                \o <<MpdJob(r.gen, Run(Low(r.next + k), r.next + k - Low(r.next + k)))>>

Rotated(r, q, k) ==
    LET n == r.next + k - Low(r.next) IN
    /\ q.gen = Len(periods) + 1 /\ q.period = NextPeriod(r.period) /\ q.next = 1
    /\ k > 0 => r.seg
    /\ q.todo = Segs(r.gen, r.next, k)
                \o (Dels(Low(r.next), n) \o Dels(Low(r.next), n) \o <<DelMpd>>)
                \o (IF q.seg THEN <<InitJob(Len(periods) + 1)>> ELSE <<>>)

Handled(r, q, k) ==
    /\ Fit(q) /\ q.phase = r.phase
    /\ Still(r, q) \/ Prepared(r, q) \/ (k > 0 /\ Added(r, q, k)) \/ Rotated(r, q, k)

LEMMA SameFunction ==
    ASSUME NEW n \in Nat, NEW f, NEW g, f = [i \in 1..n |-> f[i]], g = [i \in 1..n |-> g[i]],
           \A i \in 1..n : f[i] = g[i]
    PROVE  f = g
OBVIOUS

LEMMA SegsTyped ==
    ASSUME NEW g \in Gens, NEW n \in Nat, n # 0, NEW k \in Nat, n + k <= MaxSeg + 1
    PROVE  Segs(g, n, k) \in Seq(JobSet) /\ Len(Segs(g, n, k)) = k
<1>1. \A i \in 1..k : n + i - 1 \in 1..MaxSeg BY DirectoryAssumption
<1>2. Segs(g, n, k) \in [1..k -> JobSet] BY <1>1, JobsTyped DEF Segs
<1>. QED BY <1>2, Sequenced

LEMMA DelsTyped ==
    ASSUME NEW a \in Nat, a # 0, NEW n \in Nat, a + n <= MaxSeg + 1
    PROVE  Dels(a, n) \in Seq(JobSet)
BY RangeDeletes DEF Dels

LEMMA LowFacts ==
    ASSUME NEW n \in Nat, n # 0
    PROVE  /\ Keep \in Nat /\ Keep # 0 /\ Low(n) \in Nat /\ Low(n) # 0 /\ Low(n) <= n /\ n - Low(n) \in Nat
           /\ n # 1 => Low(n) < n
           /\ \A k \in Nat : Low(n) <= Low(n + k) /\ Low(n + k) - Low(n) \in Nat
<1>1. Keep \in Nat /\ Keep # 0 BY DirectoryAssumption DEF Keep, Grace
<1>2. Low(n) \in Nat /\ Low(n) # 0 /\ Low(n) <= n /\ (n # 1 => Low(n) < n) BY <1>1 DEF Low
<1>3. \A k \in Nat : Low(n) <= Low(n + k) /\ Low(n + k) \in Nat BY <1>1 DEF Low
<1>4. n - Low(n) \in Nat BY <1>2
<1>5. ASSUME NEW k \in Nat PROVE Low(n + k) - Low(n) \in Nat
  <2>1. PICK a \in Nat : a = Low(n) BY <1>2
  <2>2. PICK b \in Nat : b = Low(n + k) BY <1>3
  <2>3. a <= b BY <1>3, <2>1, <2>2
  <2>4. b - a \in Nat BY <2>3
  <2>. QED BY <2>1, <2>2, <2>4
<1>. QED BY <1>1, <1>2, <1>3, <1>4, <1>5

LEMMA AddShape ==
    ASSUME NEW r \in Recs, Counted(r), NEW k \in Nat
    PROVE  LET q == AddSegments(r, k) IN
           /\ Goes(r, q) /\ q.seg = r.seg /\ q.video = r.video /\ q.audio = r.audio
           /\ q.next = r.next + k /\ q.start = r.start /\ q.phase = r.phase
           /\ q.replay = r.replay /\ q.pending = r.pending
           /\ q.todo = r.todo \o Segs(r.gen, r.next, k)
<1>. DEFINE s == [i \in 1..k |-> SegJob(r.gen, Number(r, k)[i])]
<1>1. s = Segs(r.gen, r.next, k)
  <2>1. \A i \in 1..k : Number(r, k)[i] = r.next + i - 1 BY DEF Number
  <2>2. \A i \in 1..k : s[i] = Segs(r.gen, r.next, k)[i] BY <2>1 DEF Segs
  <2>3. s = [i \in 1..k |-> s[i]] OBVIOUS
  <2>4. Segs(r.gen, r.next, k) = [i \in 1..k |-> Segs(r.gen, r.next, k)[i]] BY DEF Segs
  <2>. HIDE DEF s
  <2>. QED BY <2>2, <2>3, <2>4, SameFunction
<1>2. AddSegments(r, k) = [r EXCEPT !.todo = @ \o s, !.timeline = @ \o Number(r, k), !.next = @ + k]
  BY DEF AddSegments
<1>. HIDE DEF s
<1>. QED BY <1>1, <1>2 DEF Counted, Fields, Goes

LEMMA PruneShape ==
    ASSUME NEW r \in Recs, Counted(r), NEW low,
           low = IF r.next - r.start > Keep THEN r.next - Keep ELSE r.start
    PROVE  LET q == Prune(r) IN
           /\ Goes(r, q) /\ q.seg = r.seg /\ q.video = r.video /\ q.audio = r.audio
           /\ q.next = r.next /\ q.start = low /\ q.phase = r.phase
           /\ q.todo = r.todo \o Dels(r.start, low - r.start)
           /\ q.timeline = Run(low, r.next - low)
<1>1. Windowed(Prune(r)) BY PruneWindowed
<1>2. Prune(r) = [r EXCEPT !.todo = @ \o Dels(r.start, low - r.start), !.start = low,
                           !.timeline = IF low = r.start THEN @ ELSE PopBelow(@, low)]
  BY DEF Prune, Dels
<1>3. LET q == Prune(r) IN
      /\ Goes(r, q) /\ q.seg = r.seg /\ q.video = r.video /\ q.audio = r.audio
      /\ q.next = r.next /\ q.start = low /\ q.phase = r.phase
      /\ q.todo = r.todo \o Dels(r.start, low - r.start)
  BY <1>2 DEF Counted, Fields, Goes
<1>. QED BY <1>1, <1>3 DEF Windowed, Counted

LEMMA RotateShape ==
    ASSUME NEW r \in Recs, Counted(r), NEW built
    PROVE  LET q == Rotate(r, built)
               n == r.next - r.start
           IN  /\ q.gen = Len(periods) + 1 /\ q.period = NextPeriod(r.period) /\ q.next = 1 /\ q.start = 1
               /\ q.phase = r.phase /\ (q.seg => Both(q))
               /\ q.todo = r.todo \o (Dels(r.start, n) \o Dels(r.start, n) \o <<DelMpd>>)
                           \o (IF q.seg THEN <<InitJob(Len(periods) + 1)>> ELSE <<>>)
<1>. DEFINE n == r.next - r.start
            P == Dels(r.start, n) \o Dels(r.start, n) \o <<DelMpd>>
            old == [r EXCEPT !.todo = r.todo \o Purge(r)]
            new == Restart(old, Len(periods) + 1)
            q == Rotate(r, built)
<1>1. n \in Nat /\ r.start \in Nat /\ r.start # 0 /\ r.start + n <= MaxSeg + 1
  BY Numbered DEF Counted
<1>2. Purge(r) = P
  <2>. DEFINE A == [i \in DOMAIN r.timeline |-> DelSeg(r.timeline[i])]
  <2>1. DOMAIN r.timeline = 1..n /\ \A i \in 1..n : r.timeline[i] = r.start + i - 1
    BY <1>1 DEF Counted, Run
  <2>2. A = [i \in 1..n |-> A[i]] /\ \A i \in 1..n : A[i] = DelSeg(r.start + i - 1) BY <2>1
  <2>3. Dels(r.start, n) = [i \in 1..n |-> Dels(r.start, n)[i]]
        /\ \A i \in 1..n : Dels(r.start, n)[i] = DelSeg(r.start + i - 1)
    BY DEF Dels
  <2>. HIDE DEF A, n
  <2>4. A = Dels(r.start, n) BY <1>1, <2>2, <2>3, SameFunction
  <2>5. Purge(r) = A \o Dels(r.start, n) \o <<DelMpd>> BY DEF Purge, A, n, Dels
  <2>. QED BY <2>4, <2>5
<1>3. q = Start(new, built) BY DEF Rotate
<1>4. DOMAIN old = Fields /\ old.todo = r.todo \o P /\ old.period = r.period /\ old.phase = r.phase
  BY <1>2 DEF Counted, Fields
<1>. HIDE DEF old, P
<1>5. /\ DOMAIN new = Fields /\ new.todo = r.todo \o P /\ new.period = NextPeriod(r.period)
      /\ new.phase = r.phase /\ new.next = 1 /\ new.start = 1 /\ ~new.seg /\ new.gen = Len(periods) + 1
  BY <1>4 DEF Restart, Fields
<1>. HIDE DEF new
<1>6. CASE ~Both(new) \/ ~built
  <2>1. q = new BY <1>3, <1>6 DEF Start
  <2>2. r.todo \o P \in Seq(JobSet)
    <3>1. Purge(r) \in Seq(JobSet) BY PurgeTyped
    <3>. QED BY <1>2, <3>1, RecFields, Join
  <2>3. q.todo = r.todo \o P \o <<>> BY <1>5, <2>1, <2>2
  <2>. HIDE DEF q
  <2>. QED BY <1>5, <2>1, <2>3 DEF q, P
<1>7. CASE Both(new) /\ built
  <2>1. q = [new EXCEPT !.todo = Append(@, InitJob(new.gen)), !.seg = TRUE,
                        !.replay = @ \o FromSync(new.pending), !.pending = <<>>]
    BY <1>3, <1>5, <1>7 DEF Start
  <2>. HIDE DEF q
  <2>2. /\ q.todo = Append(new.todo, InitJob(new.gen)) /\ q.seg /\ q.period = new.period
        /\ q.phase = new.phase /\ q.next = new.next /\ q.start = new.start /\ q.gen = new.gen
        /\ q.video = new.video /\ q.audio = new.audio
    BY <1>5, <2>1 DEF Fields
  <2>3. Both(q) BY <1>7, <2>2 DEF Both
  <2>4. r.todo \o P \in Seq(JobSet)
    <3>1. Purge(r) \in Seq(JobSet) BY PurgeTyped
    <3>. QED BY <1>2, <3>1, RecFields, Join
  <2>5. Append(r.todo \o P, InitJob(new.gen)) = r.todo \o P \o <<InitJob(new.gen)>> BY <2>4
  <2>. QED BY <1>5, <2>2, <2>3, <2>5 DEF q, P
<1>. QED BY <1>6, <1>7

LEMMA StartHandled ==
    ASSUME NEW r \in Recs, Fit(r), DOMAIN r = Fields, r.todo = <<>>, NEW built
    PROVE  Handled(r, Start(r, built), 0)
<1>. DEFINE q == Start(r, built)
<1>1. CASE q = r BY <1>1 DEF Handled, Still, Goes
<1>2. CASE q # r
  <2>1. ~r.seg /\ Both(r)
        /\ q = [r EXCEPT !.todo = Append(@, InitJob(r.gen)), !.seg = TRUE,
                         !.replay = @ \o FromSync(r.pending), !.pending = <<>>]
    BY <1>2 DEF Start
  <2>. HIDE DEF q
  <2>2. /\ q.todo = Append(r.todo, InitJob(r.gen)) /\ q.seg /\ q.period = r.period
        /\ q.phase = r.phase /\ q.next = r.next /\ q.start = r.start /\ q.gen = r.gen
        /\ q.video = r.video /\ q.audio = r.audio
    BY <2>1 DEF Fields
  <2>3. q.todo = <<InitJob(r.gen)>> BY <2>2
  <2>4. Fit(q) BY <2>1, <2>2 DEF Fit, Both
  <2>5. Prepared(r, q) BY <2>1, <2>2, <2>3 DEF Prepared, Goes
  <2>. QED BY <2>2, <2>4, <2>5 DEF Handled, q
<1>. QED BY <1>1, <1>2

LEMMA Nothing ==
    ASSUME NEW S, NEW s \in Seq(S)
    PROVE  <<>> \o s = s /\ s \o <<>> = s
OBVIOUS

LEMMA NoSegs ==
    /\ \A g, n : Segs(g, n, 0) = <<>>
    /\ \A a : Dels(a, 0) = <<>>
BY DEF Segs, Dels

LEMMA LowRestart == Low(1) = 1
<1>1. Keep \in Nat /\ Keep # 0 BY DirectoryAssumption DEF Keep, Grace
<1>. QED BY <1>1 DEF Low

\* A rotation, of a packager that has just added k segments.
LEMMA RotateAfter ==
    ASSUME NEW r \in Recs, Fit(r), Counted(r), r.todo = <<>>,
           NEW k \in Nat, r.next + k <= MaxSeg + 1, k > 0 => r.seg,
           NEW m \in Recs, Counted(m), Goes(r, m), m.next = r.next + k, m.start = r.start,
           m.phase = r.phase, m.todo = Segs(r.gen, r.next, k),
           NEW built
    PROVE  Handled(r, Rotate(m, built), k)
<1>. DEFINE q == Rotate(m, built)
            n == m.next - m.start
            P == Dels(m.start, n) \o Dels(m.start, n) \o <<DelMpd>>
            I == IF q.seg THEN <<InitJob(Len(periods) + 1)>> ELSE <<>>
<1>1. /\ q.gen = Len(periods) + 1 /\ q.period = NextPeriod(m.period) /\ q.next = 1 /\ q.start = 1
      /\ q.phase = m.phase /\ (q.seg => Both(q))
      /\ q.todo = m.todo \o P \o I
  BY RotateShape
<1>. HIDE DEF q
<1>2. m.start = Low(r.next) /\ n = r.next + k - Low(r.next)
  <2>1. m.start = Low(r.next) BY DEF Fit
  <2>2. r.next \in Nat /\ m.next \in Nat /\ m.start \in Nat BY Numbered
  <2>. QED BY <2>1, <2>2
<1>3. q.todo = Segs(r.gen, r.next, k) \o P \o I BY <1>1
<1>4. Rotated(r, q, k) BY <1>1, <1>2, <1>3 DEF Rotated, Goes
<1>5. Fit(q) BY <1>1, LowRestart DEF Fit
<1>. QED BY <1>1, <1>4, <1>5 DEF Handled, q

LEMMA RotateHandled ==
    ASSUME NEW r \in Recs, Fit(r), Counted(r), r.todo = <<>>, NEW built
    PROVE  Handled(r, Rotate(r, built), 0)
<1>1. r.next + 0 = r.next /\ r.next <= MaxSeg + 1 BY Numbered
<1>2. r.todo = Segs(r.gen, r.next, 0) BY NoSegs
<1>3. Goes(r, r) BY DEF Goes
<1>. QED BY <1>1, <1>2, <1>3, RotateAfter

LEMMA DrainHandled ==
    ASSUME NEW r \in Recs, Fit(r), Windowed(r), r.todo = <<>>, r.seg,
           NEW k \in Nat, r.next + k <= MaxSeg + 1, NEW skewed \in BOOLEAN, NEW built
    PROVE  Handled(r, Drain(r, k, skewed, built), k)
<1>. DEFINE m == AddSegments(r, k)
            low == IF m.next - m.start > Keep THEN m.next - Keep ELSE m.start
            w == Prune(m)
            q == Drain(r, k, skewed, built)
            S == Segs(r.gen, r.next, k)
            D == Dels(Low(r.next), Low(r.next + k) - Low(r.next))
<1>1. Counted(m) /\ m \in Recs BY AddCounted, AddTyped DEF Windowed
<1>2. /\ Goes(r, m) /\ m.seg = r.seg /\ m.video = r.video /\ m.audio = r.audio
      /\ m.next = r.next + k /\ m.start = r.start /\ m.phase = r.phase
      /\ m.todo = r.todo \o S
  BY AddShape DEF Windowed
<1>3. r.gen \in Gens /\ r.next \in Nat /\ r.next # 0 BY RecFields, Numbered
<1>4. S \in Seq(JobSet) BY <1>3, SegsTyped
<1>5. q = IF skewed THEN Rotate(m, built) ELSE FlushMpd(w, k > 0) BY DEF Drain
<1>. HIDE DEF m, q, S
<1>6. m.todo = S BY <1>2, <1>4, Nothing
<1>7. /\ m.next \in Nat /\ r.next + k \in Nat /\ Keep \in Nat
      /\ Low(r.next) \in Nat /\ Low(r.next + k) \in Nat
  <2>1. r.next + k \in Nat /\ r.next + k # 0 BY <1>3
  <2>. QED BY <1>2, <1>3, <2>1, LowFacts
<1>8. CASE skewed
  <2>1. q = Rotate(m, built) BY <1>5, <1>8
  <2>2. Handled(r, Rotate(m, built), k) BY <1>1, <1>2, <1>6, RotateAfter DEF Windowed, S
  <2>. QED BY <2>1, <2>2 DEF q
<1>9. CASE ~skewed
  <2>1. low = Low(r.next + k)
    <3>1. Keep \in Nat /\ Keep # 0 BY LowFacts, <1>3
    <3>2. r.start = Low(r.next) /\ r.next - r.start <= Keep BY DEF Fit, Windowed
    <3>3. low = IF r.next + k - Low(r.next) > Keep THEN r.next + k - Keep ELSE Low(r.next)
      BY <1>2, <1>3, <1>7, <3>2
    <3>. QED BY <1>3, <3>1, <3>2, <3>3 DEF Low
  <2>2. /\ Goes(m, w) /\ w.seg = m.seg /\ w.video = m.video /\ w.audio = m.audio
        /\ w.next = m.next /\ w.start = low /\ w.phase = m.phase
        /\ w.todo = m.todo \o Dels(m.start, low - m.start)
        /\ w.timeline = Run(low, m.next - low)
    BY <1>1, PruneShape
  <2>3. w \in Recs BY <1>1, PruneTyped
  <2>4. q = FlushMpd(w, k > 0) BY <1>5, <1>9
  <2>5. Windowed(w) BY <1>1, PruneWindowed
  <2>. HIDE DEF w, low
  <2>6. Dels(m.start, low - m.start) = D BY <1>2, <2>1 DEF Fit
  <2>7. w.todo = S \o D BY <1>6, <2>2, <2>6
  <2>8. Goes(r, w) /\ w.seg /\ Both(w) /\ w.next = r.next + k /\ w.start = Low(r.next + k)
        /\ w.phase = r.phase /\ w.gen = r.gen
        /\ w.timeline = Run(Low(r.next + k), r.next + k - Low(r.next + k))
    <3>1. w.gen = r.gen /\ w.period = r.period /\ w.seg /\ w.phase = r.phase
      BY <1>2, <2>2 DEF Goes
    <3>2. w.video = r.video /\ w.audio = r.audio /\ w.next = r.next + k BY <1>2, <2>2
    <3>3. Both(w) BY <3>2 DEF Fit, Both
    <3>4. w.start = Low(r.next + k) BY <2>1, <2>2
    <3>5. w.timeline = Run(Low(r.next + k), r.next + k - Low(r.next + k)) BY <1>2, <1>3, <1>7, <2>1, <2>2
    <3>. QED BY <3>1, <3>2, <3>3, <3>4, <3>5 DEF Goes
  <2>9. CASE k = 0
    <3>1. q = w BY <2>4, <2>9 DEF FlushMpd
    <3>2. r.next + k = r.next /\ Low(r.next) - Low(r.next) = 0 BY <1>3, <2>9, LowFacts
    <3>3. S = <<>> /\ D = <<>> BY <2>9, <3>2, NoSegs DEF S
    <3>4. w.todo = <<>> BY <2>7, <3>3
    <3>5. Fit(w) BY <2>8 DEF Fit
    <3>6. Still(r, w) BY <2>8, <3>2, <3>4 DEF Still
    <3>. QED BY <2>8, <3>1, <3>5, <3>6 DEF Handled, q
  <2>10. CASE k > 0
    <3>. DEFINE a == Low(r.next + k)
                M == MpdJob(r.gen, Run(a, r.next + k - a))
    <3>1. r.next + k \in Nat /\ r.next + k # 0 /\ r.next + k # 1 BY <1>3, <2>10
    <3>2. a < r.next + k /\ a \in Nat BY <3>1, LowFacts
    <3>. HIDE DEF a
    <3>3. PICK n \in Nat : n = r.next + k - a /\ n # 0
      <4>1. PICK b \in Nat : b = r.next + k BY <3>1
      <4>2. b - a \in Nat /\ b - a # 0 BY <3>2, <4>1
      <4>. QED BY <1>3, <1>7, <3>2, <4>1, <4>2
    <3>4. Run(a, n) # <<>>
      <4>1. 1 \in DOMAIN Run(a, n) BY <3>3 DEF Run
      <4>. QED BY <4>1
    <3>5. w.timeline # <<>> BY <2>8, <3>3, <3>4 DEF a
    <3>6. q = [w EXCEPT !.todo = Append(@, MpdJob(w.gen, w.timeline))]
      BY <2>4, <2>8, <2>10, <3>5 DEF FlushMpd
    <3>7. /\ q.todo = Append(w.todo, MpdJob(w.gen, w.timeline)) /\ q.seg = w.seg /\ q.next = w.next
          /\ q.start = w.start /\ q.gen = w.gen /\ q.period = w.period /\ q.phase = w.phase
          /\ q.video = w.video /\ q.audio = w.audio
      BY <2>5, <3>6 DEF Windowed, Counted, Fields
    <3>8. MpdJob(w.gen, w.timeline) = M BY <2>8 DEF a
    <3>9. w.todo \in Seq(JobSet) BY <2>3, RecFields
    <3>. HIDE DEF M
    <3>10. q.todo = w.todo \o <<M>> BY <3>7, <3>8, <3>9
    <3>11. q.todo = S \o D \o <<M>> BY <2>7, <3>10
    <3>12. Added(r, q, k) BY <2>8, <3>7, <3>11 DEF Added, Goes, S, M, a
    <3>13. Fit(q) BY <2>8, <3>7 DEF Fit, Both
    <3>. QED BY <2>8, <2>10, <3>7, <3>12, <3>13 DEF Handled, q
  <2>. QED BY <2>9, <2>10
<1>. QED BY <1>8, <1>9

LEMMA PushHandled ==
    ASSUME NEW r \in Recs, Fit(r), Windowed(r), r.todo = <<>>, NEW sample,
           NEW k \in Nat, r.next + k <= MaxSeg + 1, NEW skewed \in BOOLEAN, NEW built
    PROVE  \E j \in {0, k} : Handled(r, Push(r, sample, k, skewed, built), j)
<1>. DEFINE w == [r EXCEPT !.started = TRUE]
            q == Push(r, sample, k, skewed, built)
<1>1. w \in Recs BY RecOther
<1>2. Windowed(w) BY DEF Windowed, Counted, Fields
<1>3. /\ w.todo = r.todo /\ w.seg = r.seg /\ w.next = r.next /\ w.start = r.start /\ w.gen = r.gen
      /\ w.period = r.period /\ w.phase = r.phase /\ w.video = r.video /\ w.audio = r.audio
  BY DEF Windowed, Counted, Fields
<1>4. q \in {r, w} \/ (r.seg /\ q = Drain(w, k, skewed, built)) BY DEF Push
<1>. HIDE DEF w, q
<1>5. Fit(w) BY <1>3 DEF Fit, Both
<1>6. CASE q \in {r, w}
  <2>1. Still(r, r) /\ Still(r, w) BY <1>3 DEF Still, Goes
  <2>2. Handled(r, q, 0) BY <1>3, <1>5, <1>6, <2>1 DEF Handled
  <2>. QED BY <2>2 DEF q
<1>7. CASE r.seg /\ q = Drain(w, k, skewed, built)
  <2>1. Handled(w, q, k) BY <1>1, <1>2, <1>3, <1>5, <1>7, DrainHandled
  <2>2. Handled(r, q, k)
    BY <1>3, <2>1 DEF Handled, Still, Prepared, Added, Rotated, Goes
  <2>. QED BY <2>2 DEF q
<1>. QED BY <1>4, <1>6, <1>7

-----------------------------------------------------------------------------
\* The steps of the packager are steps of ChannelFiles: what it makes of its
\* jobs and of the feed.
Active == {"live", "closing", "closed"}

FeedOf(g, s, n) == [live |-> TRUE, gen |-> g, ready |-> s, next |-> n]

LEMMA FeedIs ==
    /\ pk[Only].phase \in Active => Feed = FeedOf(pk[Only].gen, pk[Only].seg, pk[Only].next)
    /\ pk[Only].phase \notin Active => Feed = Files!Off
<1>. DEFINE on == FeedOf(pk[Only].gen, pk[Only].seg, pk[Only].next)
            off == Files!Off
<1>1. Feed = IF pk[Only].phase \in Active THEN on ELSE off
  BY Zenon DEF Feed, FeedOf, Active, Files!Off
<1>. HIDE DEF on, off
<1>2. /\ pk[Only].phase \in Active => Feed = on
      /\ pk[Only].phase \notin Active => Feed = off
  BY <1>1
<1>. QED BY <1>2 DEF on, off

LEMMA FeedFields ==
    \A g, y : \A l \in BOOLEAN :
        /\ FeedOf(g, l, y).live /\ FeedOf(g, l, y).gen = g
        /\ FeedOf(g, l, y).ready = l /\ FeedOf(g, l, y).next = y
        /\ \A x : [FeedOf(g, l, y) EXCEPT !.next = x] = FeedOf(g, l, x)
        /\ \A x \in BOOLEAN : [FeedOf(g, l, y) EXCEPT !.ready = x] = FeedOf(g, x, y)
<1>. SUFFICES ASSUME NEW g, NEW y, NEW l \in BOOLEAN
              PROVE  /\ FeedOf(g, l, y).live /\ FeedOf(g, l, y).gen = g
                     /\ FeedOf(g, l, y).ready = l /\ FeedOf(g, l, y).next = y
                     /\ \A x : [FeedOf(g, l, y) EXCEPT !.next = x] = FeedOf(g, l, x)
                     /\ \A x \in BOOLEAN : [FeedOf(g, l, y) EXCEPT !.ready = x] = FeedOf(g, x, y)
  OBVIOUS
<1>. DEFINE t == TRUE
            F(u, w) == [live |-> t, gen |-> g, ready |-> u, next |-> w]
<1>1. t = TRUE /\ t \in BOOLEAN OBVIOUS
<1>2. \A u, w : FeedOf(g, u, w) = F(u, w) BY DEF FeedOf
<1>. HIDE DEF t
<1>3. F(l, y).live = t /\ F(l, y).gen = g /\ F(l, y).ready = l /\ F(l, y).next = y OBVIOUS
<1>4. \A x : [F(l, y) EXCEPT !.next = x] = F(l, x) OBVIOUS
<1>5. \A x \in BOOLEAN : [F(l, y) EXCEPT !.ready = x] = F(x, y) OBVIOUS
<1>. HIDE DEF F
<1>6. FeedOf(g, l, y) = F(l, y) BY <1>2
<1>7. \A x : [FeedOf(g, l, y) EXCEPT !.next = x] = FeedOf(g, l, x) BY <1>2, <1>4, Zenon
<1>8. \A x \in BOOLEAN : [FeedOf(g, l, y) EXCEPT !.ready = x] = FeedOf(g, x, y) BY <1>2, <1>5, Zenon
<1>. QED BY <1>1, <1>3, <1>6, <1>7, <1>8

LEMMA FeedNew ==
    ASSUME NEW g, NEW l \in BOOLEAN
    PROVE  [Files!New(g) EXCEPT !.ready = l] = FeedOf(g, l, 1) /\ Files!New(g) = FeedOf(g, FALSE, 1)
<1>. DEFINE t == TRUE
            f == FALSE
<1>1. t \in BOOLEAN /\ f \in BOOLEAN OBVIOUS
<1>2. Files!New(g) = [[live |-> f, gen |-> 0, ready |-> f, next |-> 1] EXCEPT !.live = t, !.gen = g]
  BY DEF Files!New, Files!Off
<1>3. FeedOf(g, l, 1) = [live |-> t, gen |-> g, ready |-> l, next |-> 1]
      /\ FeedOf(g, FALSE, 1) = [live |-> t, gen |-> g, ready |-> f, next |-> 1]
  BY DEF FeedOf
<1>. HIDE DEF t, f
<1>4. Files!New(g) = [live |-> t, gen |-> g, ready |-> f, next |-> 1] BY <1>1, <1>2
<1>5. [[live |-> t, gen |-> g, ready |-> f, next |-> 1] EXCEPT !.ready = l]
      = [live |-> t, gen |-> g, ready |-> l, next |-> 1]
  BY <1>1
<1>. QED BY <1>3, <1>4, <1>5, Zenon

\* The parts of ChannelFiles, for the packager.
LEMMA FilesParts ==
    /\ \A n : Files!First(n) = Low(n)
    /\ \A n \in Nat : n # 0 => Files!Window(n) = Run(Low(n), n - Low(n))
    /\ \A k : Files!Segments(k) = Segs(Feed.gen, Feed.next, k)
    /\ Files!DelMpd = DelMpd /\ \A g : Files!InitJob(g) = InitJob(g)
    /\ \A g, s : Files!MpdJob(g, s) = MpdJob(g, s)
<1>1. \A n : Files!First(n) = Low(n) BY DEF Files!First, Low, Files!Keep, Keep, Files!Grace, Grace
<1>2. ASSUME NEW n \in Nat, n # 0 PROVE Files!Window(n) = Run(Low(n), n - Low(n))
  BY <1>1 DEF Files!Window, Run
<1>3. ASSUME NEW k PROVE Files!Segments(k) = Segs(Feed.gen, Feed.next, k)
  BY DEF Files!Segments, Segs, Files!SegJob, SegJob
<1>4. /\ Files!DelMpd = DelMpd /\ \A g : Files!InitJob(g) = InitJob(g)
      /\ \A g, s : Files!MpdJob(g, s) = MpdJob(g, s)
  BY DEF Files!DelMpd, DelMpd, Files!InitJob, InitJob, Files!MpdJob, MpdJob
<1>. QED BY <1>1, <1>2, <1>3, <1>4

LEMMA SeqFcn ==
    ASSUME NEW S, NEW s \in Seq(S)
    PROVE  s = [i \in 1..Len(s) |-> s[i]]
<1>1. s \in [1..Len(s) -> S] OBVIOUS
<1>. QED BY <1>1

LEMMA JoinLen ==
    ASSUME NEW S, NEW D \in Seq(S), NEW E \in Seq(S)
    PROVE  Len(D \o E) = Len(D) + Len(E)
OBVIOUS

LEMMA JoinFirst ==
    ASSUME NEW S, NEW D \in Seq(S), NEW E \in Seq(S), NEW i \in 1..Len(D)
    PROVE  (D \o E)[i] = D[i]
OBVIOUS

LEMMA JoinLast ==
    ASSUME NEW S, NEW D \in Seq(S), NEW E \in Seq(S), NEW i \in (Len(D) + 1)..(Len(D) + Len(E))
    PROVE  (D \o E)[i] = E[i - Len(D)]
OBVIOUS

LEMMA SameSeq ==
    ASSUME NEW S, NEW D \in Seq(S), NEW E \in Seq(S), Len(D) = Len(E),
           \A i \in 1..Len(D) : D[i] = E[i]
    PROVE  D = E
<1>1. D = [i \in 1..Len(D) |-> D[i]] BY SeqFcn
<1>2. E = [i \in 1..Len(E) |-> E[i]] BY SeqFcn
<1>3. Len(D) \in Nat /\ E = [i \in 1..Len(D) |-> E[i]] BY <1>2
<1>. QED BY <1>1, <1>3, SameFunction

\* The list of deletions that ChannelFiles makes of a list of numbers.
DelAll(s) == [i \in DOMAIN s |-> DelSeg(s[i])]

LEMMA DelAllFacts ==
    ASSUME NEW s \in Seq(Nat), NEW T, \A x \in Nat : DelSeg(x) \in T
    PROVE  /\ DelAll(s) \in Seq(T) /\ Len(DelAll(s)) = Len(s)
           /\ \A i \in 1..Len(s) : DelAll(s)[i] = DelSeg(s[i])
<1>1. Len(s) \in Nat /\ DOMAIN s = 1..Len(s) /\ \A i \in 1..Len(s) : s[i] \in Nat BY ElementOf
<1>2. DelAll(s) \in [1..Len(s) -> T] BY <1>1 DEF DelAll
<1>3. \A i \in 1..Len(s) : DelAll(s)[i] = DelSeg(s[i]) BY <1>1 DEF DelAll
<1>. QED BY <1>1, <1>2, <1>3, Sequenced

LEMMA DelAllTwice ==
    ASSUME NEW s \in Seq(Nat)
    PROVE  DelAll(s \o s) = DelAll(s) \o DelAll(s)
<1>1. PICK T : \A x \in Nat : DelSeg(x) \in T
  <2>1. \A x \in Nat : DelSeg(x) \in {DelSeg(y) : y \in Nat} OBVIOUS
  <2>. QED BY <2>1
<1>2. PICK n \in Nat : n = Len(s) BY ElementOf
<1>3. PICK D \in Seq(T) : /\ D = DelAll(s) /\ Len(D) = n
                          /\ \A i \in 1..n : D[i] = DelSeg(s[i])
  BY <1>1, <1>2, DelAllFacts
<1>4. PICK u \in Seq(Nat) : u = s \o s /\ Len(u) = n + n BY <1>2, Join, JoinLen
<1>5. PICK E \in Seq(T) : /\ E = DelAll(u) /\ Len(E) = n + n
                          /\ \A i \in 1..(n + n) : E[i] = DelSeg(u[i])
  BY <1>1, <1>4, DelAllFacts
<1>6. PICK F \in Seq(T) : F = D \o D /\ Len(F) = n + n BY <1>3, Join, JoinLen
<1>7. ASSUME NEW i \in 1..(n + n) PROVE E[i] = F[i]
  <2>1. CASE i <= n
    <3>1. i \in 1..n BY <2>1
    <3>2. u[i] = s[i] BY <1>2, <1>4, <3>1, JoinFirst
    <3>3. F[i] = D[i] BY <1>3, <1>6, <3>1, JoinFirst
    <3>. QED BY <1>3, <1>5, <3>1, <3>2, <3>3
  <2>2. CASE i > n
    <3>1. i \in (n + 1)..(n + n) /\ i - n \in 1..n BY <2>2
    <3>2. u[i] = s[i - n] BY <1>2, <1>4, <3>1, JoinLast
    <3>3. F[i] = D[i - n] BY <1>3, <1>6, <3>1, JoinLast
    <3>. QED BY <1>3, <1>5, <3>1, <3>2, <3>3
  <2>. QED BY <2>1, <2>2
<1>8. E = F BY <1>5, <1>6, <1>7, SameSeq
<1>. QED BY <1>3, <1>4, <1>5, <1>6, <1>8

LEMMA FilesDeletes ==
    ASSUME NEW a \in Nat, NEW n \in Nat, NEW s, s = [i \in 1..n |-> a + i - 1]
    PROVE  Files!Deletes(s) = Dels(a, n) /\ Files!Deletes(s \o s) = Dels(a, n) \o Dels(a, n)
<1>1. DOMAIN s = 1..n /\ \A i \in 1..n : s[i] = a + i - 1 OBVIOUS
<1>2. s \in Seq(Nat)
  <2>1. \A i \in 1..n : a + i - 1 \in Nat OBVIOUS
  <2>2. s \in [1..n -> Nat] BY <2>1
  <2>. QED BY <2>2, Sequenced
<1>3. DelAll(s) = Dels(a, n)
  <2>1. DelAll(s) = [i \in 1..n |-> DelAll(s)[i]]
        /\ \A i \in 1..n : DelAll(s)[i] = DelSeg(a + i - 1)
    BY <1>1 DEF DelAll
  <2>2. Dels(a, n) = [i \in 1..n |-> Dels(a, n)[i]]
        /\ \A i \in 1..n : Dels(a, n)[i] = DelSeg(a + i - 1)
    BY DEF Dels
  <2>. QED BY <2>1, <2>2, SameFunction
<1>4. \A t : Files!Deletes(t) = DelAll(t) BY DEF DelAll, Files!Deletes, Files!DelSeg, DelSeg
<1>. QED BY <1>2, <1>3, <1>4, DelAllTwice

\* The packager r, in phase f, becomes q by a call that leaves the pipe alone.
Calls(r, q) ==
    /\ r = pk[Only] /\ r.phase = "live" /\ r.todo = <<>>
    /\ Len(pipe[Only]) <= Depth /\ pipe[Only] \in Seq(JobSet)
    /\ r \in Recs /\ r.gen # 0 /\ r.gen = Len(periods)
    /\ q = pk'[Only] /\ q.phase \in Active
    /\ UNCHANGED <<pipe, dir>>

LEMMA CallJobs ==
    ASSUME NEW r, NEW q, Calls(r, q)
    PROVE  Pipeline(Only) = pipe[Only] /\ Pipeline(Only)' = pipe[Only] \o q.todo
<1>1. pipe[Only] \o <<>> = pipe[Only] BY Nothing DEF Calls
<1>. QED BY <1>1 DEF Pipeline, Calls

LEMMA CallFeed ==
    ASSUME NEW r, NEW q, Calls(r, q)
    PROVE  /\ Feed = FeedOf(r.gen, r.seg, r.next) /\ Feed' = FeedOf(q.gen, q.seg, q.next)
           /\ Feed.live /\ Feed.gen = r.gen /\ Feed.ready = r.seg /\ Feed.next = r.next
           /\ Files!Goes
<1>0. r.seg \in BOOLEAN BY DEF Calls, Recs
<1>1. Feed = FeedOf(r.gen, r.seg, r.next) BY FeedIs DEF Calls, Active
<1>2. Feed' = FeedOf(q.gen, q.seg, q.next) BY DEF Calls, Active, Feed, FeedOf
<1>3. Feed.live /\ Feed.gen = r.gen /\ Feed.ready = r.seg /\ Feed.next = r.next BY <1>0, <1>1, FeedFields
<1>4. Len(Pipeline(Only)) <= Depth BY CallJobs DEF Calls
<1>. QED BY <1>1, <1>2, <1>3, <1>4 DEF Files!Goes

LEMMA StillMaps ==
    ASSUME NEW r, NEW q, Calls(r, q), Still(r, q)
    PROVE  UNCHANGED Files!fileVars
<1>1. pipe[Only] \o <<>> = pipe[Only] BY Nothing DEF Calls
<1>2. Pipeline(Only)' = Pipeline(Only) BY <1>1, CallJobs DEF Still
<1>3. Feed' = Feed BY CallFeed DEF Still, Goes
<1>. QED BY <1>2, <1>3 DEF Calls, Files!fileVars

LEMMA PreparedMaps ==
    ASSUME NEW r, NEW q, Calls(r, q), Prepared(r, q), q.seg = TRUE
    PROVE  Files!Prepare
<1>1. Pipeline(Only) = pipe[Only] /\ Pipeline(Only)' = pipe[Only] \o <<InitJob(r.gen)>>
  BY CallJobs DEF Prepared
<1>2. Pipeline(Only)' = Append(Pipeline(Only), InitJob(r.gen)) BY <1>1 DEF Calls
<1>3. Feed = FeedOf(r.gen, r.seg, r.next) /\ Feed' = FeedOf(r.gen, TRUE, r.next)
  BY CallFeed DEF Prepared, Goes
<1>4. PICK l \in BOOLEAN : l = q.seg OBVIOUS
<1>5. Feed' = [Feed EXCEPT !.ready = TRUE]
  <2>1. Feed = FeedOf(r.gen, r.seg, r.next) /\ Feed' = FeedOf(r.gen, l, r.next) BY <1>3, <1>4
  <2>2. r.seg \in BOOLEAN BY DEF Calls, Recs
  <2>3. [FeedOf(r.gen, r.seg, r.next) EXCEPT !.ready = l] = FeedOf(r.gen, l, r.next)
    BY <2>2, FeedFields
  <2>4. Feed' = [Feed EXCEPT !.ready = l] BY <2>1, <2>3, Zenon
  <2>. QED BY <1>4, <2>4, Zenon
<1>. QED BY <1>2, <1>5, CallFeed, FilesParts DEF Calls, Prepared, Files!Prepare

Assoc(a, b, c) == (a \o b) \o c = a \o (b \o c)

LEMMA Associative ==
    ASSUME NEW S, NEW a \in Seq(S), NEW b \in Seq(S), NEW c \in Seq(S)
    PROVE  Assoc(a, b, c)
BY DEF Assoc

LEMMA AddedMaps ==
    ASSUME NEW r, NEW q, Calls(r, q), NEW k \in 1..MaxBatch, r.next + k <= MaxSeg + 1, Added(r, q, k)
    PROVE  Files!Add(k)
<1>. DEFINE lo == Low(r.next)
            hi == Low(r.next + k)
            X == Segs(r.gen, r.next, k)
            Y == Dels(lo, hi - lo)
            Z == MpdJob(r.gen, Run(hi, r.next + k - hi))
            s == Files!Slides(k)
<1>1. /\ r.next \in Nat /\ r.next # 0 /\ k \in Nat /\ r.next + k \in Nat /\ r.next + k # 0
      /\ r.gen \in 1..MaxGen /\ r.gen \in Gens
  <2>1. r.next \in Nat /\ r.next # 0 BY Numbered DEF Calls
  <2>2. r.gen \in Gens /\ r.gen # 0 BY RecFields DEF Calls
  <2>. QED BY <2>1, <2>2, PackagerAssumption DEF Gens
<1>2. /\ lo \in Nat /\ lo # 0 /\ hi - lo \in Nat /\ hi \in Nat /\ hi <= r.next + k /\ hi # 0
      /\ r.next + k - hi \in Nat
  BY <1>1, LowFacts
<1>3. Pipeline(Only) = pipe[Only] /\ Pipeline(Only)' = pipe[Only] \o (X \o Y \o <<Z>>)
  BY CallJobs DEF Added
<1>4. Feed.gen = r.gen /\ Feed.next = r.next /\ Feed.ready = r.seg BY CallFeed
<1>5. Files!Segments(k) = X BY <1>4, FilesParts
<1>6. s = [i \in 1..(hi - lo) |-> lo + i - 1]
  BY <1>4, FilesParts DEF Files!Slides
<1>7. Files!Deletes(s) = Y
  <2>. HIDE DEF s, lo, hi
  <2>. QED BY <1>2, <1>6, FilesDeletes DEF Y
<1>8. Files!MpdJob(Feed.gen, Files!Window(Feed.next + k)) = Z
  <2>1. Feed.next + k = r.next + k BY <1>1, <1>4
  <2>2. PICK n \in Nat : n = r.next + k /\ n # 0 BY <1>1
  <2>3. Files!Window(n) = Run(Low(n), n - Low(n)) BY <2>2, FilesParts
  <2>4. Low(n) = hi /\ n - hi = r.next + k - hi BY <1>1, <1>2, <2>2
  <2>5. Files!Window(Feed.next + k) = Run(hi, r.next + k - hi) BY <2>1, <2>2, <2>3, <2>4
  <2>. QED BY <1>4, <2>5, FilesParts
<1>9. X \in Seq(JobSet) /\ Y \in Seq(JobSet) /\ <<Z>> \in Seq(JobSet) /\ pipe[Only] \in Seq(JobSet)
  <2>1. X \in Seq(JobSet) BY <1>1, SegsTyped
  <2>2. lo + (hi - lo) <= MaxSeg + 1 /\ hi + (r.next + k - hi) <= MaxSeg + 1
    <3>1. PICK n \in Nat : n = r.next + k BY <1>1
    <3>2. n <= MaxSeg + 1 /\ MaxSeg \in Nat BY <3>1, DirectoryAssumption
    <3>. HIDE DEF lo, hi
    <3>3. hi <= n BY <1>2, <3>1
    <3>4. hi + (n - hi) = n /\ lo + (hi - lo) = hi BY <1>2, <3>3
    <3>5. hi + (r.next + k - hi) = n BY <1>1, <1>2, <3>1, <3>4
    <3>. QED BY <1>2, <3>1, <3>2, <3>3, <3>4, <3>5
  <2>3. Y \in Seq(JobSet) BY <1>2, <2>2, DelsTyped
  <2>4. Run(hi, r.next + k - hi) \in Seq(1..MaxSeg) BY <1>2, <2>2, RunTyped
  <2>5. Z \in JobSet BY <1>1, <2>4, JobsTyped
  <2>6. pipe[Only] \in Seq(JobSet) BY DEF Calls
  <2>. HIDE DEF Z
  <2>. QED BY <2>1, <2>3, <2>5, <2>6
<1>10. Feed' = [Feed EXCEPT !.next = @ + k]
  <2>1. Feed = FeedOf(r.gen, r.seg, r.next) /\ Feed' = FeedOf(r.gen, q.seg, r.next + k)
    BY CallFeed DEF Added, Goes
  <2>2. q.seg = r.seg BY DEF Added, Calls, Recs
  <2>3. PICK n : n = r.next + k OBVIOUS
  <2>4. r.seg \in BOOLEAN BY DEF Calls, Recs
  <2>5. [FeedOf(r.gen, r.seg, r.next) EXCEPT !.next = n] = FeedOf(r.gen, r.seg, n)
    BY <2>4, FeedFields
  <2>6. Feed' = [Feed EXCEPT !.next = n] BY <2>1, <2>2, <2>3, <2>5, Zenon
  <2>7. Feed.next + k = n BY <1>1, <1>4, <2>3
  <2>. QED BY <2>6, <2>7, Zenon
<1>. HIDE DEF X, Y, Z, s
<1>11. pipe[Only] \o (X \o Y \o <<Z>>) = pipe[Only] \o X \o Y \o <<Z>>
  <2>1. PICK A \in Seq(JobSet), B \in Seq(JobSet), C \in Seq(JobSet), E \in Seq(JobSet) :
           A = pipe[Only] /\ B = X /\ C = Y /\ E = <<Z>>
    BY <1>9
  <2>2. A \o (B \o C \o E) = A \o B \o C \o E
    <3>1. PICK u \in Seq(JobSet) : u = B \o C BY Join, Zenon
    <3>2. Assoc(A, B, C) /\ Assoc(A, u, E) BY Associative, Zenon
    <3>. QED BY <3>1, <3>2 DEF Assoc
  <2>. QED BY <2>1, <2>2
<1>12. Pipeline(Only)' = Pipeline(Only) \o Files!Segments(k) \o Files!Deletes(Files!Slides(k))
             \o <<Files!MpdJob(Feed.gen, Files!Window(Feed.next + k))>>
  BY <1>3, <1>5, <1>7, <1>8, <1>11 DEF s
<1>13. Files!Goes /\ Feed.ready /\ Feed.next + k - 1 <= [g \in 1..MaxGen |-> MaxSeg][Feed.gen]
  <2>1. MaxSeg \in Nat BY DirectoryAssumption
  <2>2. [g \in 1..MaxGen |-> MaxSeg][Feed.gen] = MaxSeg BY <1>1, <1>4
  <2>3. Feed.next + k - 1 <= MaxSeg BY <1>1, <1>4, <2>1
  <2>. QED BY <1>4, <2>2, <2>3, CallFeed DEF Added
<1>. QED BY <1>10, <1>12, <1>13 DEF Files!Add, Calls

LEMMA RotatedMaps ==
    ASSUME NEW r, NEW q, Calls(r, q), q.seg \in BOOLEAN, q.gen <= MaxGen,
           NEW k \in 0..MaxBatch, r.next + k <= MaxSeg + 1, Rotated(r, q, k)
    PROVE  Files!Rotate(k, q.seg)
<1>. DEFINE lo == Low(r.next)
            m == r.next + k - lo
            X == Segs(r.gen, r.next, k)
            Y == Dels(lo, m)
            I == IF q.seg THEN <<InitJob(r.gen + 1)>> ELSE <<>>
            old == [i \in 1..(Feed.next + k - Files!First(Feed.next)) |-> Files!First(Feed.next) + i - 1]
<1>1. /\ r.next \in Nat /\ r.next # 0 /\ k \in Nat
      /\ r.gen \in 1..MaxGen /\ r.gen \in Gens
  <2>1. r.next \in Nat /\ r.next # 0 BY Numbered DEF Calls
  <2>2. r.gen \in Gens /\ r.gen # 0 BY RecFields DEF Calls
  <2>. QED BY <2>1, <2>2, PackagerAssumption DEF Gens
<1>2. lo \in Nat /\ lo # 0 /\ m \in Nat /\ lo + m <= MaxSeg + 1
  <2>1. lo \in Nat /\ lo # 0 /\ lo <= r.next BY <1>1, LowFacts
  <2>2. PICK n \in Nat : n = r.next + k BY <1>1
  <2>3. n <= MaxSeg + 1 /\ MaxSeg \in Nat BY <2>2, DirectoryAssumption
  <2>. HIDE DEF lo
  <2>4. lo <= n BY <1>1, <2>1, <2>2
  <2>5. m = n - lo BY <1>1, <2>1, <2>2
  <2>6. n - lo \in Nat /\ lo + (n - lo) = n BY <2>1, <2>4
  <2>. HIDE DEF m
  <2>. QED BY <2>1, <2>3, <2>5, <2>6
<1>3. q.gen = r.gen + 1 /\ q.next = 1 /\ (k > 0 => r.seg) BY DEF Rotated, Calls
<1>4. q.todo = X \o (Y \o Y \o <<DelMpd>>) \o I BY DEF Rotated, Calls
<1>5. Pipeline(Only) = pipe[Only] /\ Pipeline(Only)' = pipe[Only] \o (X \o (Y \o Y \o <<DelMpd>>) \o I)
  BY <1>4, CallJobs
<1>6. Feed.gen = r.gen /\ Feed.next = r.next /\ Feed.ready = r.seg BY CallFeed
<1>7. Files!Segments(k) = X BY <1>6, FilesParts
<1>8. Files!Deletes(old \o old) = Y \o Y
  <2>1. old = [i \in 1..m |-> lo + i - 1] BY <1>6, FilesParts
  <2>. HIDE DEF old, lo, m
  <2>. QED BY <1>2, <2>1, FilesDeletes DEF Y
<1>9. I = IF q.seg THEN <<Files!InitJob(Feed.gen + 1)>> ELSE <<>> BY <1>6, FilesParts
<1>10. X \in Seq(JobSet) /\ Y \in Seq(JobSet) /\ I \in Seq(JobSet) /\ <<DelMpd>> \in Seq(JobSet)
       /\ pipe[Only] \in Seq(JobSet)
  <2>1. X \in Seq(JobSet) BY <1>1, SegsTyped
  <2>2. Y \in Seq(JobSet) BY <1>2, DelsTyped
  <2>3. r.gen + 1 \in Gens BY <1>1, <1>3, PackagerAssumption DEF Gens
  <2>4. InitJob(r.gen + 1) \in JobSet /\ DelMpd \in JobSet BY <2>3, JobsTyped
  <2>5. I \in Seq(JobSet) /\ <<DelMpd>> \in Seq(JobSet) BY <2>4
  <2>6. pipe[Only] \in Seq(JobSet) BY DEF Calls
  <2>. QED BY <2>1, <2>2, <2>5, <2>6
<1>. HIDE DEF X, Y, I, old
<1>11. pipe[Only] \o (X \o (Y \o Y \o <<DelMpd>>) \o I)
       = pipe[Only] \o X \o (Y \o Y) \o <<DelMpd>> \o I
  <2>1. PICK A \in Seq(JobSet), B \in Seq(JobSet), C \in Seq(JobSet), E \in Seq(JobSet), F \in Seq(JobSet) :
           A = pipe[Only] /\ B = X /\ C = Y /\ E = <<DelMpd>> /\ F = I
    BY <1>10
  <2>2. A \o (B \o (C \o C \o E) \o F) = A \o B \o (C \o C) \o E \o F
    <3>1. PICK u \in Seq(JobSet) : u = C \o C BY Join, Zenon
    <3>2. PICK w \in Seq(JobSet) : w = u \o E BY Join, Zenon
    <3>3. PICK x \in Seq(JobSet) : x = B \o w BY Join, Zenon
    <3>4. PICK y \in Seq(JobSet) : y = A \o B BY Join, Zenon
    <3>5. Assoc(A, x, F) /\ Assoc(A, B, w) /\ Assoc(y, u, E) BY Associative, Zenon
    <3>. QED BY <3>1, <3>2, <3>3, <3>4, <3>5 DEF Assoc
  <2>. QED BY <2>1, <2>2
<1>12. Pipeline(Only)' = Pipeline(Only) \o Files!Segments(k) \o Files!Deletes(old \o old) \o <<Files!DelMpd>>
                         \o (IF q.seg THEN <<Files!InitJob(Feed.gen + 1)>> ELSE <<>>)
  BY <1>5, <1>7, <1>8, <1>9, <1>11, FilesParts
<1>13. Files!Goes /\ Feed.gen < MaxGen
       /\ (k > 0 => Feed.ready /\ Feed.next + k - 1 <= [g \in 1..MaxGen |-> MaxSeg][Feed.gen])
  <2>1. MaxSeg \in Nat BY DirectoryAssumption
  <2>2. [g \in 1..MaxGen |-> MaxSeg][Feed.gen] = MaxSeg BY <1>1, <1>6
  <2>3. Feed.next + k - 1 <= MaxSeg BY <1>1, <1>6, <2>1
  <2>4. Feed.gen < MaxGen BY <1>1, <1>3, <1>6, PackagerAssumption
  <2>. QED BY <1>3, <1>6, <2>2, <2>3, <2>4, CallFeed
<1>14. Feed' = [Files!New(Feed.gen + 1) EXCEPT !.ready = q.seg]
  <2>1. Feed' = FeedOf(r.gen + 1, q.seg, 1) BY <1>3, CallFeed
  <2>2. PICK g : g = r.gen + 1 OBVIOUS
  <2>3. [Files!New(g) EXCEPT !.ready = q.seg] = FeedOf(g, q.seg, 1) BY FeedNew
  <2>4. Feed.gen + 1 = g BY <1>6, <2>2
  <2>. QED BY <2>1, <2>2, <2>3, <2>4
<1>. QED BY <1>12, <1>13, <1>14 DEF Files!Rotate, Calls, old

\* What a call does to the files.
Made(r, q, k) == Still(r, q) \/ Prepared(r, q) \/ (k > 0 /\ Added(r, q, k)) \/ Rotated(r, q, k)

LEMMA HandledMeans ==
    ASSUME NEW r, NEW q, NEW k
    PROVE  Handled(r, q, k) <=> Fit(q) /\ q.phase = r.phase /\ Made(r, q, k)
BY DEF Handled, Made

LEMMA CallMaps ==
    ASSUME NEW r, NEW q \in Recs, Calls(r, q), NEW k \in 0..MaxBatch, r.next + k <= MaxSeg + 1,
           q.gen <= MaxGen, Made(r, q, k)
    PROVE  [Files!FilesNext]_(Files!fileVars)
<1>1. q.seg \in BOOLEAN BY DEF Recs
<1>2. CASE Still(r, q) BY <1>2, StillMaps
<1>3. CASE Prepared(r, q)
  <2>1. q.seg = TRUE BY <1>1, <1>3 DEF Prepared
  <2>2. Files!Prepare BY <1>3, <2>1, PreparedMaps
  <2>. QED BY <2>2 DEF Files!FilesNext
<1>4. CASE k > 0 /\ Added(r, q, k)
  <2>1. k \in 1..MaxBatch BY <1>4
  <2>2. Files!Add(k) BY <1>4, <2>1, AddedMaps
  <2>. QED BY <2>1, <2>2 DEF Files!FilesNext
<1>5. CASE Rotated(r, q, k)
  <2>1. Files!Rotate(k, q.seg) BY <1>1, <1>5, RotatedMaps
  <2>. QED BY <1>1, <2>1 DEF Files!FilesNext
<1>. QED BY <1>2, <1>3, <1>4, <1>5 DEF Made

-----------------------------------------------------------------------------
\* The only packager of a channel: its generation is the last one begun, and
\* it leaves no job behind when it is finished or dropped.
Numbering == {"live", "closing", "closed", "wiping"}
Owns(r) ==
    /\ r.phase \in Numbering => r.gen = Len(periods) /\ r.gen # 0
    /\ r.phase \notin Numbering => r.todo = <<>>
    /\ r.phase \in {"closed", "opening"} => r.todo = <<>> /\ pipe[Only] = <<>>
    /\ r.phase \in {"gone", "opening", "wiping"} => ~r.seg
Alone ==
    /\ Packager = {Only} /\ Len(pipe[Only]) <= Depth
    /\ Fit(pk[Only]) /\ Owns(pk[Only])

\* The last generation of which there may be files; the manifest is of none later.
Latest == IF pk[Only].phase = "wiping" THEN Len(periods) - 1 ELSE Len(periods)
Elder == dir.mpd.gen \in 0..Latest

LEMMA OnlyFacts ==
    ASSUME Types, Inv, Packager = {Only}
    PROVE  /\ pk[Only] \in Recs /\ Windowed(pk[Only]) /\ Counted(pk[Only]) /\ DOMAIN pk[Only] = Fields
           /\ pipe[Only] \in Seq(JobSet) /\ Len(periods) \in Nat
           /\ \A p \in Packager : p = Only
BY PackagerAssumption DEF Types, Inv, Windowed, Counted, Gens

LEMMA BecomesOnly ==
    ASSUME Types, Packager = {Only}, NEW q, Becomes(Only, q), q.gen \in Nat, q.period \in Nat
    PROVE  /\ pk'[Only] = q /\ q.gen <= MaxGen
           /\ q.gen = Len(periods) + 1 =>
                 /\ Len(periods') = q.gen
                 /\ \E o \in BOOLEAN :
                       /\ o <=> pk[Only].phase = "opening"
                       /\ periods' = Append(periods, Row(q.period, Only, o))
           /\ q.gen <= Len(periods) => periods' = periods
<1>1. Only \in Packager /\ Len(periods) \in Nat BY PackagerAssumption DEF Types, Gens
<1>2. pk'[Only] = q /\ q.gen <= MaxGen BY <1>1 DEF Becomes, Types
<1>0. PICK o \in BOOLEAN :
         /\ o <=> pk[Only].phase = "opening"
         /\ periods' = IF q.gen > Len(periods) THEN Append(periods, Row(q.period, Only, o)) ELSE periods
  BY <1>1, BecomesRow
<1>3. CASE q.gen = Len(periods) + 1
  <2>1. periods' = Append(periods, Row(q.period, Only, o)) BY <1>0, <1>1, <1>3
  <2>2. Row(q.period, Only, o) \in Rows BY <1>1, RowFacts
  <2>3. Len(periods') = Len(periods) + 1 BY <2>1, <2>2, Appended DEF Types
  <2>4. ~(q.gen <= Len(periods)) BY <1>1, <1>3
  <2>. QED BY <1>0, <1>2, <1>3, <2>1, <2>3, <2>4
<1>4. CASE q.gen # Len(periods) + 1 BY <1>0, <1>1, <1>2, <1>4
<1>. QED BY <1>3, <1>4

\* What a step makes of the generations begun: none begins, or the packager
\* begins one, with the next Period@id unless it has just been opened.
Dating ==
    \/ /\ periods' = periods
       /\ pk'[Only].phase = "wiping" => pk[Only].phase = "wiping"
       /\ pk'[Only].phase \in Numbering =>
             /\ pk[Only].phase \in Numbering
             /\ pk'[Only].gen = pk[Only].gen /\ pk'[Only].period = pk[Only].period
    \/ /\ pk'[Only].phase \in Numbering /\ pk'[Only].gen = Len(periods) + 1
       /\ \E o \in BOOLEAN :
             /\ periods' = Append(periods, Row(pk'[Only].period, Only, o))
             /\ o \/ (pk[Only].phase \in Numbering /\ pk'[Only].period = NextPeriod(pk[Only].period))

Fine == Alone' /\ Dating /\ [Files!FilesNext]_(Files!fileVars)

\* A call of a live packager: what it makes of the files, and the invariant.
LEMMA CallStep ==
    ASSUME Types, Types', Inv, Alone, pk[Only].phase = "live", pk[Only].todo = <<>>,
           NEW k \in 0..MaxBatch, pk[Only].next + k <= MaxSeg + 1,
           NEW q, Becomes(Only, q), UNCHANGED <<pipe, dir>>,
           q.phase \in {"live", "closing"}, Fit(q), Made(pk[Only], q, k)
    PROVE  Fine
<1>. DEFINE r == pk[Only]
<1>1. /\ r \in Recs /\ Windowed(r) /\ pipe[Only] \in Seq(JobSet) /\ Len(periods) \in Nat
      /\ Packager = {Only} /\ Fit(r) /\ Owns(r)
  BY OnlyFacts DEF Alone
<1>2. r.gen = Len(periods) /\ r.gen # 0 BY <1>1 DEF Owns, Numbering
<1>0. \/ q.gen = r.gen /\ q.period = r.period
      \/ q.gen = Len(periods) + 1 /\ q.period = NextPeriod(r.period)
  BY DEF Made, Still, Prepared, Added, Rotated, Goes
<1>3. q.gen \in {r.gen, r.gen + 1} BY <1>0, <1>2
<1>4. q.gen \in Nat /\ q.gen # 0 BY <1>1, <1>2, <1>3
<1>6. q \in Recs /\ q.period \in Nat
  <2>1. Only \in Packager BY <1>1
  <2>2. pk'[Only] = q BY <2>1 DEF Becomes, Types
  <2>. QED BY <2>1, <2>2, RecFields DEF Types
<1>5. pk'[Only] = q /\ q.gen <= MaxGen /\ q.gen = Len(periods')
  <2>1. q.gen = Len(periods) \/ q.gen = Len(periods) + 1 BY <1>2, <1>3
  <2>2. q.gen = Len(periods) => q.gen <= Len(periods) BY <1>1
  <2>. QED BY <1>1, <1>4, <1>6, <2>1, <2>2, BecomesOnly
<1>7. Calls(r, q) BY <1>1, <1>2, <1>5 DEF Calls, Alone, Active
<1>8. [Files!FilesNext]_(Files!fileVars) BY <1>5, <1>6, <1>7, CallMaps
<1>9. Alone'
  <2>1. Owns(q)' BY <1>4, <1>5 DEF Owns, Numbering
  <2>2. Fit(q)' BY DEF Fit
  <2>. QED BY <1>1, <1>5, <2>1, <2>2 DEF Alone, Owns, Fit
<1>10. Dating
  <2>1. CASE q.gen = r.gen /\ q.period = r.period
    <3>1. periods' = periods BY <1>1, <1>2, <1>4, <1>6, <2>1, BecomesOnly
    <3>2. r.phase \in Numbering /\ q.phase # "wiping" BY DEF Numbering
    <3>. QED BY <1>5, <2>1, <3>1, <3>2 DEF Dating
  <2>2. CASE q.gen = Len(periods) + 1 /\ q.period = NextPeriod(r.period)
    <3>1. PICK o \in BOOLEAN : periods' = Append(periods, Row(q.period, Only, o))
      BY <1>1, <1>4, <1>6, <2>2, BecomesOnly
    <3>2. r.phase \in Numbering /\ q.phase \in Numbering BY DEF Numbering
    <3>. QED BY <1>5, <2>2, <3>1, <3>2 DEF Dating
  <2>. QED BY <1>0, <2>1, <2>2
<1>. QED BY <1>8, <1>9, <1>10 DEF Fine

-----------------------------------------------------------------------------
\* One lemma for each of the packager's actions.
\* A change of codec is a call on the packager with the new codec.
LEMMA CodecSame ==
    ASSUME NEW r \in Recs, Windowed(r), Fit(r), NEW m, NEW c \in ConfigId,
           m \in {[r EXCEPT !.video = c], [r EXCEPT !.audio = c]}
    PROVE  /\ m \in Recs /\ Counted(m) /\ DOMAIN m = Fields /\ Fit(m)
           /\ m.todo = r.todo /\ m.phase = r.phase
           /\ \A q, k : Made(m, q, k) => Made(r, q, k)
<1>1. m \in Recs BY RecOther
<1>2. Counted(m) BY DEF Windowed, Counted, Fields
<1>3. /\ m.todo = r.todo /\ m.seg = r.seg /\ m.next = r.next /\ m.start = r.start /\ m.gen = r.gen
      /\ m.period = r.period /\ m.phase = r.phase
      /\ m.video \in {r.video, c} /\ m.audio \in {r.audio, c}
  BY DEF Windowed, Counted, Fields
<1>4. Fit(m) BY <1>3, PackagerAssumption DEF Fit, Both
<1>5. ASSUME NEW q, NEW k, Made(m, q, k) PROVE Made(r, q, k)
  BY <1>3, <1>5 DEF Made, Still, Prepared, Added, Rotated, Goes
<1>. QED BY <1>1, <1>2, <1>3, <1>4, <1>5 DEF Counted

\* A call of p makes its packager q, having added k segments.
Makes(p, k, q) ==
    /\ pk[p].phase = "live" /\ pk[p].todo = <<>> /\ pk[p].next + k <= MaxSeg + 1
    /\ Becomes(p, q) /\ UNCHANGED <<pipe, dir>>
    /\ q.phase \in {"live", "closing"} /\ Fit(q) /\ Made(pk[p], q, k)

Called(p) == \E k \in 0..MaxBatch : \E q : Makes(p, k, q)

LEMMA HandlerMakes ==
    ASSUME NEW p \in Packager, pk[p].phase = "live", pk[p].todo = <<>>,
           NEW k \in 0..MaxBatch, pk[p].next + k <= MaxSeg + 1,
           NEW q, Becomes(p, q), UNCHANGED <<pipe, dir>>, Handled(pk[p], q, k)
    PROVE  Called(p)
<1>1. q.phase = "live" /\ Fit(q) /\ Made(pk[p], q, k) BY HandledMeans
<1>2. Makes(p, k, q) BY <1>1 DEF Makes
<1>. QED BY <1>2 DEF Called

LEMMA PackagerFacts ==
    ASSUME Types, Inv, NEW p \in Packager
    PROVE  pk[p] \in Recs /\ Windowed(pk[p]) /\ Counted(pk[p]) /\ DOMAIN pk[p] = Fields
BY DEF Types, Inv, Windowed, Counted

LEMMA ZeroFits ==
    ASSUME NEW r \in Recs
    PROVE  0 \in 0..MaxBatch /\ r.next + 0 <= MaxSeg + 1
BY Numbered, PackagerAssumption

LEMMA MediaCalls ==
    ASSUME Types, Inv, NEW p \in Packager, Fit(pk[p]), Media(p)
    PROVE  Called(p)
<1>. DEFINE r == pk[p]
<1>1. r \in Recs /\ Windowed(r) /\ Counted(r) /\ DOMAIN r = Fields /\ Fit(r) /\ r.gen \in Nat
  BY PackagerFacts, RecFields, PackagerAssumption DEF Gens
<1>2. PICK built \in Builds :
         \/ \E c \in ConfigId : VideoConfig(p, c, built) \/ AudioConfig(p, c, built)
         \/ Discontinuity(p, built)
         \/ \E sample \in Samples : QueueSample(p, sample)
         \/ \E sample \in Samples, k \in 0..MaxBatch, skewed \in BOOLEAN :
               PushSample(p, sample, k, skewed, built)
  BY DEF Media
<1>3. ASSUME NEW c \in ConfigId, VideoConfig(p, c, built) \/ AudioConfig(p, c, built) PROVE Called(p)
  <2>1. PICK m \in {[r EXCEPT !.video = c], [r EXCEPT !.audio = c]} :
           Becomes(p, Start(m, built)) \/ Becomes(p, Rotate(m, built))
    BY <1>3 DEF VideoConfig, AudioConfig
  <2>2. r.phase = "live" /\ r.todo = <<>> /\ UNCHANGED <<pipe, dir>>
    BY <1>3 DEF VideoConfig, AudioConfig, Ready
  <2>3. /\ m \in Recs /\ Counted(m) /\ DOMAIN m = Fields /\ Fit(m)
        /\ m.todo = r.todo /\ m.phase = r.phase
        /\ \A q, k : Made(m, q, k) => Made(r, q, k)
    BY <1>1, <2>1, CodecSame
  <2>4. Handled(m, Start(m, built), 0) /\ Handled(m, Rotate(m, built), 0)
    BY <2>2, <2>3, StartHandled, RotateHandled
  <2>5. Handled(r, Start(m, built), 0) /\ Handled(r, Rotate(m, built), 0)
    BY <2>3, <2>4, HandledMeans
  <2>6. 0 \in 0..MaxBatch /\ r.next + 0 <= MaxSeg + 1 BY <1>1, ZeroFits
  <2>. HIDE DEF r
  <2>. QED BY <2>1, <2>2, <2>5, <2>6, HandlerMakes DEF r
<1>4. ASSUME Discontinuity(p, built) PROVE Called(p)
  <2>1. r.phase = "live" /\ r.todo = <<>> /\ UNCHANGED <<pipe, dir>> /\ Becomes(p, Rotate(r, built))
    BY <1>4 DEF Discontinuity, Ready
  <2>2. Handled(r, Rotate(r, built), 0) BY <1>1, <2>1, RotateHandled
  <2>3. 0 \in 0..MaxBatch /\ r.next + 0 <= MaxSeg + 1 BY <1>1, ZeroFits
  <2>. QED BY <2>1, <2>2, <2>3, HandlerMakes
<1>5. ASSUME NEW sample \in Samples, QueueSample(p, sample) PROVE Called(p)
  <2>1. PICK s : Becomes(p, [r EXCEPT !.pending = s])
    BY <1>5 DEF QueueSample
  <2>2. r.phase = "live" /\ r.todo = <<>> /\ UNCHANGED <<pipe, dir>>
    BY <1>5 DEF QueueSample, Ready
  <2>. DEFINE q == [r EXCEPT !.pending = s]
  <2>3. /\ q.todo = r.todo /\ q.seg = r.seg /\ q.next = r.next /\ q.start = r.start /\ q.gen = r.gen
        /\ q.period = r.period /\ q.phase = r.phase /\ q.video = r.video /\ q.audio = r.audio
    BY <1>1 DEF Fields
  <2>4. Becomes(p, q) BY <2>1
  <2>. HIDE DEF q
  <2>5. Handled(r, q, 0) BY <1>1, <2>2, <2>3 DEF Handled, Still, Goes, Fit, Both
  <2>6. 0 \in 0..MaxBatch /\ r.next + 0 <= MaxSeg + 1 BY <1>1, ZeroFits
  <2>. QED BY <2>2, <2>4, <2>5, <2>6, HandlerMakes
<1>6. ASSUME NEW sample \in Samples, NEW k \in 0..MaxBatch, NEW skewed \in BOOLEAN,
             PushSample(p, sample, k, skewed, built)
      PROVE  Called(p)
  <2>. DEFINE q == Push(r, sample, k, skewed, built)
  <2>1. r.phase = "live" /\ r.todo = <<>> /\ UNCHANGED <<pipe, dir>> /\ Becomes(p, q) /\ Batch(r, k)
    BY <1>6 DEF PushSample, Ready
  <2>2. k \in Nat /\ MaxBatch \in Nat BY PackagerAssumption
  <2>3. r.next + k <= MaxSeg + 1 BY <1>1, <2>1, <2>2, BatchRoom
  <2>4. PICK j \in {0, k} : Handled(r, q, j) BY <1>1, <2>1, <2>2, <2>3, PushHandled
  <2>5. j \in 0..MaxBatch /\ r.next + j <= MaxSeg + 1 BY <1>1, <2>3, <2>4, ZeroFits
  <2>. HIDE DEF q
  <2>. QED BY <2>1, <2>4, <2>5, HandlerMakes
<1>. QED BY <1>2, <1>3, <1>4, <1>5, <1>6

LEMMA ReplayCalls ==
    ASSUME Types, Inv, NEW p \in Packager, Fit(pk[p]), NEW built \in Builds, NEW k \in 0..MaxBatch,
           NEW skewed \in BOOLEAN, ReplaySample(p, k, skewed, built)
    PROVE  Called(p)
<1>. DEFINE r == pk[p]
            s == Tail(r.replay)
            m == [r EXCEPT !.replay = s]
            q == Push(m, Head(r.replay), k, skewed, built)
<1>1. r \in Recs /\ Windowed(r) /\ Fit(r) BY PackagerFacts
<1>2. /\ r.phase = "live" /\ r.todo = <<>> /\ UNCHANGED <<pipe, dir>> /\ Becomes(p, q)
      /\ Batch(r, k) /\ r.replay # <<>>
  BY DEF ReplaySample
<1>3. k \in Nat /\ MaxBatch \in Nat BY PackagerAssumption
<1>4. r.next + k <= MaxSeg + 1 BY <1>1, <1>2, <1>3, BatchRoom
<1>5. s \in Seq(Samples) BY <1>1, <1>2, RecFields, QueueFacts
<1>. HIDE DEF s
<1>6. m \in Recs BY <1>1, <1>5, RecOther
<1>7. Windowed(m) BY <1>1 DEF Windowed, Counted, Fields
<1>8. /\ m.todo = r.todo /\ m.seg = r.seg /\ m.next = r.next /\ m.start = r.start /\ m.gen = r.gen
      /\ m.period = r.period /\ m.phase = r.phase /\ m.video = r.video /\ m.audio = r.audio
  BY <1>1 DEF Windowed, Counted, Fields
<1>. HIDE DEF m
<1>9. Fit(m) BY <1>1, <1>8 DEF Fit, Both
<1>10. PICK j \in {0, k} : Handled(m, q, j)
  BY <1>2, <1>3, <1>4, <1>6, <1>7, <1>8, <1>9, PushHandled
<1>. HIDE DEF q
<1>11. Handled(r, q, j) BY <1>8, <1>10 DEF Handled, Still, Prepared, Added, Rotated, Goes
<1>12. j \in 0..MaxBatch /\ r.next + j <= MaxSeg + 1 BY <1>1, <1>4, <1>10, ZeroFits
<1>. QED BY <1>2, <1>11, <1>12, HandlerMakes

LEMMA FinishCalls ==
    ASSUME Types, Inv, NEW p \in Packager, Fit(pk[p]), NEW built \in Builds, NEW k \in 0..MaxBatch,
           NEW skewed \in BOOLEAN, Finish(p, k, skewed, built)
    PROVE  Called(p)
<1>. DEFINE r == pk[p]
            m == IF r.seg THEN Drain(r, k, skewed, built) ELSE r
            q == [m EXCEPT !.phase = "closing"]
<1>1. r \in Recs /\ Windowed(r) /\ Fit(r) BY PackagerFacts
<1>2. r.phase = "live" /\ r.todo = <<>> /\ UNCHANGED <<pipe, dir>> /\ Becomes(p, q) /\ Batch(r, k)
  BY DEF Finish, Ready
<1>3. k \in Nat /\ MaxBatch \in Nat BY PackagerAssumption
<1>4. r.next + k <= MaxSeg + 1 BY <1>1, <1>2, <1>3, BatchRoom
<1>5. PICK j \in {0, k} : Handled(r, m, j)
  <2>1. CASE r.seg
    <3>1. Handled(r, Drain(r, k, skewed, built), k) BY <1>1, <1>2, <1>3, <1>4, <2>1, DrainHandled
    <3>. QED BY <2>1, <3>1
  <2>2. CASE ~r.seg
    <3>1. Handled(r, r, 0) BY <1>1, <1>2 DEF Handled, Still, Goes
    <3>. QED BY <2>2, <3>1
  <2>. QED BY <2>1, <2>2
<1>6. DOMAIN m = Fields BY <1>1, <1>3, DrainWindowed DEF Windowed, Counted
<1>. HIDE DEF m
<1>7. /\ m.todo = q.todo /\ m.seg = q.seg /\ m.next = q.next /\ m.start = q.start /\ m.gen = q.gen
      /\ m.period = q.period /\ m.video = q.video /\ m.audio = q.audio /\ q.phase = "closing"
  BY <1>6 DEF Fields
<1>. HIDE DEF q
<1>8. Fit(q) /\ Made(r, q, j)
  BY <1>5, <1>7 DEF Handled, Fit, Both, Made, Still, Prepared, Added, Rotated, Goes
<1>9. j \in 0..MaxBatch /\ r.next + j <= MaxSeg + 1 BY <1>1, <1>4, <1>5, ZeroFits
<1>10. Makes(p, j, q) BY <1>2, <1>7, <1>8, <1>9 DEF Makes
<1>. QED BY <1>9, <1>10 DEF Called

\* A call of the only packager is fine.
LEMMA CalledStep ==
    ASSUME Types, Types', Inv, Alone, Called(Only)
    PROVE  Fine
<1>1. PICK k \in 0..MaxBatch : \E q : Makes(Only, k, q) BY DEF Called
<1>2. PICK q : Makes(Only, k, q) BY <1>1
<1>. QED BY <1>2, CallStep DEF Makes

\* The writer and the packager's life.
LEMMA FeedSame ==
    ASSUME Types, Types', Packager = {Only}, pk'[Only].phase \in Active, pk[Only].phase \in Active,
           pk'[Only].gen = pk[Only].gen, pk'[Only].seg = pk[Only].seg, pk'[Only].next = pk[Only].next
    PROVE  Feed' = Feed
<1>1. Feed' = FeedOf(pk'[Only].gen, pk'[Only].seg, pk'[Only].next) BY DEF Active, Feed, FeedOf
<1>. QED BY <1>1, FeedIs

LEMMA FeedOff == pk'[Only].phase \notin Active => Feed' = Files!Off
<1>. DEFINE off == Files!Off
<1>1. pk'[Only].phase \notin Active => Feed' = off BY DEF Active, Feed, Files!Off
<1>. HIDE DEF off
<1>. QED BY <1>1 DEF off

LEMMA FinishDoneStep ==
    ASSUME Types, Types', Inv, Alone, FinishDone(Only)
    PROVE  Fine
<1>. DEFINE r == pk[Only]
            q == [r EXCEPT !.phase = "closed"]
<1>1. /\ r \in Recs /\ DOMAIN r = Fields /\ Fit(r) /\ Owns(r)
      /\ r.gen \in Nat /\ r.period \in Nat
  BY OnlyFacts, RecFields, PackagerAssumption DEF Alone, Gens
<1>2. r.phase = "closing" /\ r.todo = <<>> /\ pipe[Only] = <<>> /\ UNCHANGED <<pipe, dir>> /\ Becomes(Only, q)
  BY DEF FinishDone, Drained
<1>3. /\ q.todo = r.todo /\ q.seg = r.seg /\ q.next = r.next /\ q.start = r.start /\ q.gen = r.gen
      /\ q.video = r.video /\ q.audio = r.audio /\ q.phase = "closed" /\ q.period = r.period
  BY <1>1 DEF Fields
<1>. HIDE DEF q
<1>4. pk'[Only] = q /\ periods' = periods
  BY <1>1, <1>2, <1>3, BecomesOnly DEF Alone, Owns, Numbering
<1>5. Alone' BY <1>1, <1>2, <1>3, <1>4 DEF Alone, Fit, Both, Owns, Numbering
<1>6. Feed' = Feed BY <1>2, <1>3, <1>4, FeedSame DEF Active, Alone
<1>7. Pipeline(Only)' = Pipeline(Only) BY <1>2, <1>3, <1>4 DEF Pipeline
<1>8. Dating BY <1>2, <1>3, <1>4 DEF Dating, Numbering
<1>. QED BY <1>2, <1>5, <1>6, <1>7, <1>8 DEF Fine, Files!fileVars

\* The directory is the same for both modules.
LEMMA SameDirectory ==
    /\ Files!EmptyDir = EmptyDir /\ \A d : Files!Swept(d) <=> Swept(d)
    /\ \A d, job : Files!After(d, job) = After(d, job)
    /\ \A d : Files!Fewer(d) = Fewer(d)
<1>1. Files!EmptyDir = EmptyDir BY DEF EmptyDir, Files!EmptyDir, NoMpd, Files!NoMpd
<1>2. \A d : Files!Swept(d) <=> Swept(d) BY <1>1 DEF Files!Swept, Swept
<1>3. \A d, job : Files!After(d, job) = After(d, job) BY DEF Files!After, After, Files!NoMpd, NoMpd
<1>4. \A d : Files!Fewer(d) = Fewer(d)
  BY <1>3, Zenon DEF Files!Fewer, Fewer, Files!DelMpd, DelMpd, Files!DelSeg, DelSeg
<1>. QED BY <1>1, <1>2, <1>3, <1>4

\* A packager that has begun, the files wiped.
LEMMA BeginsMaps ==
    ASSUME Types', Alone, pk[Only].phase \notin Active, pk[Only].todo = <<>>, pipe[Only] = <<>>,
           pk'[Only].phase = "live", pk'[Only].todo = <<>>, UNCHANGED pipe, Wiped,
           ~pk'[Only].seg, pk'[Only].next = 1, pk'[Only].gen \in 1..MaxGen,
           dir.mpd.gen < pk'[Only].gen
    PROVE  Files!Open
<1>1. Feed = Files!Off BY FeedIs
<1>2. ~Feed.live
  <2>. DEFINE f == FALSE
  <2>1. Feed = [live |-> f, gen |-> 0, ready |-> f, next |-> 1] BY <1>1 DEF Files!Off
  <2>. HIDE DEF f
  <2>2. Feed.live = f BY <2>1
  <2>. QED BY <2>2 DEF f
<1>3. Pipeline(Only) = <<>> /\ Pipeline(Only)' = <<>> BY DEF Pipeline
<1>4. Feed' = FeedOf(pk'[Only].gen, FALSE, 1)
  <2>1. Feed' = FeedOf(pk'[Only].gen, pk'[Only].seg, 1) BY DEF Active, Feed, FeedOf
  <2>2. pk'[Only].seg \in BOOLEAN BY DEF Types, Alone, Recs
  <2>3. pk'[Only].seg = FALSE BY <2>2
  <2>. QED BY <2>1, <2>3
<1>5. Feed' = Files!New(pk'[Only].gen) BY <1>4, FeedNew
<1>6. \/ Files!Swept(dir) /\ dir' = Files!EmptyDir
      \/ MayFail /\ ~Files!Swept(dir) /\ dir' = [dir EXCEPT !.lost = TRUE]
  BY SameDirectory DEF Wiped
<1>. QED BY <1>2, <1>3, <1>5, <1>6 DEF Files!Open

LEMMA RestartFields ==
    ASSUME NEW r, DOMAIN r = Fields, NEW g
    PROVE  /\ DOMAIN Restart(r, g) = Fields /\ ~Restart(r, g).seg
           /\ Restart(r, g).next = 1 /\ Restart(r, g).start = 1 /\ Restart(r, g).gen = g
           /\ Restart(r, g).todo = r.todo /\ Restart(r, g).phase = r.phase
           /\ Restart(r, g).period = NextPeriod(r.period)
BY DEF Restart, Fields

LEMMA OpenStep ==
    ASSUME Types, Types', Inv, Alone, Open(Only)
    PROVE  Fine
<1>. DEFINE q == [Closed EXCEPT !.phase = "opening"]
<1>1. /\ pk[Only].phase = "gone" /\ pipe[Only] = <<>> /\ Becomes(Only, q) /\ UNCHANGED <<pipe, dir>>
      /\ pk[Only].todo = <<>> /\ Len(periods) \in Nat /\ Packager = {Only}
  BY OnlyFacts DEF Open, Alone, Owns, Numbering
<1>2. /\ ~q.seg /\ q.next = 1 /\ q.start = 1 /\ q.gen = 0 /\ q.period = 0
      /\ q.todo = <<>> /\ q.phase = "opening"
  BY DEF Closed
<1>. HIDE DEF q
<1>3. q.gen <= Len(periods) BY <1>1, <1>2
<1>4. pk'[Only] = q /\ periods' = periods BY <1>1, <1>2, <1>3, BecomesOnly
<1>5. Alone' BY <1>1, <1>2, <1>4, LowRestart, PackagerAssumption DEF Alone, Fit, Owns, Numbering
<1>6. Pipeline(Only)' = Pipeline(Only) BY <1>1, <1>2, <1>4 DEF Pipeline
<1>7. Feed' = Feed BY <1>1, <1>2, <1>4, FeedOff, FeedIs DEF Active
<1>8. Dating BY <1>2, <1>4 DEF Dating, Numbering
<1>. QED BY <1>1, <1>5, <1>6, <1>7, <1>8 DEF Fine, Files!fileVars

LEMMA OpenedStep ==
    ASSUME Types, Types', Inv, Alone, Elder, Opened(Only)
    PROVE  Fine
<1>. DEFINE m == Restart(Closed, Len(periods) + 1)
            q == [m EXCEPT !.phase = "live"]
<1>1. /\ pk[Only].phase = "opening" /\ pipe[Only] = <<>> /\ Becomes(Only, q) /\ Wiped /\ UNCHANGED pipe
      /\ pk[Only].todo = <<>> /\ Len(periods) \in Nat /\ Packager = {Only} /\ Only \in Packager
  BY OnlyFacts DEF Opened, Alone, Owns
<1>2. /\ DOMAIN m = Fields /\ ~m.seg /\ m.next = 1 /\ m.start = 1 /\ m.gen = Len(periods) + 1
      /\ m.todo = <<>>
  <2>1. DOMAIN Closed = Fields /\ Closed.todo = <<>> BY DEF Closed, Fields
  <2>2. DOMAIN m = Fields BY <2>1, RestartFields
  <2>3. ~m.seg BY <2>1, RestartFields
  <2>4. m.next = 1 /\ m.start = 1 BY <2>1, RestartFields
  <2>5. m.gen = Len(periods) + 1 BY <2>1, RestartFields
  <2>6. m.todo = <<>> BY <2>1, RestartFields
  <2>. QED BY <2>2, <2>3, <2>4, <2>5, <2>6
<1>. HIDE DEF m
<1>3. /\ ~q.seg /\ q.next = 1 /\ q.start = 1 /\ q.gen = Len(periods) + 1
      /\ q.todo = <<>> /\ q.phase = "live"
  BY <1>2 DEF Fields
<1>. HIDE DEF q
<1>0. q.period \in Nat
  <2>1. pk'[Only] = q BY <1>1 DEF Becomes, Types
  <2>. QED BY <1>1, <2>1, RecFields DEF Types
<1>4. /\ pk'[Only] = q /\ q.gen <= MaxGen /\ Len(periods') = q.gen
      /\ \E o \in BOOLEAN : o /\ periods' = Append(periods, Row(q.period, Only, o))
  BY <1>0, <1>1, <1>3, BecomesOnly
<1>5. q.gen \in 1..MaxGen BY <1>1, <1>3, <1>4, PackagerAssumption
<1>6. dir.mpd.gen < q.gen BY <1>1, <1>3 DEF Elder, Latest
<1>7. Files!Open BY <1>1, <1>3, <1>4, <1>5, <1>6, BeginsMaps DEF Active
<1>8. Alone' BY <1>1, <1>3, <1>4, <1>5, LowRestart, PackagerAssumption DEF Alone, Fit, Owns, Numbering
<1>9. Dating BY <1>3, <1>4 DEF Dating, Numbering
<1>. QED BY <1>7, <1>8, <1>9 DEF Fine, Files!FilesNext

\* A file less, while nobody writes.
LEMMA RemoveStep ==
    ASSUME Types, Types', Inv, Alone, Remove(Only)
    PROVE  Fine
<1>1. /\ pk[Only].phase \in {"opening", "wiping"} /\ pk[Only].todo = <<>> /\ pipe[Only] = <<>>
      /\ dir' \in Files!Fewer(dir) /\ UNCHANGED <<pk, pipe, periods>>
  BY SameDirectory DEF Remove, Wipes, Drained
<1>2. Feed = Files!Off BY <1>1, FeedIs DEF Active
<1>3. ~Feed.live
  <2>. DEFINE off == FALSE
  <2>1. Feed = [live |-> off, gen |-> 0, ready |-> off, next |-> 1] BY <1>2 DEF Files!Off
  <2>. HIDE DEF off
  <2>2. Feed.live = off BY <2>1
  <2>. QED BY <2>2 DEF off
<1>4. Pipeline(Only) = <<>> /\ UNCHANGED <<Pipeline(Only), Feed>> BY <1>1 DEF Pipeline, Feed
<1>5. Files!Wipe BY <1>1, <1>3, <1>4 DEF Files!Wipe
<1>6. Alone' BY <1>1 DEF Alone, Fit, Both, Owns
<1>7. Dating BY <1>1 DEF Dating
<1>. QED BY <1>5, <1>6, <1>7 DEF Fine, Files!FilesNext

LEMMA ReconnectDoneStep ==
    ASSUME Types, Types', Inv, Alone, Elder, ReconnectDone(Only)
    PROVE  Fine
<1>. DEFINE r == pk[Only]
            q == [r EXCEPT !.phase = "live"]
<1>1. /\ r \in Recs /\ DOMAIN r = Fields /\ Fit(r) /\ Owns(r) /\ Len(periods) \in Nat
      /\ r.gen \in Gens /\ r.seg \in BOOLEAN /\ r.period \in Nat
  BY OnlyFacts, RecFields DEF Alone, Recs
<1>2. /\ r.phase = "wiping" /\ r.todo = <<>> /\ pipe[Only] = <<>> /\ UNCHANGED pipe /\ Becomes(Only, q)
      /\ Wiped
  BY DEF ReconnectDone, Drained
<1>3. ~r.seg /\ r.next = 1 /\ r.gen = Len(periods) /\ r.gen # 0 BY <1>1, <1>2 DEF Owns, Fit, Numbering
<1>4. /\ q.todo = r.todo /\ q.seg = r.seg /\ q.next = r.next /\ q.start = r.start /\ q.gen = r.gen
      /\ q.video = r.video /\ q.audio = r.audio /\ q.phase = "live" /\ q.period = r.period
  BY <1>1 DEF Fields
<1>. HIDE DEF q
<1>5. r.gen \in 1..MaxGen /\ r.gen \in Nat BY <1>1, <1>3, PackagerAssumption DEF Gens
<1>6. pk'[Only] = q /\ periods' = periods
  BY <1>1, <1>2, <1>3, <1>4, <1>5, BecomesOnly DEF Alone
<1>7. dir.mpd.gen < q.gen BY <1>1, <1>2, <1>3, <1>4 DEF Elder, Latest
<1>8. Files!Open BY <1>2, <1>3, <1>4, <1>5, <1>6, <1>7, BeginsMaps DEF Active
<1>9. Alone' BY <1>1, <1>2, <1>3, <1>4, <1>6 DEF Alone, Fit, Both, Owns, Numbering
<1>10. Dating BY <1>2, <1>4, <1>6 DEF Dating, Numbering
<1>. QED BY <1>8, <1>9, <1>10 DEF Fine, Files!FilesNext

LEMMA FeedLive ==
    ASSUME Types, Inv, Packager = {Only}, pk[Only].phase \in Active
    PROVE  Feed.live
<1>1. pk[Only].seg \in BOOLEAN BY OnlyFacts DEF Recs
<1>. QED BY <1>1, FeedIs, FeedFields

LEMMA ReconnectStep ==
    ASSUME Types, Types', Inv, Alone, Reconnect(Only)
    PROVE  Fine
<1>. DEFINE r == pk[Only]
            m == Restart(r, Len(periods) + 1)
            q == [m EXCEPT !.video = 0, !.audio = 0, !.phase = "wiping"]
<1>1. r \in Recs /\ DOMAIN r = Fields /\ Owns(r) /\ Len(periods) \in Nat /\ Packager = {Only}
      /\ pipe[Only] \in Seq(JobSet) /\ Len(pipe[Only]) <= Depth
  BY OnlyFacts DEF Alone
<1>2. /\ r.phase \in {"live", "closed"} /\ Becomes(Only, q) /\ UNCHANGED <<pipe, dir>>
      /\ r.todo = <<>>
  BY <1>1 DEF Reconnect, Ready, Owns
<1>3. /\ DOMAIN m = Fields /\ ~m.seg /\ m.next = 1 /\ m.start = 1 /\ m.gen = Len(periods) + 1
      /\ m.todo = <<>> /\ m.period = NextPeriod(r.period)
  <2>1. PICK w : w = m OBVIOUS
  <2>2. DOMAIN w = Fields /\ ~w.seg BY <1>1, <2>1, RestartFields
  <2>3. w.next = 1 /\ w.start = 1 BY <1>1, <2>1, RestartFields
  <2>4. w.gen = Len(periods) + 1 BY <1>1, <2>1, RestartFields
  <2>6. w.period = NextPeriod(r.period) BY <1>1, <2>1, RestartFields
  <2>5. w.todo = <<>> BY <1>1, <1>2, <2>1, RestartFields
  <2>. HIDE DEF m
  <2>. QED BY <2>1, <2>2, <2>3, <2>4, <2>5, <2>6
<1>. HIDE DEF m
<1>4. /\ ~q.seg /\ q.next = 1 /\ q.start = 1 /\ q.gen = Len(periods) + 1
      /\ q.todo = <<>> /\ q.phase = "wiping" /\ q.period = NextPeriod(r.period)
  BY <1>3 DEF Fields
<1>. HIDE DEF q
<1>0. q.period \in Nat
  <2>1. Only \in Packager BY <1>1
  <2>2. pk'[Only] = q BY <1>2, <2>1 DEF Becomes, Types
  <2>. QED BY <2>1, <2>2, RecFields DEF Types
<1>5. /\ pk'[Only] = q /\ q.gen <= MaxGen /\ Len(periods') = q.gen
      /\ \E o \in BOOLEAN : periods' = Append(periods, Row(q.period, Only, o))
  BY <1>0, <1>1, <1>2, <1>4, BecomesOnly
<1>6. Alone' BY <1>1, <1>2, <1>4, <1>5, LowRestart DEF Alone, Fit, Owns, Numbering
<1>7. Pipeline(Only) = pipe[Only] /\ Pipeline(Only)' = Pipeline(Only)
  BY <1>1, <1>2, <1>4, <1>5, Nothing DEF Pipeline
<1>8. Feed.live /\ Feed' = Files!Off
  BY <1>1, <1>2, <1>4, <1>5, FeedLive, FeedOff DEF Active
<1>9. Files!End BY <1>1, <1>2, <1>7, <1>8 DEF Files!End
<1>10. Dating BY <1>2, <1>4, <1>5 DEF Dating, Numbering
<1>. QED BY <1>6, <1>9, <1>10 DEF Fine, Files!FilesNext

LEMMA DropStep ==
    ASSUME Types, Types', Inv, Alone, Drop(Only)
    PROVE  Fine
<1>. DEFINE r == pk[Only]
            J == pipe[Only]
<1>1. r \in Recs /\ Owns(r) /\ Packager = {Only} /\ Only \in Packager
      /\ J \in Seq(JobSet) /\ Len(J) <= Depth /\ Depth \in Nat /\ Depth # 0
  BY OnlyFacts, PackagerAssumption DEF Alone
<1>2. /\ r.phase \in {"live", "closed"} /\ UNCHANGED <<dir, periods>> /\ pk'[Only] = Closed
      /\ r.todo = <<>>
  BY <1>1 DEF Drop, Ready, Owns, Types
<1>3. PICK k \in 0..1 : k <= Len(J) /\ pipe'[Only] = SubSeq(J, 1, k)
  BY <1>1 DEF Drop, Types
<1>4. Closed.phase = "gone" /\ Closed.todo = <<>> /\ ~Closed.seg /\ Closed.next = 1 /\ Closed.start = 1
  BY DEF Closed
<1>5. Len(pipe'[Only]) <= Depth BY <1>1, <1>3
<1>6. Alone' BY <1>1, <1>2, <1>4, <1>5, LowRestart DEF Alone, Fit, Owns, Numbering
<1>7. Pipeline(Only) = J BY <1>1, <1>2, Nothing DEF Pipeline
<1>8. Pipeline(Only)' = SubSeq(J, 1, k)
  <2>1. SubSeq(J, 1, k) \in Seq(JobSet) BY <1>1, <1>3
  <2>2. Pipeline(Only)' = SubSeq(J, 1, k) \o <<>> BY <1>2, <1>3, <1>4 DEF Pipeline
  <2>. QED BY <2>1, <2>2, Nothing
<1>9. Feed.live /\ Feed' = Files!Off
  BY <1>1, <1>2, <1>4, FeedLive, FeedOff DEF Active
<1>10. k \in {0, 1} \cap 0..Len(J) BY <1>1, <1>3
<1>11. Files!End BY <1>1, <1>2, <1>7, <1>8, <1>9, <1>10 DEF Files!End
<1>12. Dating BY <1>2, <1>4 DEF Dating, Numbering
<1>. QED BY <1>6, <1>11, <1>12 DEF Fine, Files!FilesNext

LEMMA TailFacts ==
    ASSUME NEW S, NEW s \in Seq(S), NEW n \in Nat, Len(s) = n + 1
    PROVE  Tail(s) \in Seq(S) /\ Len(Tail(s)) = n /\ \A i \in 1..n : Tail(s)[i] = s[i + 1]
<1>1. s # <<>> BY ElementOf
<1>. QED BY <1>1

Joins(S, D, E, F) ==
    /\ F \in Seq(S) /\ Len(F) = Len(D) + Len(E)
    /\ \A i \in 1..Len(D) : F[i] = D[i]
    /\ \A i \in 1..Len(E) : F[Len(D) + i] = E[i]

LEMMA JoinIs ==
    ASSUME NEW S, NEW D \in Seq(S), NEW E \in Seq(S)
    PROVE  \E F : F = D \o E /\ Joins(S, D, E, F)
<1>. DEFINE F == D \o E
<1>1. F \in Seq(S) /\ Len(F) = Len(D) + Len(E) OBVIOUS
<1>2. \A i \in 1..Len(D) : F[i] = D[i] OBVIOUS
<1>3. \A i \in 1..Len(E) : F[Len(D) + i] = E[i] OBVIOUS
<1>. HIDE DEF F
<1>4. Joins(S, D, E, F) BY <1>1, <1>2, <1>3 DEF Joins
<1>. QED BY <1>4 DEF F

LEMMA Shifted ==
    ASSUME NEW S, NEW s \in Seq(S), NEW t \in Seq(S), t # <<>>
    PROVE  Append(s, Head(t)) \o Tail(t) = s \o t
<1>. DEFINE a == Append(s, Head(t))
            b == Tail(t)
<1>1. PICK n \in Nat : n = Len(s) BY ElementOf
<1>2. PICK k \in Nat : k + 1 = Len(t)
  <2>1. Len(t) \in Nat /\ Len(t) # 0 BY ElementOf
  <2>2. Len(t) - 1 \in Nat /\ (Len(t) - 1) + 1 = Len(t) BY <2>1
  <2>. QED BY <2>2
<1>3. PICK m \in Nat, h \in Nat, z \in Nat : m = n + 1 /\ h = k + 1 /\ z = n + h /\ z = m + k
  <2>1. n + 1 \in Nat /\ k + 1 \in Nat /\ n + (k + 1) \in Nat /\ n + (k + 1) = (n + 1) + k OBVIOUS
  <2>. QED BY <2>1
<1>4. a \in Seq(S) /\ Len(a) = m /\ a[m] = t[1] /\ \A i \in 1..n : a[i] = s[i] BY <1>1, <1>3
<1>5. b \in Seq(S) /\ Len(b) = k /\ \A i \in 1..k : b[i] = t[i + 1] BY <1>2, TailFacts
<1>. HIDE DEF a, b
<1>6. PICK E \in Seq(S) : /\ E = a \o b /\ Len(E) = z
                          /\ \A i \in 1..m : E[i] = a[i]
                          /\ \A i \in 1..k : E[m + i] = b[i]
  <2>1. Len(a) = m /\ Len(b) = k /\ z = m + k BY <1>3, <1>4, <1>5
  <2>2. PICK w : w = a \o b /\ Joins(S, a, b, w) BY <1>4, <1>5, JoinIs, Zenon
  <2>. QED BY <2>1, <2>2 DEF Joins
<1>7. PICK F \in Seq(S) : /\ F = s \o t /\ Len(F) = z
                          /\ \A i \in 1..n : F[i] = s[i]
                          /\ \A i \in 1..h : F[n + i] = t[i]
  <2>1. Len(s) = n /\ Len(t) = h /\ z = n + h BY <1>1, <1>2, <1>3
  <2>2. PICK w : w = s \o t /\ Joins(S, s, t, w) BY JoinIs, Zenon
  <2>. QED BY <2>1, <2>2 DEF Joins
<1>8. ASSUME NEW i \in 1..z PROVE E[i] = F[i]
  <2>1. CASE i <= n
    <3>1. i \in 1..n /\ i \in 1..m BY <1>3, <2>1
    <3>. QED BY <1>4, <1>6, <1>7, <3>1
  <2>2. CASE i = m
    <3>1. m \in 1..m /\ 1 \in 1..h /\ n + 1 = m BY <1>3
    <3>2. E[m] = t[1] BY <1>4, <1>6, <3>1
    <3>3. F[n + 1] = t[1] BY <1>7, <3>1
    <3>. QED BY <2>2, <3>1, <3>2, <3>3
  <2>3. CASE i > m
    <3>1. PICK j \in Nat : j \in 1..k /\ i = m + j
      <4>1. i - m \in 1..k /\ m + (i - m) = i BY <1>3, <2>3
      <4>. QED BY <4>1
    <3>2. j + 1 \in 1..h /\ n + (j + 1) = i BY <1>3, <3>1
    <3>3. E[i] = t[j + 1] BY <1>5, <1>6, <3>1
    <3>4. F[n + (j + 1)] = t[j + 1] BY <1>7, <3>2
    <3>. QED BY <3>2, <3>3, <3>4
  <2>. QED BY <1>3, <2>1, <2>2, <2>3
<1>9. E = F BY <1>6, <1>7, <1>8, SameSeq
<1>. QED BY <1>6, <1>7, <1>9 DEF a, b

LEMMA Fed ==
    ASSUME NEW S, NEW s \in Seq(S), NEW t \in Seq(S), s # <<>>
    PROVE  s \o t # <<>> /\ Head(s \o t) = Head(s) /\ Tail(s \o t) = Tail(s) \o t
<1>1. PICK n \in Nat : n + 1 = Len(s)
  <2>1. Len(s) \in Nat /\ Len(s) # 0 BY ElementOf
  <2>2. Len(s) - 1 \in Nat /\ (Len(s) - 1) + 1 = Len(s) BY <2>1
  <2>. QED BY <2>2
<1>2. PICK k \in Nat : k = Len(t) BY ElementOf
<1>3. PICK m \in Nat, y \in Nat, z \in Nat : m = n + 1 /\ y = n + k /\ z = m + k /\ z = y + 1
  <2>1. n + 1 \in Nat /\ n + k \in Nat /\ (n + 1) + k \in Nat /\ (n + 1) + k = (n + k) + 1 OBVIOUS
  <2>. QED BY <2>1
<1>4. PICK F \in Seq(S) : /\ F = s \o t /\ Len(F) = z
                          /\ \A i \in 1..m : F[i] = s[i]
                          /\ \A i \in 1..k : F[m + i] = t[i]
  <2>1. Len(s) = m /\ Len(t) = k /\ z = m + k BY <1>1, <1>2, <1>3
  <2>2. PICK w : w = s \o t /\ Joins(S, s, t, w) BY JoinIs, Zenon
  <2>. QED BY <2>1, <2>2 DEF Joins
<1>5. PICK b \in Seq(S) : b = Tail(s) /\ Len(b) = n /\ \A i \in 1..n : b[i] = s[i + 1]
  BY <1>1, TailFacts
<1>6. PICK E \in Seq(S) : /\ E = b \o t /\ Len(E) = y
                          /\ \A i \in 1..n : E[i] = b[i]
                          /\ \A i \in 1..k : E[n + i] = t[i]
  <2>1. Len(b) = n /\ Len(t) = k /\ y = n + k BY <1>2, <1>3, <1>5
  <2>2. PICK w : w = b \o t /\ Joins(S, b, t, w) BY <1>5, JoinIs, Zenon
  <2>. QED BY <2>1, <2>2 DEF Joins
<1>7. PICK G \in Seq(S) : G = Tail(F) /\ Len(G) = y /\ \A i \in 1..y : G[i] = F[i + 1]
  <2>1. Len(F) = y + 1 BY <1>3, <1>4
  <2>2. Tail(F) \in Seq(S) /\ Len(Tail(F)) = y /\ \A i \in 1..y : Tail(F)[i] = F[i + 1]
    BY <2>1, TailFacts
  <2>. QED BY <2>2
<1>8. ASSUME NEW i \in 1..y PROVE G[i] = E[i]
  <2>1. CASE i <= n
    <3>1. i \in 1..n /\ i + 1 \in 1..m BY <1>3, <2>1
    <3>. QED BY <1>4, <1>5, <1>6, <1>7, <3>1
  <2>2. CASE i > n
    <3>1. PICK j \in Nat : j \in 1..k /\ i = n + j
      <4>1. i - n \in 1..k /\ n + (i - n) = i BY <1>3, <2>2
      <4>. QED BY <4>1
    <3>2. i + 1 = m + j BY <1>3, <3>1
    <3>. QED BY <1>4, <1>6, <1>7, <3>1, <3>2
  <2>. QED BY <2>1, <2>2
<1>9. G = E BY <1>6, <1>7, <1>8, SameSeq
<1>10. F # <<>> /\ F[1] = s[1]
  <2>1. 1 \in 1..m BY <1>3
  <2>. QED BY <1>3, <1>4, <2>1
<1>11. Head(F) = Head(s) BY <1>4, <1>10
<1>. QED BY <1>4, <1>5, <1>6, <1>7, <1>9, <1>10, <1>11

LEMMA AcceptStep ==
    ASSUME Types, Types', Inv, Alone, Accept(Only)
    PROVE  Fine
<1>. DEFINE r == pk[Only]
            t == Tail(r.todo)
            q == [r EXCEPT !.todo = t]
<1>1. r \in Recs /\ DOMAIN r = Fields /\ Fit(r) /\ Owns(r) /\ Packager = {Only} /\ Only \in Packager
      /\ pipe[Only] \in Seq(JobSet) /\ r.todo \in Seq(JobSet) /\ Depth \in Nat /\ Len(pipe[Only]) \in Nat
  BY OnlyFacts, RecFields, PackagerAssumption, ElementOf DEF Alone
<1>2. /\ r.todo # <<>> /\ Len(pipe[Only]) < Depth /\ UNCHANGED <<dir, periods>>
      /\ pipe'[Only] = Append(pipe[Only], Head(r.todo)) /\ pk'[Only] = q
  BY <1>1 DEF Accept, Types
<1>3. /\ q.todo = t /\ q.seg = r.seg /\ q.next = r.next /\ q.start = r.start /\ q.gen = r.gen
      /\ q.video = r.video /\ q.audio = r.audio /\ q.phase = r.phase /\ q.period = r.period
  BY <1>1 DEF Fields
<1>. HIDE DEF q
<1>4. Len(pipe'[Only]) <= Depth
  <2>1. Len(pipe'[Only]) = Len(pipe[Only]) + 1 BY <1>1, <1>2, QueueFacts, Appended
  <2>. QED BY <1>1, <1>2, <2>1
<1>5. r.phase \in Numbering /\ r.phase # "closed" BY <1>1, <1>2 DEF Owns
<1>6. Alone'
  <2>1. q.phase \notin {"closed", "opening"} BY <1>3, <1>5 DEF Numbering
  <2>2. Owns(pk[Only])' BY <1>1, <1>2, <1>3, <1>5, <2>1 DEF Owns
  <2>3. Fit(pk[Only])' BY <1>1, <1>2, <1>3 DEF Fit, Both
  <2>. QED BY <1>1, <1>4, <2>2, <2>3 DEF Alone
<1>7. Pipeline(Only)' = Pipeline(Only)
  <2>1. Pipeline(Only)' = Append(pipe[Only], Head(r.todo)) \o t BY <1>2, <1>3 DEF Pipeline
  <2>. QED BY <1>1, <1>2, <2>1, Shifted DEF Pipeline
<1>8. Feed' = Feed
  <2>1. CASE r.phase \in Active BY <1>1, <1>2, <1>3, <2>1, FeedSame
  <2>2. CASE r.phase \notin Active BY <1>2, <1>3, <2>2, FeedOff, FeedIs
  <2>. QED BY <2>1, <2>2
<1>9. Dating BY <1>2, <1>3, <1>5 DEF Dating
<1>. QED BY <1>2, <1>6, <1>7, <1>8, <1>9 DEF Fine, Files!fileVars

\* The packager is the same, and the writer has done its oldest job.
LEMMA DoneJob ==
    ASSUME Types, Types', Inv, Alone, pipe[Only] # <<>>, UNCHANGED <<pk, periods>>,
           pipe' = [pipe EXCEPT ![Only] = Tail(@)]
    PROVE  /\ Alone' /\ UNCHANGED Feed /\ Pipeline(Only) # <<>>
           /\ Head(Pipeline(Only)) = Head(pipe[Only]) /\ Pipeline(Only)' = Tail(Pipeline(Only))
<1>. DEFINE r == pk[Only]
<1>1. r \in Recs /\ Fit(r) /\ Owns(r) /\ Packager = {Only} /\ Only \in Packager
      /\ pipe[Only] \in Seq(JobSet) /\ r.todo \in Seq(JobSet) /\ Depth \in Nat /\ Len(pipe[Only]) <= Depth
  BY OnlyFacts, RecFields, PackagerAssumption DEF Alone
<1>2. pipe'[Only] = Tail(pipe[Only]) BY <1>1 DEF Types
<1>3. r.phase \notin {"closed", "opening"} BY <1>1 DEF Owns
<1>4. Len(pipe'[Only]) <= Depth BY <1>1, <1>2
<1>5. Alone' BY <1>1, <1>3, <1>4 DEF Alone, Fit, Both, Owns
<1>6. Feed' = Feed BY DEF Feed
<1>7. Pipeline(Only)' = Tail(pipe[Only]) \o r.todo BY <1>2 DEF Pipeline
<1>. QED BY <1>1, <1>5, <1>6, <1>7, Fed DEF Pipeline

LEMMA WriterStep ==
    ASSUME Types, Types', Inv, Alone, Apply(Only) \/ FailJob(Only)
    PROVE  Fine
<1>1. CASE Apply(Only)
  <2>1. pipe[Only] # <<>> /\ dir' = After(dir, Head(pipe[Only])) /\ UNCHANGED <<pk, periods>>
        /\ pipe' = [pipe EXCEPT ![Only] = Tail(@)]
    BY <1>1 DEF Apply
  <2>2. /\ Alone' /\ UNCHANGED Feed /\ Pipeline(Only) # <<>>
        /\ Head(Pipeline(Only)) = Head(pipe[Only]) /\ Pipeline(Only)' = Tail(Pipeline(Only))
    BY <2>1, DoneJob
  <2>3. \A d, job : Files!After(d, job) = After(d, job) BY DEF Files!After, After, Files!NoMpd, NoMpd
  <2>4. Files!Do BY <2>1, <2>2, <2>3 DEF Files!Do
  <2>5. Dating BY <2>1 DEF Dating
  <2>. QED BY <2>2, <2>4, <2>5 DEF Fine, Files!FilesNext
<1>2. CASE FailJob(Only)
  <2>1. pipe[Only] # <<>> /\ MayFail /\ dir' = [dir EXCEPT !.lost = TRUE] /\ UNCHANGED <<pk, periods>>
        /\ pipe' = [pipe EXCEPT ![Only] = Tail(@)]
    BY <1>2 DEF FailJob
  <2>2. /\ Alone' /\ UNCHANGED Feed /\ Pipeline(Only) # <<>> /\ Pipeline(Only)' = Tail(Pipeline(Only))
    BY <2>1, DoneJob
  <2>3. Files!Fail BY <2>1, <2>2 DEF Files!Fail
  <2>4. Dating BY <2>1 DEF Dating
  <2>. QED BY <2>2, <2>3, <2>4 DEF Fine, Files!FilesNext
<1>. QED BY <1>1, <1>2

LEMMA QuietStep ==
    ASSUME Alone, UNCHANGED <<pk, pipe, dir, periods>>
    PROVE  Fine
<1>1. Alone' BY DEF Alone, Fit, Both, Owns
<1>2. UNCHANGED Files!fileVars BY DEF Files!fileVars, Pipeline, Feed
<1>3. Dating BY DEF Dating
<1>. QED BY <1>1, <1>2, <1>3 DEF Fine

LEMMA NextFine ==
    Types /\ Types' /\ Inv /\ Alone /\ Elder /\ [Next]_vars => Fine
<1>. SUFFICES ASSUME Types, Types', Inv, Alone, Elder, [Next]_vars PROVE Fine OBVIOUS
<1>1. \A p \in Packager : p = Only BY DEF Alone
<1>2. CASE Tick BY <1>2, QuietStep DEF Tick
<1>3. CASE UNCHANGED vars BY <1>3, QuietStep DEF vars
<1>0. Only \in Packager /\ Fit(pk[Only]) BY DEF Alone
<1>4. CASE Media(Only) BY <1>0, <1>4, MediaCalls, CalledStep
<1>5. CASE Inner(Only)
  BY <1>0, <1>5, ReplayCalls, CalledStep, RemoveStep, OpenedStep, FinishDoneStep, ReconnectDoneStep,
     AcceptStep, WriterStep
  DEF Inner
<1>6. CASE Owner(Only)
  BY <1>0, <1>6, OpenStep, ReconnectStep, DropStep, FinishCalls, CalledStep DEF Owner
<1>7. CASE FailJob(Only) BY <1>7, WriterStep
<1>. QED BY <1>1, <1>2, <1>3, <1>4, <1>5, <1>6, <1>7 DEF Next

LEMMA InitFine == Packager = {Only} /\ Init => Alone /\ Files!Init
<1>. SUFFICES ASSUME Packager = {Only}, Init PROVE Alone /\ Files!Init OBVIOUS
<1>1. pk[Only] = Closed /\ pipe[Only] = <<>> /\ dir = EmptyDir BY DEF Init
<1>2. Closed.phase = "gone" /\ Closed.todo = <<>> /\ ~Closed.seg /\ Closed.next = 1 /\ Closed.start = 1
  BY DEF Closed
<1>3. Alone
  <2>1. Fit(Closed) BY <1>2, LowRestart DEF Fit
  <2>2. Len(<<>>) <= Depth BY PackagerAssumption
  <2>. QED BY <1>1, <1>2, <2>1, <2>2 DEF Alone, Owns, Numbering
<1>4. Pipeline(Only) = <<>> BY <1>1, <1>2 DEF Pipeline
<1>5. Feed = Files!Off BY <1>1, <1>2, FeedIs DEF Active
<1>6. dir = Files!EmptyDir BY <1>1 DEF EmptyDir, Files!EmptyDir, NoMpd, Files!NoMpd
<1>. QED BY <1>3, <1>4, <1>5, <1>6 DEF Files!Init

\* What ChannelFiles promises, of the packager's files (ChannelFiles_proofs).
Promised == INSTANCE ChannelFiles_proofs WITH
    Lag  <- Depth, FirstGen <- 1..MaxGen, LastSeg <- [g \in 1..MaxGen |-> MaxSeg],
    jobs <- Pipeline(Only),
    feed <- Feed

\* The two instances of ChannelFiles say the same.
LEMMA SameInit == Files!Init <=> Promised!Init
BY DEF Files!Init, Promised!Init, Files!EmptyDir, Promised!EmptyDir, Files!NoMpd, Promised!NoMpd, Files!Off, Promised!Off

LEMMA SameNext == Files!FilesNext <=> Promised!FilesNext
BY Zenon DEF Files!FilesNext, Promised!FilesNext, Files!Open, Promised!Open, Files!Prepare, Promised!Prepare,
  Files!Add, Promised!Add, Files!Rotate, Promised!Rotate, Files!End, Promised!End, Files!Do, Promised!Do,
  Files!Fail, Promised!Fail, Files!Wipe, Promised!Wipe, Files!Fewer, Promised!Fewer, Files!Swept, Promised!Swept,
  Files!Goes, Promised!Goes, Files!New, Promised!New, Files!Off, Promised!Off,
  Files!EmptyDir, Promised!EmptyDir, Files!NoMpd, Promised!NoMpd, Files!After, Promised!After,
  Files!Segments, Promised!Segments, Files!Deletes, Promised!Deletes, Files!Slides, Promised!Slides,
  Files!First, Promised!First, Files!Window, Promised!Window, Files!Keep, Promised!Keep, Files!Grace, Promised!Grace,
  Files!InitJob, Promised!InitJob, Files!SegJob, Promised!SegJob, Files!MpdJob, Promised!MpdJob,
  Files!DelSeg, Promised!DelSeg, Files!DelMpd, Promised!DelMpd

LEMMA PromisedAssumption == Promised!DirectoryAssumption /\ Promised!FilesAssumption
<1>1. Promised!DirectoryAssumption BY DirectoryAssumption DEF Promised!DirectoryAssumption
<1>. QED BY <1>1, PackagerAssumption, DirectoryAssumption DEF Promised!FilesAssumption

LEMMA SameNoMpd == Promised!NoMpd = NoMpd
BY DEF NoMpd, Promised!NoMpd

\* The invariant: what holds of the packager and of its files, no manifest of a
\* generation whose directory is yet to be wiped included.
Held ==
    /\ Types /\ Inv /\ Alone /\ Promised!FilesInv
    /\ Promised!Names(dir, Pipeline(Only), 1..Latest)

LEMMA LatestFacts ==
    ASSUME Types, Inv, Alone
    PROVE  Latest \in Nat /\ Len(periods) \in Nat /\ Latest <= Len(periods)
<1>1. Len(periods) \in Nat BY OnlyFacts DEF Alone
<1>2. pk[Only].phase = "wiping" => Len(periods) # 0 BY DEF Alone, Owns, Numbering
<1>. QED BY <1>1, <1>2 DEF Latest

LEMMA HeldElder == Held => Elder
<1>. SUFFICES ASSUME Held PROVE Elder OBVIOUS
<1>1. Latest \in Nat BY LatestFacts DEF Held
<1>2. dir.mpd = NoMpd \/ dir.mpd.gen \in 1..Latest
  BY SameNoMpd DEF Held, Promised!Names
<1>3. NoMpd.gen = 0 BY DEF NoMpd
<1>. QED BY <1>1, <1>2, <1>3 DEF Elder

LEMMA InitHeld == Packager = {Only} /\ Init => Held
<1>. SUFFICES ASSUME Packager = {Only}, Init PROVE Held OBVIOUS
<1>1. Types /\ Inv /\ Alone /\ Files!Init BY InitTyped, InitInv, InitFine
<1>2. Promised!FilesInv BY <1>1, SameInit, PromisedAssumption, Promised!FilesInductive
<1>3. pk[Only] = Closed /\ pipe[Only] = <<>> /\ dir.mpd = NoMpd BY <1>1 DEF Init, Alone, EmptyDir
<1>4. Pipeline(Only) = <<>> BY <1>3 DEF Pipeline, Closed
<1>5. Promised!Names(dir, Pipeline(Only), 1..Latest)
  BY <1>3, <1>4, SameNoMpd DEF Promised!Names, Promised!Named
<1>. QED BY <1>1, <1>2, <1>5 DEF Held

\* A packager at work writes files of its own generation.
LEMMA FeedLatest ==
    ASSUME Types, Inv, Alone
    PROVE  Feed.live => Feed.gen \in 1..Latest
<1>. SUFFICES ASSUME Feed.live PROVE Feed.gen \in 1..Latest OBVIOUS
<1>1. /\ pk[Only] \in Recs /\ Packager = {Only} /\ Len(periods) \in Nat /\ Owns(pk[Only])
      /\ pk[Only].seg \in BOOLEAN
  BY OnlyFacts, RecFields DEF Alone
<1>2. pk[Only].phase \in Active
  <2>. DEFINE f == FALSE
  <2>1. Files!Off = [live |-> f, gen |-> 0, ready |-> f, next |-> 1] BY DEF Files!Off
  <2>. HIDE DEF f
  <2>2. Files!Off.live = f BY <2>1
  <2>3. ~Files!Off.live BY <2>2 DEF f
  <2>. QED BY <2>3, FeedIs
<1>3. pk[Only].gen = Len(periods) /\ pk[Only].gen # 0 /\ pk[Only].phase # "wiping"
  BY <1>1, <1>2 DEF Active, Owns, Numbering
<1>4. Feed.gen = pk[Only].gen BY <1>1, <1>2, FeedIs, FeedFields
<1>. QED BY <1>1, <1>3, <1>4 DEF Latest

LEMMA AppendedId ==
    ASSUME NEW S, NEW s \in Seq(S), NEW e \in S
    PROVE  /\ Len(Append(s, e)) = Len(s) + 1 /\ Append(s, e)[Len(s) + 1] = e
           /\ \A i \in 1..Len(s) : Append(s, e)[i] = s[i]
OBVIOUS

\* The generations begun, after a step: the same ones, or one more.
LEMMA DatingRows ==
    ASSUME Types, Types', Alone, Dating, periods' # periods
    PROVE  \E o \in BOOLEAN :
              /\ Len(periods') = Len(periods) + 1
              /\ periods'[Len(periods) + 1].id = pk'[Only].period
              /\ periods'[Len(periods) + 1].opens = o
              /\ \A i \in 1..Len(periods) : periods'[i] = periods[i]
              /\ o \/ (pk[Only].phase \in Numbering /\ pk'[Only].period = NextPeriod(pk[Only].period))
<1>1. PICK o \in BOOLEAN :
         /\ periods' = Append(periods, Row(pk'[Only].period, Only, o))
         /\ o \/ (pk[Only].phase \in Numbering /\ pk'[Only].period = NextPeriod(pk[Only].period))
  BY DEF Dating
<1>2. Only \in Packager /\ periods \in Seq(Rows) BY DEF Alone, Types
<1>3. pk'[Only].period \in Nat
  <2>1. pk'[Only] \in Recs BY <1>2 DEF Types
  <2>. QED BY <2>1, RecFields
<1>4. PICK e \in Rows : e = Row(pk'[Only].period, Only, o) /\ e.id = pk'[Only].period /\ e.opens = o
  BY <1>2, <1>3, RowFacts
<1>5. /\ Len(Append(periods, e)) = Len(periods) + 1 /\ Append(periods, e)[Len(periods) + 1] = e
      /\ \A i \in 1..Len(periods) : Append(periods, e)[i] = periods[i]
  BY <1>2, AppendedId
<1>. QED BY <1>1, <1>4, <1>5

LEMMA LatestGrows ==
    ASSUME Types, Types', Inv, Inv', Alone, Alone', Dating
    PROVE  Latest <= Latest' /\ Latest \in Nat /\ Latest' \in Nat
<1>1. Latest \in Nat /\ Len(periods) \in Nat /\ Latest <= Len(periods) BY LatestFacts
<1>2. Len(periods') \in Nat BY PackagerAssumption DEF Types, Gens
<1>3. pk'[Only].phase = "wiping" => Len(periods') # 0 BY DEF Alone, Owns, Numbering
<1>4. Latest' = IF pk'[Only].phase = "wiping" THEN Len(periods') - 1 ELSE Len(periods') BY DEF Latest
<1>5. CASE periods' # periods
  <2>1. Len(periods') = Len(periods) + 1 BY <1>5, DatingRows
  <2>. QED BY <1>1, <1>2, <1>3, <1>4, <2>1
<1>6. CASE periods' = periods
  <2>1. Len(periods') = Len(periods) BY <1>6
  <2>2. pk'[Only].phase = "wiping" => pk[Only].phase = "wiping"
    <3>1. pk'[Only].gen = Len(periods) + 1 => pk'[Only].phase \notin Numbering
      BY <1>1, <2>1 DEF Alone, Owns
    <3>. QED BY <3>1 DEF Dating
  <2>. QED BY <1>1, <1>2, <1>3, <1>4, <2>1, <2>2 DEF Latest
<1>. QED BY <1>5, <1>6

LEMMA NamesGrow ==
    ASSUME NEW d, NEW J, NEW X, NEW Y, Promised!Names(d, J, X), \A x \in X : x \in Y
    PROVE  Promised!Names(d, J, Y)
BY DEF Promised!Names, Promised!Named

\* A step of the packager, and what it makes of the files.
LEMMA HeldFine ==
    ASSUME Held, [Next]_vars
    PROVE  /\ Types' /\ Inv' /\ Fine /\ [Promised!FilesNext]_(Promised!fileVars)
           /\ Promised!Names(dir', Pipeline(Only)', 1..Latest)
<1>1. Types' /\ Inv' BY NextTyped, NextInv DEF Held
<1>2. Fine BY <1>1, HeldElder, NextFine DEF Held
<1>0. [Files!FilesNext]_(Files!fileVars) BY <1>2 DEF Fine
<1>3. [Promised!FilesNext]_(Promised!fileVars) BY <1>0, SameNext DEF Files!fileVars, Promised!fileVars
<1>4. Promised!FilesTypeOK BY DEF Held, Promised!FilesInv
<1>5. PICK X : X = 1..Latest OBVIOUS
<1>6. (Feed.live => Feed.gen \in X) /\ Promised!Names(dir, Pipeline(Only), X)
  BY <1>5, FeedLatest DEF Held
<1>7. Promised!Names(dir', Pipeline(Only)', X)
  BY <1>3, <1>4, <1>6, PromisedAssumption, Promised!NamedStep
<1>. QED BY <1>1, <1>2, <1>3, <1>5, <1>7

LEMMA HeldStep == Held /\ [Next]_vars => Held'
<1>. SUFFICES ASSUME Held, [Next]_vars PROVE Held' OBVIOUS
<1>1. /\ Types' /\ Inv' /\ Alone' /\ Dating /\ [Promised!FilesNext]_(Promised!fileVars)
      /\ Promised!Names(dir', Pipeline(Only)', 1..Latest)
  BY HeldFine DEF Fine
<1>2. Promised!FilesInv' BY <1>1, PromisedAssumption, Promised!FilesInductive DEF Held
<1>3. Latest <= Latest' /\ Latest \in Nat /\ Latest' \in Nat BY <1>1, LatestGrows DEF Held
<1>4. \A x \in 1..Latest : x \in 1..Latest' BY <1>3
<1>5. Promised!Names(dir', Pipeline(Only)', 1..Latest') BY <1>1, <1>4, NamesGrow
<1>. QED BY <1>1, <1>2, <1>5 DEF Held

LEMMA HeldAlways == Packager = {Only} /\ Spec => []Held
BY InitHeld, HeldStep, PTL DEF Spec

\* The packager does to the files of its channel what ChannelFiles allows,
\* whatever the depth of its writer, the batches and the outcomes of building a
\* segmenter; for the one packager that the registry lets a channel have.
THEOREM ImplementsFiles == Packager = {Only} /\ Spec => ImplementsChannelFiles
<1>1. Packager = {Only} /\ Init => Files!Init BY InitFine
<1>2. Held /\ [Next]_vars => [Files!FilesNext]_(Files!fileVars) BY HeldFine DEF Fine
<1>. QED BY <1>1, <1>2, HeldAlways, PTL DEF Spec, ImplementsChannelFiles, Files!FilesSpec

-----------------------------------------------------------------------------
LEMMA HeldFollows ==
    ASSUME Held
    PROVE  Promised!FilesWhole /\ Promised!FilesMended /\ Promised!FilesKept /\ Promised!FilesListed
BY PromisedAssumption, Promised!FilesFollow DEF Held

\* The manifest lists segments of the generation of init.mp4.
LEMMA HeldOne == Held => OneGeneration
<1>. SUFFICES ASSUME Held, dir.mpd # NoMpd, ~dir.lost
              PROVE  /\ dir.init = dir.mpd.gen
                     /\ \A n \in Listed : dir.seg[n] \in {0, dir.mpd.gen}
  BY DEF OneGeneration
<1>1. Promised!Whole(dir) BY HeldFollows DEF Promised!FilesWhole
<1>. QED BY <1>1, SameNoMpd DEF Promised!Whole, Listed

\* The packager is there: its files are the ones ChannelFiles speaks of,
\* unless they are being wiped.
LEMMA TendedLive ==
    ASSUME Held, Tended, pk[Only].phase # "wiping"
    PROVE  /\ Feed.live /\ Feed.gen = pk[Only].gen /\ Feed.next = pk[Only].next
           /\ pk[Only].start = Promised!First(Feed.next)
<1>. DEFINE r == pk[Only]
<1>1. r \in Recs /\ Packager = {Only} /\ Fit(r) BY OnlyFacts DEF Held, Alone
<1>2. r.phase \in Active BY <1>1 DEF Tended, Active, Recs, Phases
<1>3. r.seg \in BOOLEAN BY <1>1 DEF Recs
<1>4. Feed = FeedOf(r.gen, r.seg, r.next) BY <1>2, FeedIs
<1>5. Feed.live /\ Feed.gen = r.gen /\ Feed.next = r.next BY <1>3, <1>4, FeedFields
<1>6. \A n : Promised!First(n) = Low(n)
  BY DEF Promised!First, Low, Promised!Keep, Keep, Promised!Grace, Grace
<1>. QED BY <1>1, <1>5, <1>6 DEF Fit

LEMMA HeldGap == Held => GapIsTransient
<1>. SUFFICES ASSUME Held, Tended, Gap, ~dir.lost, pk[Only].phase # "wiping"
              PROVE  Awaits(Only, {"mpd", "del_mpd"})
  BY DEF Held, Alone, GapIsTransient
<1>1. Feed.live BY TendedLive
<1>2. Promised!Hole(dir) BY DEF Gap, Listed, Promised!Hole
<1>3. \E i \in DOMAIN Pipeline(Only) : Promised!OfManifest(Pipeline(Only)[i])
  BY <1>1, <1>2, HeldFollows DEF Promised!FilesMended
<1>. QED BY <1>3 DEF Awaits, Promised!OfManifest

LEMMA HeldSegments == Held => NoForgottenSegment
<1>. SUFFICES ASSUME Held, Tended, ~dir.lost, NEW n \in 1..MaxSeg, dir.seg[n] # 0,
                     pk[Only].phase # "wiping"
              PROVE  \/ dir.seg[n] = pk[Only].gen /\ n \in pk[Only].start..(pk[Only].next - 1)
                     \/ \E i \in DOMAIN Pipeline(Only) : Pipeline(Only)[i] = DelSeg(n)
  BY DEF Held, Alone, NoForgottenSegment
<1>1. /\ Feed.live /\ Feed.gen = pk[Only].gen /\ Feed.next = pk[Only].next
      /\ pk[Only].start = Promised!First(Feed.next)
  BY TendedLive
<1>2. \/ dir.seg[n] = Feed.gen /\ n \in Promised!First(Feed.next)..(Feed.next - 1)
      \/ \E i \in DOMAIN Pipeline(Only) : Pipeline(Only)[i] = Promised!DelSeg(n)
  BY <1>1, HeldFollows DEF Promised!FilesKept
<1>. QED BY <1>1, <1>2 DEF Promised!DelSeg, DelSeg

\* index.mpd lists only segments of the generation of the init.mp4 on disk, or
\* missing ones (architecture.md:67), unless the directory is being wiped or a
\* file operation has failed since it was.
THEOREM OneGenerationHolds == Packager = {Only} /\ Spec => []OneGeneration
BY HeldAlways, HeldOne, PTL

\* While a listed segment is missing, the writer still has an index.mpd to
\* write, delete or wipe.
THEOREM GapsAreTransient == Packager = {Only} /\ Spec => []GapIsTransient
BY HeldAlways, HeldGap, PTL

\* Every segment file is in the window, or its deletion is on its way: pruning
\* and rotation forget none.
THEOREM NoSegmentForgotten == Packager = {Only} /\ Spec => []NoForgottenSegment
BY HeldAlways, HeldSegments, PTL

-----------------------------------------------------------------------------
\* The Period@ids grow, but where a packager has been opened in between; the
\* last one is the packager's.
Newer(t, g, h) == t[g].id < t[h].id \/ \E x \in (g + 1)..h : t[x].opens
Dated ==
    /\ \A g, h \in 1..Len(periods) : g < h => Newer(periods, g, h)
    /\ pk[Only].phase \in Numbering => periods[Len(periods)].id = pk[Only].period

LEMMA InitDated == Packager = {Only} /\ Init => Dated
<1>. SUFFICES ASSUME Packager = {Only}, Init PROVE Dated OBVIOUS
<1>1. periods = <<>> /\ Len(periods) = 0 BY DEF Init
<1>2. Only \in Packager OBVIOUS
<1>3. pk[Only].phase = "gone" BY <1>2 DEF Init, Closed
<1>. QED BY <1>1, <1>3 DEF Dated, Numbering

\* The next Period@id is later.
LEMMA PeriodLater ==
    ASSUME NEW x \in Nat, now \in 1..MaxClock
    PROVE  NextPeriod(x) \in Nat /\ NextPeriod(x) > x
BY PackagerAssumption DEF NextPeriod

LEMMA PeriodIds ==
    ASSUME Types
    PROVE  \A i \in 1..Len(periods) : periods[i].id \in Nat
<1>1. \A e \in Rows : e.id \in Nat BY DEF Rows
<1>2. periods \in Seq(Rows) BY DEF Types
<1>3. \A i \in 1..Len(periods) : periods[i] \in Rows BY <1>2, ElementOf
<1>. QED BY <1>1, <1>3

LEMMA DatedStep ==
    ASSUME Types, Types', Inv, Alone, Alone', Dating, Dated
    PROVE  Dated'
<1>. DEFINE n == Len(periods)
            q == pk'[Only]
<1>1. /\ pk[Only] \in Recs /\ n \in Nat /\ Owns(pk[Only]) /\ now \in 1..MaxClock
      /\ pk[Only].period \in Nat
  BY OnlyFacts, RecFields DEF Alone, Types
<1>2. CASE periods' = periods
  <2>1. q.phase \in Numbering => pk[Only].phase \in Numbering /\ q.period = pk[Only].period
    <3>1. q.gen = Len(periods) + 1 => q.phase \notin Numbering BY <1>1, <1>2 DEF Alone, Owns
    <3>. QED BY <3>1 DEF Dating
  <2>. QED BY <1>2, <2>1 DEF Dated
<1>3. CASE periods' # periods
  <2>1. PICK o \in BOOLEAN :
           /\ Len(periods') = n + 1 /\ periods'[n + 1].id = q.period /\ periods'[n + 1].opens = o
           /\ \A i \in 1..n : periods'[i] = periods[i]
           /\ o \/ (pk[Only].phase \in Numbering /\ q.period = NextPeriod(pk[Only].period))
    BY <1>3, DatingRows
  <2>2. ASSUME NEW g \in 1..(n + 1), NEW h \in 1..(n + 1), g < h
        PROVE  Newer(periods', g, h)
    <3>1. g \in 1..n BY <1>1, <2>2
    <3>2. CASE h = n + 1 /\ o
      <4>1. h \in (g + 1)..h BY <2>2
      <4>. QED BY <2>1, <3>2, <4>1 DEF Newer
    <3>3. CASE h = n + 1 /\ ~o
      <4>1. pk[Only].phase \in Numbering /\ q.period = NextPeriod(pk[Only].period) BY <2>1, <3>3
      <4>2. n \in 1..n /\ periods[n].id = pk[Only].period BY <1>1, <3>1, <4>1 DEF Dated
      <4>3. periods[n].id \in Nat /\ q.period \in Nat /\ periods[n].id < q.period
        BY <1>1, <4>1, <4>2, PeriodLater
      <4>4. CASE g = n BY <2>1, <3>3, <4>2, <4>3, <4>4 DEF Newer
      <4>5. CASE g # n
        <5>1. Newer(periods, g, n) BY <1>1, <3>1, <4>2, <4>5 DEF Dated
        <5>2. periods[g].id \in Nat BY <3>1, PeriodIds
        <5>3. CASE periods[g].id < periods[n].id
          <6>1. periods[g].id < q.period BY <4>3, <5>2, <5>3
          <6>. QED BY <2>1, <3>1, <3>3, <6>1 DEF Newer
        <5>4. CASE \E x \in (g + 1)..n : periods[x].opens
          <6>1. PICK x \in (g + 1)..n : periods[x].opens BY <5>4
          <6>2. x \in 1..n /\ x \in (g + 1)..h BY <1>1, <3>1, <3>3, <6>1
          <6>. QED BY <2>1, <6>1, <6>2 DEF Newer
        <5>. QED BY <5>1, <5>3, <5>4 DEF Newer
      <4>. QED BY <4>4, <4>5
    <3>4. CASE h # n + 1
      <4>1. h \in 1..n BY <1>1, <3>4
      <4>2. Newer(periods, g, h) BY <2>2, <3>1, <4>1 DEF Dated
      <4>3. \A x \in (g + 1)..h : x \in 1..n BY <1>1, <3>1, <4>1
      <4>. QED BY <2>1, <3>1, <4>1, <4>2, <4>3 DEF Newer
    <3>. QED BY <3>2, <3>3, <3>4
  <2>3. periods'[Len(periods')].id = q.period BY <2>1
  <2>. QED BY <2>1, <2>2, <2>3 DEF Dated
<1>. QED BY <1>2, <1>3

\* A manifest that takes the place of another is not older, nor is its period.
Advance ==
    dir.mpd # NoMpd /\ dir'.mpd # NoMpd =>
        \/ /\ dir'.mpd.gen > dir.mpd.gen
           /\ \/ periods[dir'.mpd.gen].id > periods[dir.mpd.gen].id
              \/ \E g \in (dir.mpd.gen + 1)..dir'.mpd.gen : periods[g].opens
        \/ /\ dir'.mpd.gen = dir.mpd.gen
           /\ Head(dir'.mpd.segs) >= Head(dir.mpd.segs)
           /\ dir'.mpd.segs[Len(dir'.mpd.segs)] >= dir.mpd.segs[Len(dir.mpd.segs)]

LEMMA AdvanceStep ==
    ASSUME Held, Dated, [Next]_vars
    PROVE  Advance
<1>. SUFFICES ASSUME dir.mpd # NoMpd, dir'.mpd # NoMpd PROVE Advance BY DEF Advance
<1>1. [Promised!FilesNext]_(Promised!fileVars) /\ Promised!Names(dir', Pipeline(Only)', 1..Latest)
  BY HeldFine
<1>2. Promised!Follows(dir'.mpd, dir.mpd)
  BY <1>1, SameNoMpd, PromisedAssumption, Promised!OrderedStep DEF Held, Promised!FilesInv
<1>3. Latest \in Nat /\ Len(periods) \in Nat /\ Latest <= Len(periods) BY LatestFacts DEF Held
<1>4. dir.mpd.gen \in 1..Latest /\ dir'.mpd.gen \in 1..Latest
  BY <1>1, SameNoMpd DEF Held, Promised!Names
<1>5. dir.mpd.gen \in 1..Len(periods) /\ dir'.mpd.gen \in 1..Len(periods) BY <1>3, <1>4
<1>6. CASE dir'.mpd.gen > dir.mpd.gen
  <2>1. Newer(periods, dir.mpd.gen, dir'.mpd.gen) BY <1>5, <1>6 DEF Dated
  <2>2. periods[dir.mpd.gen].id \in Nat /\ periods[dir'.mpd.gen].id \in Nat
    BY <1>5, PeriodIds DEF Held
  <2>. QED BY <1>6, <2>1, <2>2 DEF Newer, Advance
<1>7. CASE ~(dir'.mpd.gen > dir.mpd.gen)
  BY <1>2, <1>7 DEF Promised!Follows, Promised!Oldest, Promised!Newest, Advance
<1>. QED BY <1>6, <1>7

\* Viewers never see time run backwards, even if file operations fail: not
\* within a generation, nor from the Period@id of one to that of another, but
\* where a packager has been opened in between whose wipe has left the manifest.
THEOREM ManifestsAdvance == Packager = {Only} /\ Spec => ManifestAdvances
<1>1. Packager = {Only} /\ Init => Held /\ Dated BY InitHeld, InitDated
<1>2. Held /\ Dated /\ [Next]_vars => (Held /\ Dated)'
  <2>1. Held /\ Dated /\ [Next]_vars => Dated'
    BY HeldFine, HeldStep, DatedStep DEF Fine, Held
  <2>. QED BY <2>1, HeldStep
<1>3. Held /\ Dated /\ [Next]_vars => [Advance]_vars BY AdvanceStep
<1>4. Packager = {Only} /\ Spec => [][Advance]_vars BY <1>1, <1>2, <1>3, PTL DEF Spec
<1>. QED BY <1>4 DEF ManifestAdvances, Advance
====
