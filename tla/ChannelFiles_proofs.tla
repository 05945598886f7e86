---- MODULE ChannelFiles_proofs ----
(***************************************************************************)
(* What follows from ChannelFiles for any window, lag and batch, checked   *)
(* with the TLA+ proof system: the manifest of a channel lists whole       *)
(* segments of one generation, no file is forgotten, and manifests only    *)
(* move on.  DashPackager_proofs carries these results over to the         *)
(* packager.                                                               *)
(***************************************************************************)
EXTENDS ChannelFiles, TLAPS

JobType ==
    {InitJob(g) : g \in 1..MaxGen} \cup {SegJob(g, n) : g \in 1..MaxGen, n \in 1..MaxSeg}
    \cup {MpdJob(g, s) : g \in 1..MaxGen, s \in Seq(1..MaxSeg)}
    \cup {DelSeg(n) : n \in 1..MaxSeg} \cup {DelMpd}
DirType == [init : 0..MaxGen, mpd : [gen : 0..MaxGen, segs : Seq(1..MaxSeg)],
            seg : [1..MaxSeg -> 0..MaxGen], lost : BOOLEAN]
FeedType == [live : BOOLEAN, gen : 0..MaxGen, ready : BOOLEAN, next : 1..(MaxSeg + 1)]

FilesTypeOK ==
    /\ dir \in DirType /\ jobs \in Seq(JobType) /\ feed \in FeedType
    /\ feed.live => feed.gen # 0
    /\ ~feed.ready => feed.next = 1

-----------------------------------------------------------------------------
\* A directory whose manifest lists segments of its init.mp4's generation,
\* and one in which a listed segment is missing.
Whole(d) ==
    d.mpd # NoMpd =>
        /\ d.init = d.mpd.gen
        /\ \A i \in DOMAIN d.mpd.segs : d.seg[d.mpd.segs[i]] \in {0, d.mpd.gen}
Hole(d) == \E i \in DOMAIN d.mpd.segs : d.seg[d.mpd.segs[i]] = 0

\* The directories that the jobs J will go through are the sequence st.
Future(st, J) ==
    /\ st \in [0..Len(J) -> DirType]
    /\ \A i \in 1..Len(J) : st[i] = After(st[i - 1], J[i])

OfManifest(job) == job.kind \in {"mpd", "del_mpd"}
Later(J, i) == \E j \in (i + 1)..Len(J) : OfManifest(J[j])

Deleted(J, i, n) == \E j \in (i + 1)..Len(J) : J[j] = DelSeg(n)

\* The directory x, which i jobs of J have made: a hole in it is mended later,
\* and each segment file is still there at the end, in y, or deleted later.
Cared(x, J, i, y) ==
    /\ Hole(x) => Later(J, i)
    /\ \A n \in 1..MaxSeg : x.seg[n] \in {0, y.seg[n]} \/ Deleted(J, i, n)

\* From d, the jobs J lead to e by whole directories that are cared for.
Leads(d, J, e) ==
    \E st : /\ Future(st, J) /\ st[0] = d /\ st[Len(J)] = e
            /\ \A i \in 0..Len(J) : Whole(st[i]) /\ Cared(st[i], J, i, e)

\* Every directory the jobs J make of d is whole.
Safe(d, J) == \E st : Future(st, J) /\ st[0] = d /\ \A i \in 0..Len(J) : Whole(st[i])

\* The directory once the packager's jobs are done.
Finished(d, f) ==
    /\ f.ready => d.init = f.gen
    /\ d.mpd = IF f.next = 1 THEN NoMpd ELSE [gen |-> f.gen, segs |-> Window(f.next)]
    /\ \A n \in 1..MaxSeg : d.seg[n] = IF n \in First(f.next)..(f.next - 1) THEN f.gen ELSE 0

Heads ==
    ~dir.lost => /\ Safe(dir, jobs)
                 /\ feed.live => \E e \in DirType : Leads(dir, jobs, e) /\ Finished(e, feed)

-----------------------------------------------------------------------------
\* Jobs and directories.
Dir(i, m, s, l) == [init |-> i, mpd |-> m, seg |-> s, lost |-> l]

LEMMA AfterEach ==
    ASSUME NEW d \in DirType
    PROVE  /\ \A g \in 1..MaxGen : After(d, InitJob(g)) = Dir(g, d.mpd, d.seg, d.lost)
           /\ \A g \in 1..MaxGen, n \in 1..MaxSeg :
                 After(d, SegJob(g, n)) = Dir(d.init, d.mpd, [d.seg EXCEPT ![n] = g], d.lost)
           /\ \A g \in 1..MaxGen, s \in Seq(1..MaxSeg) :
                 After(d, MpdJob(g, s)) = Dir(d.init, [gen |-> g, segs |-> s], d.seg, d.lost)
           /\ \A n \in 1..MaxSeg :
                 After(d, DelSeg(n)) = Dir(d.init, d.mpd, [d.seg EXCEPT ![n] = 0], d.lost)
           /\ After(d, DelMpd) = Dir(d.init, NoMpd, d.seg, d.lost)
<1>. USE DEF Dir, After, DirType
<1>1. ASSUME NEW g \in 1..MaxGen PROVE After(d, InitJob(g)) = Dir(g, d.mpd, d.seg, d.lost)
  BY DEF InitJob
<1>2. ASSUME NEW g \in 1..MaxGen, NEW n \in 1..MaxSeg
      PROVE  After(d, SegJob(g, n)) = Dir(d.init, d.mpd, [d.seg EXCEPT ![n] = g], d.lost)
  BY DEF SegJob
<1>3. ASSUME NEW g \in 1..MaxGen, NEW s \in Seq(1..MaxSeg)
      PROVE  After(d, MpdJob(g, s)) = Dir(d.init, [gen |-> g, segs |-> s], d.seg, d.lost)
  BY DEF MpdJob
<1>4. ASSUME NEW n \in 1..MaxSeg
      PROVE  After(d, DelSeg(n)) = Dir(d.init, d.mpd, [d.seg EXCEPT ![n] = 0], d.lost)
  BY DEF DelSeg
<1>5. After(d, DelMpd) = Dir(d.init, NoMpd, d.seg, d.lost) BY DEF DelMpd
<1>. QED BY <1>1, <1>2, <1>3, <1>4, <1>5

LEMMA AfterTyped ==
    ASSUME NEW d \in DirType, NEW job \in JobType
    PROVE  After(d, job) \in DirType /\ After(d, job).lost = d.lost
<1>1. NoMpd \in [gen : 0..MaxGen, segs : Seq(1..MaxSeg)] BY FilesAssumption DEF NoMpd
<1>2. /\ d.init \in 0..MaxGen /\ d.mpd \in [gen : 0..MaxGen, segs : Seq(1..MaxSeg)]
      /\ d.seg \in [1..MaxSeg -> 0..MaxGen] /\ d.lost \in BOOLEAN
  BY DEF DirType
<1>3. ASSUME NEW i \in 0..MaxGen, NEW m \in [gen : 0..MaxGen, segs : Seq(1..MaxSeg)],
             NEW s \in [1..MaxSeg -> 0..MaxGen]
      PROVE  Dir(i, m, s, d.lost) \in DirType /\ Dir(i, m, s, d.lost).lost = d.lost
  BY <1>2 DEF Dir, DirType
<1>4. CASE \E g \in 1..MaxGen : job = InitJob(g) BY <1>2, <1>3, <1>4, AfterEach
<1>5. CASE \E g \in 1..MaxGen, n \in 1..MaxSeg : job = SegJob(g, n)
  <2>1. PICK g \in 1..MaxGen, n \in 1..MaxSeg : job = SegJob(g, n) BY <1>5
  <2>. DEFINE s == [d.seg EXCEPT ![n] = g]
  <2>2. s \in [1..MaxSeg -> 0..MaxGen] BY <1>2
  <2>3. After(d, job) = Dir(d.init, d.mpd, s, d.lost) BY <2>1, AfterEach
  <2>. HIDE DEF s
  <2>. QED BY <1>2, <1>3, <2>2, <2>3
<1>6. CASE \E g \in 1..MaxGen, s \in Seq(1..MaxSeg) : job = MpdJob(g, s)
  <2>1. PICK g \in 1..MaxGen, s \in Seq(1..MaxSeg) : job = MpdJob(g, s) BY <1>6
  <2>2. [gen |-> g, segs |-> s] \in [gen : 0..MaxGen, segs : Seq(1..MaxSeg)] OBVIOUS
  <2>3. After(d, job) = Dir(d.init, [gen |-> g, segs |-> s], d.seg, d.lost) BY <2>1, AfterEach
  <2>. QED BY <1>2, <1>3, <2>2, <2>3
<1>7. CASE \E n \in 1..MaxSeg : job = DelSeg(n)
  <2>1. PICK n \in 1..MaxSeg : job = DelSeg(n) BY <1>7
  <2>. DEFINE s == [d.seg EXCEPT ![n] = 0]
  <2>2. s \in [1..MaxSeg -> 0..MaxGen] BY <1>2, FilesAssumption
  <2>3. After(d, job) = Dir(d.init, d.mpd, s, d.lost) BY <2>1, AfterEach
  <2>. HIDE DEF s
  <2>. QED BY <1>2, <1>3, <2>2, <2>3
<1>8. CASE job = DelMpd BY <1>1, <1>2, <1>3, <1>8, AfterEach
<1>. QED BY <1>4, <1>5, <1>6, <1>7, <1>8 DEF JobType

LEMMA Sequenced ==
    ASSUME NEW m \in Nat, NEW S, NEW s \in [1..m -> S]
    PROVE  s \in Seq(S) /\ Len(s) = m
OBVIOUS

LEMMA ElementOf ==
    ASSUME NEW S, NEW s \in Seq(S)
    PROVE  Len(s) \in Nat /\ DOMAIN s = 1..Len(s) /\ \A i \in DOMAIN s : s[i] \in S
OBVIOUS

LEMMA WindowFacts ==
    ASSUME NEW n \in 1..(MaxSeg + 1)
    PROVE  /\ Keep \in Nat \ {0} /\ First(n) \in 1..n /\ (n > 1 => First(n) < n)
           /\ Window(n) \in Seq(1..MaxSeg) /\ Len(Window(n)) = n - First(n)
           /\ \A i \in 1..(n - First(n)) : Window(n)[i] = First(n) + i - 1
           /\ \A m \in n..(MaxSeg + 1) : First(n) <= First(m)
<1>1. Keep \in Nat \ {0} BY DirectoryAssumption DEF Keep, Grace
<1>2. First(n) \in 1..n /\ (n > 1 => First(n) < n) BY <1>1 DEF First
<1>3. \A m \in n..(MaxSeg + 1) : First(n) <= First(m) BY <1>1 DEF First
<1>4. \A i \in 1..(n - First(n)) : First(n) + i - 1 \in 1..MaxSeg
  BY <1>2, DirectoryAssumption
<1>5. Window(n) \in [1..(n - First(n)) -> 1..MaxSeg] BY <1>4 DEF Window
<1>6. n - First(n) \in Nat BY <1>2
<1>7. Window(n) \in Seq(1..MaxSeg) /\ Len(Window(n)) = n - First(n)
  <2>1. PICK m \in Nat : m = n - First(n) BY <1>6
  <2>2. PICK a \in Nat : a = First(n) BY <1>2
  <2>3. Window(n) = [i \in 1..m |-> a + i - 1] BY <2>1, <2>2 DEF Window
  <2>4. \A i \in 1..m : a + i - 1 \in 1..MaxSeg BY <1>4, <2>1, <2>2
  <2>5. Window(n) \in [1..m -> 1..MaxSeg] BY <2>3, <2>4
  <2>6. Window(n) \in Seq(1..MaxSeg) /\ Len(Window(n)) = m BY <2>5, Sequenced
  <2>. QED BY <2>1, <2>6
<1>. QED BY <1>1, <1>2, <1>3, <1>7 DEF Window

-----------------------------------------------------------------------------
\* Futures: the next job of one, one cut short, two joined.
LEMMA LeadsOn ==
    ASSUME NEW d, NEW J \in Seq(JobType), NEW e, Leads(d, J, e), J # <<>>
    PROVE  Leads(After(d, Head(J)), Tail(J), e)
<1>1. PICK st : /\ Future(st, J) /\ st[0] = d /\ st[Len(J)] = e
                /\ \A i \in 0..Len(J) : Whole(st[i]) /\ Cared(st[i], J, i, e)
  BY DEF Leads
<1>. DEFINE K == Tail(J)
            on == [i \in 0..Len(K) |-> st[i + 1]]
<1>2. /\ Len(K) \in Nat /\ Len(J) = Len(K) + 1 /\ Head(J) = J[1]
      /\ \A i \in 1..Len(K) : K[i] = J[i + 1]
  OBVIOUS
<1>. HIDE DEF K
<1>3. Future(on, K)
  <2>1. \A i \in 0..Len(K) : i + 1 \in 0..Len(J) BY <1>2
  <2>2. on \in [0..Len(K) -> DirType] BY <1>1, <2>1 DEF Future
  <2>3. ASSUME NEW i \in 1..Len(K) PROVE on[i] = After(on[i - 1], K[i])
    <3>1. i + 1 \in 1..Len(J) /\ (i - 1) + 1 = (i + 1) - 1 /\ K[i] = J[i + 1] BY <1>2
    <3>2. i \in 0..Len(K) /\ i - 1 \in 0..Len(K) BY <1>2
    <3>3. on[i] = st[i + 1] /\ on[i - 1] = st[(i + 1) - 1] BY <3>1, <3>2
    <3>. QED BY <1>1, <3>1, <3>3 DEF Future
  <2>. QED BY <2>2, <2>3 DEF Future
<1>4. on[0] = After(d, Head(J)) /\ on[Len(K)] = e BY <1>1, <1>2 DEF Future
<1>5. ASSUME NEW i \in 0..Len(K) PROVE Whole(on[i]) /\ Cared(on[i], K, i, e)
  <2>1. Whole(st[i + 1]) /\ Cared(st[i + 1], J, i + 1, e) BY <1>1, <1>2
  <2>2. ASSUME Later(J, i + 1) PROVE Later(K, i)
    <3>1. PICK j \in (i + 2)..Len(J) : OfManifest(J[j]) BY <2>2 DEF Later
    <3>2. j - 1 \in (i + 1)..Len(K) /\ K[j - 1] = J[j] BY <1>2, <3>1
    <3>. QED BY <3>1, <3>2 DEF Later
  <2>3. ASSUME NEW n \in 1..MaxSeg, Deleted(J, i + 1, n) PROVE Deleted(K, i, n)
    <3>1. PICK j \in (i + 2)..Len(J) : J[j] = DelSeg(n) BY <2>3 DEF Deleted
    <3>2. j - 1 \in (i + 1)..Len(K) /\ K[j - 1] = J[j] BY <1>2, <3>1
    <3>. QED BY <3>1, <3>2 DEF Deleted
  <2>4. on[i] = st[i + 1] OBVIOUS
  <2>. HIDE DEF on
  <2>. QED BY <2>1, <2>2, <2>3, <2>4 DEF Cared
<1>. HIDE DEF on
<1>. QED BY <1>3, <1>4, <1>5 DEF Leads, K

LEMMA SafeOn ==
    ASSUME NEW d, NEW J \in Seq(JobType), Safe(d, J), J # <<>>
    PROVE  Safe(After(d, Head(J)), Tail(J))
<1>1. PICK st : Future(st, J) /\ st[0] = d /\ \A i \in 0..Len(J) : Whole(st[i])
  BY DEF Safe
<1>. DEFINE K == Tail(J)
            on == [i \in 0..Len(K) |-> st[i + 1]]
<1>2. /\ Len(K) \in Nat /\ Len(J) = Len(K) + 1 /\ Head(J) = J[1]
      /\ \A i \in 1..Len(K) : K[i] = J[i + 1]
  OBVIOUS
<1>. HIDE DEF K
<1>3. Future(on, K)
  <2>1. \A i \in 0..Len(K) : i + 1 \in 0..Len(J) BY <1>2
  <2>2. on \in [0..Len(K) -> DirType] BY <1>1, <2>1 DEF Future
  <2>3. ASSUME NEW i \in 1..Len(K) PROVE on[i] = After(on[i - 1], K[i])
    <3>1. i + 1 \in 1..Len(J) /\ (i - 1) + 1 = (i + 1) - 1 /\ K[i] = J[i + 1] BY <1>2
    <3>2. i \in 0..Len(K) /\ i - 1 \in 0..Len(K) BY <1>2
    <3>3. on[i] = st[i + 1] /\ on[i - 1] = st[(i + 1) - 1] BY <3>1, <3>2
    <3>. QED BY <1>1, <3>1, <3>3 DEF Future
  <2>. QED BY <2>2, <2>3 DEF Future
<1>4. on[0] = After(d, Head(J)) BY <1>1, <1>2 DEF Future
<1>5. \A i \in 0..Len(K) : Whole(on[i]) BY <1>1, <1>2
<1>. HIDE DEF on
<1>. QED BY <1>3, <1>4, <1>5 DEF Safe, K

LEMMA SafeCut ==
    ASSUME NEW d, NEW J \in Seq(JobType), Safe(d, J), NEW k \in 0..Len(J)
    PROVE  Safe(d, SubSeq(J, 1, k))
<1>1. PICK st : Future(st, J) /\ st[0] = d /\ \A i \in 0..Len(J) : Whole(st[i])
  BY DEF Safe
<1>. DEFINE K == SubSeq(J, 1, k)
            cut == [i \in 0..k |-> st[i]]
<1>2. Len(K) = k /\ \A i \in 1..k : K[i] = J[i] OBVIOUS
<1>. HIDE DEF K
<1>4. k \in Nat /\ \A i \in 0..k : i \in 0..Len(J) BY ElementOf
<1>5. \A i \in 1..k : /\ i \in 1..Len(J) /\ i \in 0..k /\ i - 1 \in 0..k
                      /\ cut[i] = st[i] /\ cut[i - 1] = st[i - 1]
  BY <1>4
<1>6. cut \in [0..k -> DirType] BY <1>1, <1>4 DEF Future
<1>7. cut[0] = d /\ \A i \in 0..k : Whole(cut[i]) BY <1>1, <1>4
<1>. HIDE DEF cut
<1>3. Future(cut, K) BY <1>1, <1>2, <1>5, <1>6 DEF Future
<1>. QED BY <1>2, <1>3, <1>7 DEF Safe, K

LEMMA LeadsSafe ==
    ASSUME NEW d, NEW J \in Seq(JobType), NEW e, Leads(d, J, e)
    PROVE  Safe(d, J)
BY DEF Leads, Safe

LEMMA LeadsJoin ==
    ASSUME NEW d, NEW e, NEW f, NEW J \in Seq(JobType), NEW K \in Seq(JobType),
           Leads(d, J, e), Leads(e, K, f)
    PROVE  Leads(d, J \o K, f)
<1>1. PICK s : /\ Future(s, J) /\ s[0] = d /\ s[Len(J)] = e
               /\ \A i \in 0..Len(J) : Whole(s[i]) /\ Cared(s[i], J, i, e)
  BY DEF Leads
<1>2. PICK t : /\ Future(t, K) /\ t[0] = e /\ t[Len(K)] = f
               /\ \A i \in 0..Len(K) : Whole(t[i]) /\ Cared(t[i], K, i, f)
  BY DEF Leads
<1>. DEFINE L == J \o K
            m == Len(J)
            st == [i \in 0..Len(L) |-> IF i <= m THEN s[i] ELSE t[i - m]]
<1>3. /\ m \in Nat /\ Len(K) \in Nat /\ Len(L) = m + Len(K)
      /\ \A i \in 1..m : L[i] = J[i]
      /\ \A i \in 1..Len(K) : L[m + i] = K[i]
  OBVIOUS
<1>. HIDE DEF L, m
<1>4. /\ \A i \in 0..m : st[i] = s[i]
      /\ \A i \in 0..Len(K) : st[m + i] = t[i]
  <2>1. s[m] = t[0] BY <1>1, <1>2 DEF m
  <2>. QED BY <1>3, <2>1
<1>5. st \in [0..Len(L) -> DirType] BY <1>1, <1>2, <1>3 DEF Future, m
<1>. HIDE DEF st
<1>6. ASSUME NEW i \in 1..Len(L) PROVE st[i] = After(st[i - 1], L[i])
  <2>1. CASE i <= m
    <3>1. i \in 1..m /\ i \in 0..m /\ i - 1 \in 0..m BY <1>3, <2>1
    <3>. QED BY <1>1, <1>3, <1>4, <3>1 DEF Future, m
  <2>2. CASE i > m
    <3>1. PICK j \in 1..Len(K) : i = m + j
      <4>1. i - m \in 1..Len(K) /\ i = m + (i - m) BY <1>3, <2>2
      <4>. QED BY <4>1
    <3>2. st[i] = t[j] /\ L[i] = K[j] BY <1>3, <1>4, <3>1
    <3>3. j - 1 \in 0..Len(K) /\ i - 1 = m + (j - 1) BY <1>3, <3>1
    <3>4. st[i - 1] = t[j - 1] BY <1>4, <3>3
    <3>. QED BY <1>2, <3>2, <3>4 DEF Future
  <2>. QED BY <1>3, <2>1, <2>2
<1>7. ASSUME NEW i \in 0..Len(L) PROVE Whole(st[i]) /\ Cared(st[i], L, i, f)
  <2>1. CASE i <= m
    <3>1. st[i] = s[i] /\ i \in 0..m BY <1>3, <1>4, <2>1
    <3>2. ASSUME Later(J, i) PROVE Later(L, i)
      <4>1. PICK j \in (i + 1)..Len(J) : OfManifest(J[j]) BY <3>2 DEF Later
      <4>2. j \in (i + 1)..Len(L) /\ L[j] = J[j] BY <1>3, <3>1, <4>1 DEF m
      <4>. QED BY <4>1, <4>2 DEF Later
    <3>3. ASSUME NEW n \in 1..MaxSeg, Deleted(J, i, n) PROVE Deleted(L, i, n)
      <4>1. PICK j \in (i + 1)..Len(J) : J[j] = DelSeg(n) BY <3>3 DEF Deleted
      <4>2. j \in (i + 1)..Len(L) /\ L[j] = J[j] BY <1>3, <3>1, <4>1 DEF m
      <4>. QED BY <4>1, <4>2 DEF Deleted
    <3>4. ASSUME NEW n \in 1..MaxSeg, Deleted(K, 0, n) PROVE Deleted(L, i, n)
      <4>1. PICK j \in 1..Len(K) : K[j] = DelSeg(n) BY <3>4 DEF Deleted
      <4>2. m + j \in (i + 1)..Len(L) /\ L[m + j] = K[j] BY <1>3, <3>1, <4>1
      <4>. QED BY <4>1, <4>2 DEF Deleted
    <3>5. Whole(s[i]) /\ Cared(s[i], J, i, e) BY <1>1, <3>1 DEF m
    <3>6. Cared(e, K, 0, f) BY <1>2, <1>3
    <3>. QED BY <3>1, <3>2, <3>3, <3>4, <3>5, <3>6 DEF Cared
  <2>2. CASE i > m
    <3>1. PICK j \in 0..Len(K) : i = m + j
      <4>1. i - m \in 0..Len(K) /\ i = m + (i - m) BY <1>3, <2>2
      <4>. QED BY <4>1
    <3>2. st[i] = t[j] BY <1>4, <3>1
    <3>3. ASSUME Later(K, j) PROVE Later(L, i)
      <4>1. PICK h \in (j + 1)..Len(K) : OfManifest(K[h]) BY <3>3 DEF Later
      <4>2. m + h \in (i + 1)..Len(L) /\ L[m + h] = K[h] BY <1>3, <3>1, <4>1
      <4>. QED BY <4>1, <4>2 DEF Later
    <3>4. ASSUME NEW n \in 1..MaxSeg, Deleted(K, j, n) PROVE Deleted(L, i, n)
      <4>1. PICK h \in (j + 1)..Len(K) : K[h] = DelSeg(n) BY <3>4 DEF Deleted
      <4>2. m + h \in (i + 1)..Len(L) /\ L[m + h] = K[h] BY <1>3, <3>1, <4>1
      <4>. QED BY <4>1, <4>2 DEF Deleted
    <3>5. Whole(t[j]) /\ Cared(t[j], K, j, f) BY <1>2
    <3>. QED BY <3>2, <3>3, <3>4, <3>5 DEF Cared
  <2>. QED BY <1>3, <2>1, <2>2
<1>8. st[0] = d /\ st[Len(L)] = f BY <1>1, <1>2, <1>3, <1>4
<1>. QED BY <1>5, <1>6, <1>7, <1>8 DEF Leads, Future, L

-----------------------------------------------------------------------------
\* What the packager's blocks of jobs lead to.
SeqAt(s, n) == {s[i] : i \in 1..n}
Filled(d, g, a, k) ==
    Dir(d.init, d.mpd, [n \in 1..MaxSeg |-> IF n \in a..(a + k - 1) THEN g ELSE d.seg[n]], d.lost)
Cleared(d, S) ==
    Dir(d.init, d.mpd, [n \in 1..MaxSeg |-> IF n \in S THEN 0 ELSE d.seg[n]], d.lost)

LEMMA DirFacts ==
    ASSUME NEW d \in DirType
    PROVE  /\ d.init \in 0..MaxGen /\ d.mpd.gen \in 0..MaxGen /\ d.mpd.segs \in Seq(1..MaxSeg)
           /\ d.mpd \in [gen : 0..MaxGen, segs : Seq(1..MaxSeg)]
           /\ d.seg \in [1..MaxSeg -> 0..MaxGen] /\ d.lost \in BOOLEAN
           /\ d = Dir(d.init, d.mpd, d.seg, d.lost)
           /\ \A i \in DOMAIN d.mpd.segs : d.mpd.segs[i] \in 1..MaxSeg
<1>1. /\ d.init \in 0..MaxGen /\ d.mpd \in [gen : 0..MaxGen, segs : Seq(1..MaxSeg)]
      /\ d.seg \in [1..MaxSeg -> 0..MaxGen] /\ d.lost \in BOOLEAN
  BY DEF DirType
<1>2. d = Dir(d.init, d.mpd, d.seg, d.lost) BY DEF DirType, Dir
<1>3. d.mpd.gen \in 0..MaxGen /\ d.mpd.segs \in Seq(1..MaxSeg) BY <1>1
<1>4. \A i \in DOMAIN d.mpd.segs : d.mpd.segs[i] \in 1..MaxSeg BY <1>3, ElementOf
<1>. QED BY <1>1, <1>2, <1>3, <1>4

LEMMA DirFields ==
    ASSUME NEW i, NEW m, NEW s, NEW l
    PROVE  /\ Dir(i, m, s, l).init = i /\ Dir(i, m, s, l).mpd = m
           /\ Dir(i, m, s, l).seg = s /\ Dir(i, m, s, l).lost = l
           /\ i \in 0..MaxGen /\ m \in [gen : 0..MaxGen, segs : Seq(1..MaxSeg)]
              /\ s \in [1..MaxSeg -> 0..MaxGen] /\ l \in BOOLEAN => Dir(i, m, s, l) \in DirType
<1>1. /\ Dir(i, m, s, l).init = i /\ Dir(i, m, s, l).mpd = m
      /\ Dir(i, m, s, l).seg = s /\ Dir(i, m, s, l).lost = l
  BY DEF Dir
<1>. QED BY <1>1 DEF Dir, DirType

LEMMA FilledFacts ==
    ASSUME NEW d \in DirType, NEW g \in 1..MaxGen, NEW a \in Nat, NEW k \in Nat
    PROVE  /\ Filled(d, g, a, k) \in DirType
           /\ Filled(d, g, a, k).init = d.init /\ Filled(d, g, a, k).mpd = d.mpd
           /\ Filled(d, g, a, k).lost = d.lost
<1>. DEFINE s == [n \in 1..MaxSeg |-> IF n \in a..(a + k - 1) THEN g ELSE d.seg[n]]
<1>1. s \in [1..MaxSeg -> 0..MaxGen]
  <2>1. \A n \in 1..MaxSeg : d.seg[n] \in 0..MaxGen BY DirFacts
  <2>2. g \in 0..MaxGen BY FilesAssumption
  <2>. QED BY <2>1, <2>2
<1>2. \A n \in 1..MaxSeg : s[n] = IF n \in a..(a + k - 1) THEN g ELSE d.seg[n] OBVIOUS
<1>3. Filled(d, g, a, k) = Dir(d.init, d.mpd, s, d.lost) BY DEF Filled
<1>. HIDE DEF s
<1>4. Filled(d, g, a, k) \in DirType
  <2>1. /\ d.init \in 0..MaxGen /\ d.mpd \in [gen : 0..MaxGen, segs : Seq(1..MaxSeg)]
        /\ d.lost \in BOOLEAN
    BY DirFacts
  <2>. QED BY <1>1, <1>3, <2>1, DirFields
<1>5. /\ Filled(d, g, a, k).init = d.init /\ Filled(d, g, a, k).mpd = d.mpd
      /\ Filled(d, g, a, k).lost = d.lost /\ Filled(d, g, a, k).seg = s
  BY <1>3, DirFields
<1>. QED BY <1>2, <1>4, <1>5

LEMMA ClearedFacts ==
    ASSUME NEW d \in DirType, NEW S
    PROVE  /\ Cleared(d, S) \in DirType
           /\ Cleared(d, S).init = d.init /\ Cleared(d, S).mpd = d.mpd
           /\ Cleared(d, S).lost = d.lost
           /\ \A n \in 1..MaxSeg : Cleared(d, S).seg[n] = IF n \in S THEN 0 ELSE d.seg[n]
<1>. DEFINE s == [n \in 1..MaxSeg |-> IF n \in S THEN 0 ELSE d.seg[n]]
<1>1. s \in [1..MaxSeg -> 0..MaxGen]
  <2>1. \A n \in 1..MaxSeg : d.seg[n] \in 0..MaxGen BY DirFacts
  <2>2. 0 \in 0..MaxGen BY FilesAssumption
  <2>. QED BY <2>1, <2>2
<1>2. \A n \in 1..MaxSeg : s[n] = IF n \in S THEN 0 ELSE d.seg[n] OBVIOUS
<1>3. Cleared(d, S) = Dir(d.init, d.mpd, s, d.lost) BY DEF Cleared
<1>. HIDE DEF s
<1>4. Cleared(d, S) \in DirType
  <2>1. /\ d.init \in 0..MaxGen /\ d.mpd \in [gen : 0..MaxGen, segs : Seq(1..MaxSeg)]
        /\ d.lost \in BOOLEAN
    BY DirFacts
  <2>. QED BY <1>1, <1>3, <2>1, DirFields
<1>5. /\ Cleared(d, S).init = d.init /\ Cleared(d, S).mpd = d.mpd
      /\ Cleared(d, S).lost = d.lost /\ Cleared(d, S).seg = s
  BY <1>3, DirFields
<1>. QED BY <1>2, <1>4, <1>5

\* Directories with the same files are the same.
LEMMA SameDir ==
    ASSUME NEW d \in DirType, NEW e \in DirType, d.init = e.init, d.mpd = e.mpd, d.lost = e.lost,
           \A n \in 1..MaxSeg : d.seg[n] = e.seg[n]
    PROVE  d = e
<1>1. d.seg = e.seg
  <2>1. d.seg = [n \in 1..MaxSeg |-> d.seg[n]] /\ e.seg = [n \in 1..MaxSeg |-> e.seg[n]] BY DirFacts
  <2>2. [n \in 1..MaxSeg |-> d.seg[n]] = [n \in 1..MaxSeg |-> e.seg[n]] OBVIOUS
  <2>. QED BY <2>1, <2>2, Zenon
<1>2. d = Dir(d.init, d.mpd, d.seg, d.lost) /\ e = Dir(e.init, e.mpd, e.seg, e.lost) BY DirFacts
<1>. QED BY <1>1, <1>2

LEMMA FilledSegs ==
    ASSUME NEW d \in DirType, NEW g \in 1..MaxGen, NEW a \in Nat, NEW k \in Nat, NEW n \in 1..MaxSeg
    PROVE  Filled(d, g, a, k).seg[n] = IF n \in a..(a + k - 1) THEN g ELSE d.seg[n]
BY DEF Filled, Dir

LEMMA FilledNext ==
    ASSUME NEW d \in DirType, NEW g \in 1..MaxGen, NEW a \in Nat, NEW k \in Nat, NEW n \in 1..MaxSeg
    PROVE  Filled(d, g, a, k + 1).seg[n] = IF n = a + k THEN g ELSE Filled(d, g, a, k).seg[n]
BY DEF Filled, Dir

\* A job that changes one segment.
LEMMA AfterOne ==
    ASSUME NEW d \in DirType, NEW n \in 1..MaxSeg, NEW g \in 0..MaxGen, NEW job \in JobType,
           job = IF g = 0 THEN DelSeg(n) ELSE SegJob(g, n)
    PROVE  /\ After(d, job) \in DirType
           /\ After(d, job).init = d.init /\ After(d, job).mpd = d.mpd /\ After(d, job).lost = d.lost
           /\ \A q \in 1..MaxSeg : After(d, job).seg[q] = IF q = n THEN g ELSE d.seg[q]
<1>1. After(d, job) = Dir(d.init, d.mpd, [d.seg EXCEPT ![n] = g], d.lost)
  <2>1. CASE g = 0 BY <2>1, AfterEach
  <2>2. CASE g # 0
    <3>1. g \in 1..MaxGen BY <2>2, FilesAssumption
    <3>. QED BY <2>2, <3>1, AfterEach
  <2>. QED BY <2>1, <2>2
<1>2. d.seg \in [1..MaxSeg -> 0..MaxGen] BY DirFacts
<1>3. \A q \in 1..MaxSeg : [d.seg EXCEPT ![n] = g][q] = IF q = n THEN g ELSE d.seg[q] BY <1>2
<1>. DEFINE s == [d.seg EXCEPT ![n] = g]
<1>. HIDE DEF s
<1>4. /\ After(d, job).init = d.init /\ After(d, job).mpd = d.mpd
      /\ After(d, job).lost = d.lost /\ After(d, job).seg = s
  BY <1>1, DirFields DEF s
<1>. QED BY <1>3, <1>4, AfterTyped DEF s

LEMMA SegmentsLead ==
    ASSUME NEW d \in DirType, Whole(d), ~Hole(d), NEW g \in 1..MaxGen,
           d.mpd # NoMpd => d.mpd.gen = g,
           NEW a \in Nat, a # 0, NEW k \in Nat, a + k - 1 <= MaxSeg,
           \A n \in 1..MaxSeg : n >= a => d.seg[n] = 0
    PROVE  /\ [i \in 1..k |-> SegJob(g, a + i - 1)] \in Seq(JobType)
           /\ Leads(d, [i \in 1..k |-> SegJob(g, a + i - 1)], Filled(d, g, a, k))
<1>. DEFINE J == [i \in 1..k |-> SegJob(g, a + i - 1)]
            st == [i \in 0..k |-> Filled(d, g, a, i)]
<1>1. a \in Nat /\ \A i \in 1..k : a + i - 1 \in 1..MaxSeg BY DirectoryAssumption
<1>2. J \in [1..k -> JobType] BY <1>1 DEF JobType
<1>3. J \in Seq(JobType) /\ Len(J) = k BY <1>2, Sequenced
<1>4. \A i \in 1..k : J[i] = SegJob(g, a + i - 1) OBVIOUS
<1>. HIDE DEF J
<1>5. st \in [0..k -> DirType] BY FilledFacts
<1>6. \A i \in 0..k : st[i] = Filled(d, g, a, i) OBVIOUS
<1>. HIDE DEF st
<1>7. ASSUME NEW i \in Nat, i \in 1..k PROVE st[i] = After(st[i - 1], J[i])
  <2>1. PICK h \in Nat : i = h + 1 /\ h = i - 1
    <3>1. i - 1 \in Nat /\ i = (i - 1) + 1 BY <1>7
    <3>. QED BY <3>1
  <2>2. h \in 0..k /\ i \in 0..k /\ a + h \in 1..MaxSeg BY <1>7, <2>1, DirectoryAssumption
  <2>. DEFINE b == Filled(d, g, a, h)
              e == Filled(d, g, a, i)
              job == SegJob(g, a + h)
  <2>3. b \in DirType /\ e \in DirType /\ b.mpd = e.mpd /\ b.init = e.init /\ b.lost = e.lost
    BY FilledFacts
  <2>4. \A n \in 1..MaxSeg : e.seg[n] = IF n = a + h THEN g ELSE b.seg[n]
    BY <2>1, FilledNext
  <2>5. J[i] = job /\ job \in JobType
    <3>1. a + i - 1 = a + h BY <2>1
    <3>. QED BY <3>1, <1>4, <1>7, <2>2 DEF JobType
  <2>6. st[i] = e /\ st[i - 1] = b BY <1>6, <2>1, <2>2
  <2>7. g \in 0..MaxGen /\ g # 0 BY FilesAssumption
  <2>. HIDE DEF b, e
  <2>8. /\ After(b, job) \in DirType
        /\ After(b, job).init = b.init /\ After(b, job).mpd = b.mpd /\ After(b, job).lost = b.lost
        /\ \A q \in 1..MaxSeg : After(b, job).seg[q] = IF q = a + h THEN g ELSE b.seg[q]
    BY <2>2, <2>3, <2>5, <2>7, AfterOne
  <2>. HIDE DEF job
  <2>9. After(b, job) = e BY <2>3, <2>4, <2>8, SameDir
  <2>. QED BY <2>5, <2>6, <2>9
<1>8. ASSUME NEW i \in Nat, i \in 0..k PROVE Whole(st[i]) /\ ~Hole(st[i])
  <2>1. st[i] = Filled(d, g, a, i) BY <1>6, <1>8
  <2>2. \A n \in 1..MaxSeg : Filled(d, g, a, i).seg[n] \in {g, d.seg[n]} BY FilledSegs
  <2>3. Filled(d, g, a, i).init = d.init /\ Filled(d, g, a, i).mpd = d.mpd BY <2>1, FilledFacts
  <2>4. \A j \in DOMAIN d.mpd.segs : d.mpd.segs[j] \in 1..MaxSeg BY DirFacts
  <2>5. CASE d.mpd = NoMpd
    <3>1. DOMAIN d.mpd.segs = {} BY <2>5 DEF NoMpd
    <3>. QED BY <2>1, <2>3, <2>5, <3>1 DEF Whole, Hole
  <2>6. CASE d.mpd # NoMpd
    <3>1. d.mpd.gen = g /\ g # 0 BY <2>6
    <3>. QED BY <2>1, <2>2, <2>3, <2>4, <2>6, <3>1 DEF Whole, Hole
  <2>. QED BY <2>5, <2>6
<1>9. st[0] = d
  <2>1. Filled(d, g, a, 0) \in DirType /\ \A n \in 1..MaxSeg : Filled(d, g, a, 0).seg[n] = d.seg[n]
    BY <1>1, FilledFacts, FilledSegs
  <2>2. st[0] = Filled(d, g, a, 0) BY <1>6
  <2>3. /\ Filled(d, g, a, 0).init = d.init /\ Filled(d, g, a, 0).mpd = d.mpd
        /\ Filled(d, g, a, 0).lost = d.lost
    BY <1>1, FilledFacts
  <2>. QED BY <2>1, <2>2, <2>3, SameDir
<1>10. st[k] = Filled(d, g, a, k) BY <1>6
<1>11. ASSUME NEW i \in Nat, i \in 0..k PROVE Cared(st[i], J, i, st[k])
  <2>1. ASSUME NEW n \in 1..MaxSeg PROVE st[i].seg[n] \in {0, st[k].seg[n]}
    <3>1. /\ st[i].seg[n] = IF n \in a..(a + i - 1) THEN g ELSE d.seg[n]
          /\ st[k].seg[n] = IF n \in a..(a + k - 1) THEN g ELSE d.seg[n]
      BY <1>6, <1>10, <1>11, FilledSegs
    <3>2. n >= a => d.seg[n] = 0 OBVIOUS
    <3>. QED BY <3>1, <3>2, <1>11
  <2>. QED BY <1>8, <1>11, <2>1 DEF Cared
<1>12. \A i \in 0..k : Whole(st[i]) /\ Cared(st[i], J, i, st[k]) BY <1>8, <1>11
<1>13. Future(st, J) BY <1>3, <1>5, <1>7 DEF Future
<1>. DEFINE e == Filled(d, g, a, k)
<1>14. st[k] = e BY <1>10
<1>. HIDE DEF e
<1>15. Leads(d, J, e) BY <1>3, <1>9, <1>12, <1>13, <1>14 DEF Leads
<1>. QED BY <1>3, <1>15 DEF J, e

LEMMA ClearLeads ==
    ASSUME NEW d \in DirType, Whole(d), NEW s \in Seq(1..MaxSeg),
           NEW job \in JobType, OfManifest(job), NEW e \in DirType,
           e = After(Cleared(d, SeqAt(s, Len(s))), job), Whole(e), ~Hole(e),
           e.seg = Cleared(d, SeqAt(s, Len(s))).seg
    PROVE  Deletes(s) \o <<job>> \in Seq(JobType) /\ Leads(d, Deletes(s) \o <<job>>, e)
<1>. DEFINE m == Len(s)
            D == Deletes(s)
            J == D \o <<job>>
            C(i) == Cleared(d, SeqAt(s, i))
            st == [i \in 0..(m + 1) |-> IF i <= m THEN C(i) ELSE e]
<1>1. m \in Nat /\ DOMAIN s = 1..m /\ \A i \in 1..m : s[i] \in 1..MaxSeg BY ElementOf
<1>2. D \in [1..m -> JobType] /\ \A i \in 1..m : D[i] = DelSeg(s[i])
  BY <1>1 DEF Deletes, JobType
<1>. HIDE DEF D
<1>3. D \in Seq(JobType) /\ Len(D) = m BY <1>1, <1>2, Sequenced
<1>4. J \in Seq(JobType) /\ Len(J) = m + 1 /\ J[m + 1] = job /\ \A i \in 1..m : J[i] = D[i]
  BY <1>1, <1>3
<1>. HIDE DEF J, m
<1>5. \A i : C(i) \in DirType BY ClearedFacts
<1>6. st \in [0..(m + 1) -> DirType] BY <1>5
<1>7. st[m + 1] = e /\ \A i \in 0..m : st[i] = C(i) BY <1>1
<1>. HIDE DEF st
<1>8. ASSUME NEW i \in 1..m PROVE C(i) = After(C(i - 1), DelSeg(s[i]))
  <2>. DEFINE n == s[i]
              b == C(i - 1)
              f == C(i)
              del == DelSeg(n)
  <2>1. n \in 1..MaxSeg BY <1>1
  <2>2. b \in DirType /\ f \in DirType /\ b.mpd = f.mpd /\ b.init = f.init /\ b.lost = f.lost
    BY ClearedFacts
  <2>3. SeqAt(s, i) = SeqAt(s, i - 1) \cup {n} BY <1>1 DEF SeqAt
  <2>4. \A q \in 1..MaxSeg : f.seg[q] = IF q = n THEN 0 ELSE b.seg[q]
    <3>1. \A q \in 1..MaxSeg : f.seg[q] = IF q \in SeqAt(s, i) THEN 0 ELSE d.seg[q] BY ClearedFacts
    <3>2. \A q \in 1..MaxSeg : b.seg[q] = IF q \in SeqAt(s, i - 1) THEN 0 ELSE d.seg[q]
      BY ClearedFacts
    <3>. QED BY <2>3, <3>1, <3>2
  <2>. HIDE DEF b, f, n
  <2>5. del \in JobType /\ 0 \in 0..MaxGen BY <2>1, FilesAssumption DEF JobType
  <2>6. /\ After(b, del) \in DirType
        /\ After(b, del).init = b.init /\ After(b, del).mpd = b.mpd /\ After(b, del).lost = b.lost
        /\ \A q \in 1..MaxSeg : After(b, del).seg[q] = IF q = n THEN 0 ELSE b.seg[q]
    BY <2>1, <2>2, <2>5, AfterOne
  <2>. HIDE DEF del
  <2>7. After(b, del) = f BY <2>2, <2>4, <2>6, SameDir
  <2>. QED BY <2>7 DEF b, f, n, del
<1>9. ASSUME NEW i \in 1..(m + 1) PROVE st[i] = After(st[i - 1], J[i])
  <2>1. CASE i <= m
    <3>1. i \in 0..m /\ i - 1 \in 0..m /\ i \in 1..m BY <1>1, <2>1
    <3>. QED BY <3>1, <1>2, <1>4, <1>7, <1>8
  <2>2. CASE i = m + 1
    <3>1. i - 1 = m /\ m \in 0..m BY <1>1, <2>2
    <3>2. e = After(C(m), job) BY DEF m
    <3>. HIDE DEF C
    <3>. QED BY <2>2, <3>1, <3>2, <1>4, <1>7
  <2>. QED BY <1>1, <2>1, <2>2
<1>10. \A i : Whole(C(i))
  <2>. SUFFICES ASSUME NEW i PROVE Whole(C(i)) OBVIOUS
  <2>1. /\ C(i).init = d.init /\ C(i).mpd = d.mpd
        /\ \A n \in 1..MaxSeg : C(i).seg[n] \in {0, d.seg[n]}
    BY ClearedFacts
  <2>2. \A j \in DOMAIN d.mpd.segs : d.mpd.segs[j] \in 1..MaxSeg BY DirFacts
  <2>. HIDE DEF C
  <2>. QED BY <2>1, <2>2 DEF Whole
<1>11. ASSUME NEW i \in 0..(m + 1) PROVE Whole(st[i]) /\ Cared(st[i], J, i, e)
  <2>1. CASE i <= m
    <3>1. st[i] = C(i) /\ m + 1 \in (i + 1)..Len(J) /\ i \in 0..m BY <1>1, <1>4, <1>7, <2>1
    <3>2. Whole(st[i]) /\ Later(J, i) BY <1>4, <1>10, <3>1 DEF Later
    <3>3. ASSUME NEW n \in 1..MaxSeg PROVE C(i).seg[n] \in {0, e.seg[n]} \/ Deleted(J, i, n)
      <4>1. C(i).seg[n] = (IF n \in SeqAt(s, i) THEN 0 ELSE d.seg[n]) BY ClearedFacts
      <4>2. e.seg[n] = (IF n \in SeqAt(s, m) THEN 0 ELSE d.seg[n]) BY ClearedFacts DEF m
      <4>3. CASE n \in SeqAt(s, i) \/ n \notin SeqAt(s, m) BY <4>1, <4>2, <4>3
      <4>4. CASE n \notin SeqAt(s, i) /\ n \in SeqAt(s, m)
        <5>1. PICK j \in 1..m : n = s[j] BY <4>4 DEF SeqAt
        <5>2. j \notin 1..i BY <4>4, <5>1 DEF SeqAt
        <5>3. j \in (i + 1)..Len(J) /\ J[j] = DelSeg(n) BY <1>1, <1>2, <1>4, <3>1, <5>1, <5>2
        <5>. QED BY <5>3 DEF Deleted
      <4>. QED BY <4>3, <4>4
    <3>. HIDE DEF C
    <3>. QED BY <3>1, <3>2, <3>3 DEF Cared
  <2>2. CASE i = m + 1 BY <1>7, <2>2 DEF Cared
  <2>. QED BY <1>1, <2>1, <2>2
<1>12. st[0] = d
  <2>1. SeqAt(s, 0) = {} BY DEF SeqAt
  <2>2. C(0) \in DirType /\ C(0).init = d.init /\ C(0).mpd = d.mpd /\ C(0).lost = d.lost
        /\ \A n \in 1..MaxSeg : C(0).seg[n] = d.seg[n]
    BY <2>1, ClearedFacts
  <2>3. st[0] = C(0) BY <1>1, <1>7
  <2>. HIDE DEF C
  <2>. QED BY <2>2, <2>3, SameDir
<1>13. st[Len(J)] = e BY <1>4, <1>7
<1>14. Future(st, J) BY <1>4, <1>6, <1>9 DEF Future
<1>15. \A i \in 0..Len(J) : Whole(st[i]) /\ Cared(st[i], J, i, e) BY <1>4, <1>11
<1>. QED BY <1>4, <1>12, <1>13, <1>14, <1>15 DEF Leads, J, D

LEMMA JobLeads ==
    ASSUME NEW d \in DirType, Whole(d), ~Hole(d), NEW job \in JobType,
           Whole(After(d, job)), ~Hole(After(d, job)), After(d, job).seg = d.seg
    PROVE  <<job>> \in Seq(JobType) /\ Leads(d, <<job>>, After(d, job))
<1>. DEFINE J == <<job>>
            st == [i \in 0..1 |-> IF i = 0 THEN d ELSE After(d, job)]
<1>1. J \in Seq(JobType) /\ Len(J) = 1 /\ J[1] = job OBVIOUS
<1>2. st \in [0..1 -> DirType] BY AfterTyped
<1>3. st[0] = d /\ st[1] = After(d, job) OBVIOUS
<1>. HIDE DEF J, st
<1>4. Future(st, J)
  <2>1. \A i \in 1..1 : st[i] = After(st[i - 1], J[i])
    <3>1. st[1] = After(st[1 - 1], J[1]) BY <1>1, <1>3
    <3>. QED BY <3>1
  <2>. QED BY <1>1, <1>2, <2>1 DEF Future
<1>5. \A i \in 0..1 : Whole(st[i]) /\ Cared(st[i], J, i, st[1])
  <2>1. Cared(st[0], J, 0, st[1]) /\ Cared(st[1], J, 1, st[1]) BY <1>3 DEF Cared
  <2>. QED BY <1>3, <2>1
<1>. QED BY <1>1, <1>3, <1>4, <1>5 DEF Leads, J

-----------------------------------------------------------------------------
\* Runs of numbers, and what one call of the packager leads to.
Run(a, n) == [i \in 1..n |-> a + i - 1]

LEMMA RunFacts ==
    ASSUME NEW a \in Nat, a # 0, NEW n \in Nat, a + n - 1 <= MaxSeg
    PROVE  /\ Run(a, n) \in Seq(1..MaxSeg) /\ Len(Run(a, n)) = n
           /\ \A q : q \in SeqAt(Run(a, n), n) <=> q \in a..(a + n - 1)
           /\ \A q : q \in SeqAt(Run(a, n) \o Run(a, n), Len(Run(a, n) \o Run(a, n)))
                     <=> q \in a..(a + n - 1)
<1>. DEFINE s == Run(a, n)
            t == s \o s
<1>1. \A i \in 1..n : a + i - 1 \in 1..MaxSeg BY DirectoryAssumption
<1>2. s \in [1..n -> 1..MaxSeg] BY <1>1 DEF Run
<1>3. s \in Seq(1..MaxSeg) /\ Len(s) = n BY <1>2, Sequenced
<1>4. \A i \in 1..n : s[i] = a + i - 1 BY DEF Run
<1>. HIDE DEF s
<1>5. \A q : q \in SeqAt(s, n) <=> q \in a..(a + n - 1)
  <2>1. ASSUME NEW q, q \in SeqAt(s, n) PROVE q \in a..(a + n - 1) BY <1>4, <2>1 DEF SeqAt
  <2>2. ASSUME NEW q \in a..(a + n - 1) PROVE q \in SeqAt(s, n)
    <3>1. q - a + 1 \in 1..n /\ a + (q - a + 1) - 1 = q OBVIOUS
    <3>. QED BY <1>4, <3>1 DEF SeqAt
  <2>. QED BY <2>1, <2>2
<1>6. Len(t) = n + n /\ \A i \in 1..n : t[i] = s[i] /\ t[n + i] = s[i] BY <1>3
<1>. HIDE DEF t
<1>7. \A q : q \in SeqAt(t, n + n) <=> q \in SeqAt(s, n)
  <2>1. ASSUME NEW q, q \in SeqAt(t, n + n) PROVE q \in SeqAt(s, n)
    <3>1. PICK i \in 1..(n + n) : q = t[i] BY <2>1 DEF SeqAt
    <3>2. CASE i <= n BY <1>6, <3>1, <3>2 DEF SeqAt
    <3>3. CASE i > n
      <4>1. i - n \in 1..n /\ i = n + (i - n) BY <3>3
      <4>. QED BY <1>6, <3>1, <4>1 DEF SeqAt
    <3>. QED BY <3>1, <3>2, <3>3
  <2>2. ASSUME NEW q, q \in SeqAt(s, n) PROVE q \in SeqAt(t, n + n)
    <3>1. PICK i \in 1..n : q = s[i] BY <2>2 DEF SeqAt
    <3>2. i \in 1..(n + n) BY <3>1
    <3>. QED BY <1>6, <3>1, <3>2 DEF SeqAt
  <2>. QED BY <2>1, <2>2
<1>. QED BY <1>3, <1>5, <1>6, <1>7 DEF s, t

Feeds(f) == /\ f \in FeedType /\ f.gen # 0
            /\ ~f.ready => f.next = 1

LEMMA FeedFacts ==
    ASSUME NEW f, Feeds(f)
    PROVE  /\ f.gen \in 1..MaxGen /\ f.next \in 1..(MaxSeg + 1) /\ f.next \in Nat /\ f.next # 0
           /\ f.ready \in BOOLEAN /\ f.live \in BOOLEAN
           /\ First(f.next) \in 1..f.next /\ First(f.next) \in Nat
           /\ Window(f.next) \in Seq(1..MaxSeg) /\ Len(Window(f.next)) = f.next - First(f.next)
<1>1. /\ f.gen \in 1..MaxGen /\ f.next \in 1..(MaxSeg + 1) /\ f.next \in Nat /\ f.next # 0
      /\ f.ready \in BOOLEAN /\ f.live \in BOOLEAN
  BY FilesAssumption, DirectoryAssumption DEF Feeds, FeedType
<1>. QED BY <1>1, WindowFacts

\* When the jobs are done, the manifest lists what is there.
LEMMA FinishedWhole ==
    ASSUME NEW f, Feeds(f), NEW d \in DirType, Finished(d, f)
    PROVE  Whole(d) /\ ~Hole(d) /\ (d.mpd # NoMpd => d.mpd.gen = f.gen)
<1>1. CASE f.next = 1
  <2>1. d.mpd = NoMpd BY <1>1 DEF Finished
  <2>. QED BY <2>1 DEF NoMpd, Whole, Hole
<1>2. CASE f.next # 1
  <2>1. f.ready BY <1>2 DEF Feeds
  <2>2. d.init = f.gen /\ d.mpd.gen = f.gen /\ d.mpd.segs = Window(f.next)
    BY <1>2, <2>1 DEF Finished
  <2>3. ASSUME NEW i \in DOMAIN d.mpd.segs PROVE d.seg[d.mpd.segs[i]] = f.gen
    <3>1. i \in 1..(f.next - First(f.next)) BY <2>2, <2>3, FeedFacts, ElementOf
    <3>2. d.mpd.segs[i] = First(f.next) + i - 1 BY <2>2, <3>1, FeedFacts, WindowFacts
    <3>3. d.mpd.segs[i] \in 1..MaxSeg BY DirFacts
    <3>4. d.mpd.segs[i] \in First(f.next)..(f.next - 1) BY <3>1, <3>2, FeedFacts
    <3>. QED BY <3>3, <3>4 DEF Finished
  <2>4. f.gen # 0 BY DEF Feeds
  <2>. QED BY <2>2, <2>3, <2>4 DEF Whole, Hole
<1>. QED BY <1>1, <1>2

\* The segments of a batch.
LEMMA SegmentsDone ==
    ASSUME Feeds(feed), NEW d \in DirType, Finished(d, feed), NEW k \in Nat,
           feed.next + k - 1 <= MaxSeg
    PROVE  LET e == Filled(d, feed.gen, feed.next, k) IN
           /\ Segments(k) \in Seq(JobType) /\ Leads(d, Segments(k), e)
           /\ e \in DirType /\ e.init = d.init /\ e.mpd = d.mpd /\ e.lost = d.lost
           /\ \A n \in 1..MaxSeg :
                 e.seg[n] = IF n \in First(feed.next)..(feed.next + k - 1) THEN feed.gen ELSE 0
           /\ Whole(e)
<1>. DEFINE e == Filled(d, feed.gen, feed.next, k)
<1>1. /\ feed.gen \in 1..MaxGen /\ feed.next \in Nat /\ feed.next # 0
      /\ First(feed.next) \in 1..feed.next
  BY FeedFacts
<1>2. Whole(d) /\ ~Hole(d) /\ (d.mpd # NoMpd => d.mpd.gen = feed.gen) BY FinishedWhole
<1>3. Segments(k) \in Seq(JobType) /\ Leads(d, Segments(k), e)
  <2>1. \A n \in 1..MaxSeg : n >= feed.next => d.seg[n] = 0 BY <1>1 DEF Finished
  <2>. QED BY <1>1, <1>2, <2>1, SegmentsLead DEF Segments
<1>4. e \in DirType /\ e.init = d.init /\ e.mpd = d.mpd /\ e.lost = d.lost BY <1>1, FilledFacts
<1>5. ASSUME NEW n \in 1..MaxSeg
      PROVE  e.seg[n] = IF n \in First(feed.next)..(feed.next + k - 1) THEN feed.gen ELSE 0
  <2>1. e.seg[n] = IF n \in feed.next..(feed.next + k - 1) THEN feed.gen ELSE d.seg[n]
    BY <1>1, FilledSegs
  <2>2. d.seg[n] = IF n \in First(feed.next)..(feed.next - 1) THEN feed.gen ELSE 0
    BY DEF Finished
  <2>3. n \in First(feed.next)..(feed.next + k - 1)
          <=> n \in feed.next..(feed.next + k - 1) \/ n \in First(feed.next)..(feed.next - 1)
    BY <1>1
  <2>. QED BY <2>1, <2>2, <2>3
<1>6. Whole(e)
  <2>1. \A i \in DOMAIN d.mpd.segs : d.mpd.segs[i] \in 1..MaxSeg BY DirFacts
  <2>. HIDE DEF e
  <2>. QED BY <1>2, <1>4, <1>5, <2>1 DEF Whole
<1>. QED BY <1>3, <1>4, <1>5, <1>6

LEMMA Extended ==
    ASSUME Feeds(feed), NEW k \in Nat, feed.ready, feed.next + k <= MaxSeg + 1
    PROVE  LET f == [feed EXCEPT !.next = @ + k] IN
           /\ Feeds(f) /\ f.gen = feed.gen /\ f.next = feed.next + k /\ f.ready /\ f.live = feed.live
BY FeedFacts, DirectoryAssumption DEF Feeds, FeedType

LEMMA AddLeads ==
    ASSUME Feeds(feed), NEW d \in DirType, Finished(d, feed), NEW k \in Nat, k # 0, feed.ready,
           feed.next + k <= MaxSeg + 1
    PROVE  LET K == Deletes(Slides(k)) \o <<MpdJob(feed.gen, Window(feed.next + k))>> IN
           /\ Segments(k) \in Seq(JobType) /\ K \in Seq(JobType)
           /\ \E e \in DirType :
                 Leads(d, Segments(k) \o K, e) /\ Finished(e, [feed EXCEPT !.next = @ + k])
<1>. DEFINE f == [feed EXCEPT !.next = @ + k]
            b == Filled(d, feed.gen, feed.next, k)
            s == Slides(k)
            w == Window(feed.next + k)
            job == MpdJob(feed.gen, w)
            low == First(feed.next)
            high == First(feed.next + k)
            c == Cleared(b, SeqAt(s, Len(s)))
            e == After(c, job)
<1>1. /\ feed.gen \in 1..MaxGen /\ feed.next \in Nat /\ feed.next # 0 /\ feed.next \in 1..(MaxSeg + 1)
      /\ low \in 1..feed.next
  BY FeedFacts
<1>2. /\ Segments(k) \in Seq(JobType) /\ Leads(d, Segments(k), b)
      /\ b \in DirType /\ b.init = d.init /\ b.mpd = d.mpd /\ b.lost = d.lost
      /\ \A n \in 1..MaxSeg : b.seg[n] = IF n \in low..(feed.next + k - 1) THEN feed.gen ELSE 0
      /\ Whole(b)
  <2>1. feed.next + k - 1 <= MaxSeg BY <1>1, DirectoryAssumption
  <2>. QED BY <2>1, SegmentsDone
<1>3. feed.next + k \in 1..(MaxSeg + 1) /\ feed.next + k \in feed.next..(MaxSeg + 1) /\ feed.next + k # 1
  BY <1>1
<1>4. /\ w \in Seq(1..MaxSeg) /\ high \in 1..(feed.next + k) /\ low <= high
      /\ high < feed.next + k
  BY <1>1, <1>3, WindowFacts
<1>. HIDE DEF b, w, low, high
<1>5. s = Run(low, high - low) BY DEF Slides, Run, low, high
<1>6. low # 0 /\ low \in Nat /\ high - low \in Nat /\ low + (high - low) - 1 <= MaxSeg
  BY <1>1, <1>3, <1>4, DirectoryAssumption
<1>7. s \in Seq(1..MaxSeg) /\ \A q : q \in SeqAt(s, Len(s)) <=> q \in low..(high - 1)
  <2>1. low + (high - low) - 1 = high - 1 BY <1>6, <1>4
  <2>. QED BY <1>5, <1>6, <2>1, RunFacts
<1>8. job \in JobType /\ OfManifest(job)
  BY <1>1, <1>4 DEF JobType, OfManifest, MpdJob
<1>. HIDE DEF s
<1>9. /\ c \in DirType /\ c.init = b.init
      /\ \A n \in 1..MaxSeg : c.seg[n] = IF n \in SeqAt(s, Len(s)) THEN 0 ELSE b.seg[n]
  BY <1>2, ClearedFacts
<1>. HIDE DEF c
<1>10. e = Dir(c.init, [gen |-> feed.gen, segs |-> w], c.seg, c.lost)
  BY <1>1, <1>4, <1>9, AfterEach
<1>11. e \in DirType BY <1>8, <1>9, AfterTyped
<1>12. e.init = c.init /\ e.mpd = [gen |-> feed.gen, segs |-> w] /\ e.seg = c.seg
  BY <1>10, DirFields
<1>. HIDE DEF e
<1>13. Feeds(f) /\ f.gen = feed.gen /\ f.next = feed.next + k /\ f.ready
  BY Extended
<1>14. Finished(e, f)
  <2>1. e.init = f.gen BY <1>2, <1>9, <1>12, <1>13 DEF Finished
  <2>2. e.mpd = [gen |-> f.gen, segs |-> Window(f.next)] BY <1>12, <1>13 DEF w
  <2>3. ASSUME NEW n \in 1..MaxSeg
        PROVE  e.seg[n] = IF n \in First(f.next)..(f.next - 1) THEN f.gen ELSE 0
    <3>1. e.seg[n] = IF n \in low..(high - 1) THEN 0
                     ELSE IF n \in low..(feed.next + k - 1) THEN feed.gen ELSE 0
      BY <1>2, <1>7, <1>9, <1>12
    <3>2. First(f.next) = high BY <1>13 DEF high
    <3>3. n \in high..(feed.next + k - 1)
            <=> n \notin low..(high - 1) /\ n \in low..(feed.next + k - 1)
      BY <1>1, <1>4
    <3>4. First(f.next)..(f.next - 1) = high..(feed.next + k - 1)
      BY <1>1, <1>13, <3>2
    <3>. QED BY <3>1, <3>3, <3>4, <1>13
  <2>. QED BY <2>1, <2>2, <2>3, <1>3, <1>13 DEF Finished
<1>. HIDE DEF f, job
<1>15. Whole(e) /\ ~Hole(e) BY <1>11, <1>13, <1>14, FinishedWhole
<1>16. /\ Deletes(s) \o <<job>> \in Seq(JobType)
       /\ Leads(b, Deletes(s) \o <<job>>, e)
  BY <1>2, <1>7, <1>8, <1>11, <1>12, <1>15, ClearLeads DEF e, c
<1>17. Leads(d, Segments(k) \o (Deletes(s) \o <<job>>), e) BY <1>2, <1>16, LeadsJoin
<1>. QED BY <1>2, <1>11, <1>14, <1>16, <1>17 DEF s, job, w, f

LEMMA RotateLeads ==
    ASSUME Feeds(feed), NEW d \in DirType, Finished(d, feed), NEW k \in Nat,
           feed.next + k <= MaxSeg + 1, feed.gen < MaxGen, NEW ready \in BOOLEAN
    PROVE  LET old == Run(First(feed.next), feed.next + k - First(feed.next))
               K == Deletes(old \o old) \o <<DelMpd>>
               L == IF ready THEN <<InitJob(feed.gen + 1)>> ELSE <<>>
               f == [New(feed.gen + 1) EXCEPT !.ready = ready]
           IN  /\ Segments(k) \in Seq(JobType) /\ K \in Seq(JobType) /\ L \in Seq(JobType)
               /\ Feeds(f) /\ f.live
               /\ \E e \in DirType : Leads(d, (Segments(k) \o K) \o L, e) /\ Finished(e, f)
<1>. DEFINE low == First(feed.next)
            old == Run(low, feed.next + k - low)
            s == old \o old
            K == Deletes(s) \o <<DelMpd>>
            L == IF ready THEN <<InitJob(feed.gen + 1)>> ELSE <<>>
            f == [New(feed.gen + 1) EXCEPT !.ready = ready]
            b == Filled(d, feed.gen, feed.next, k)
            c == Cleared(b, SeqAt(s, Len(s)))
            e == After(c, DelMpd)
            h == After(e, InitJob(feed.gen + 1))
<1>1. /\ feed.gen \in 1..MaxGen /\ feed.next \in Nat /\ feed.next # 0 /\ low \in 1..feed.next
      /\ feed.gen + 1 \in 1..MaxGen
  BY FeedFacts, FilesAssumption
<1>2. /\ Segments(k) \in Seq(JobType) /\ Leads(d, Segments(k), b)
      /\ b \in DirType
      /\ \A n \in 1..MaxSeg : b.seg[n] = IF n \in low..(feed.next + k - 1) THEN feed.gen ELSE 0
      /\ Whole(b)
  <2>1. feed.next + k - 1 <= MaxSeg BY <1>1, DirectoryAssumption
  <2>. QED BY <2>1, SegmentsDone
<1>3. Feeds(f) /\ f.live /\ f.gen = feed.gen + 1 /\ f.next = 1 /\ f.ready = ready
  <2>1. feed.gen + 1 \in 0..MaxGen /\ feed.gen + 1 # 0 /\ 1 \in 1..(MaxSeg + 1)
    BY <1>1, DirectoryAssumption
  <2>2. f \in FeedType BY <2>1 DEF New, Off, FeedType
  <2>3. f.live /\ f.gen = feed.gen + 1 /\ f.next = 1 /\ f.ready = ready BY DEF New, Off
  <2>. HIDE DEF f
  <2>. QED BY <2>1, <2>2, <2>3 DEF Feeds
<1>. HIDE DEF b, f, low
<1>4. low \in Nat /\ low # 0 /\ feed.next + k - low \in Nat /\ low + (feed.next + k - low) - 1 <= MaxSeg
      /\ low + (feed.next + k - low) - 1 = feed.next + k - 1
  BY <1>1, DirectoryAssumption
<1>5. s \in Seq(1..MaxSeg) /\ \A q : q \in SeqAt(s, Len(s)) <=> q \in low..(feed.next + k - 1)
  <2>1. old \in Seq(1..MaxSeg) BY <1>4, RunFacts
  <2>2. \A q : q \in SeqAt(s, Len(s)) <=> q \in low..(feed.next + k - 1) BY <1>4, RunFacts
  <2>. HIDE DEF old
  <2>. QED BY <2>1, <2>2
<1>. HIDE DEF s
<1>6. c \in DirType /\ \A n \in 1..MaxSeg : c.seg[n] = 0
  BY <1>2, <1>5, ClearedFacts
<1>. HIDE DEF c
<1>7. DelMpd \in JobType /\ OfManifest(DelMpd) BY DEF JobType, OfManifest, DelMpd
<1>8. e = Dir(c.init, NoMpd, c.seg, c.lost) BY <1>6, AfterEach
<1>9. e \in DirType /\ e.mpd = NoMpd /\ e.seg = c.seg BY <1>6, <1>7, <1>8, AfterTyped, DirFields
<1>. HIDE DEF e
<1>10. Whole(e) /\ ~Hole(e) BY <1>9 DEF Whole, Hole, NoMpd
<1>11. K \in Seq(JobType) /\ Leads(b, K, e)
  BY <1>2, <1>5, <1>7, <1>9, <1>10, ClearLeads DEF e, c
<1>. HIDE DEF K
<1>12. Segments(k) \o K \in Seq(JobType) /\ Leads(d, Segments(k) \o K, e)
  <2>1. Segments(k) \o K \in Seq(JobType) BY <1>2, <1>11
  <2>. QED BY <1>2, <1>11, <2>1, LeadsJoin
<1>13. \A n \in 1..MaxSeg : n \notin First(1)..(1 - 1)
  <2>1. First(1) = 1 BY WindowFacts, DirectoryAssumption
  <2>. QED BY <2>1
<1>14. CASE ready
  <2>. DEFINE job == InitJob(feed.gen + 1)
  <2>1. job \in JobType BY <1>1 DEF JobType
  <2>2. h = Dir(feed.gen + 1, e.mpd, e.seg, e.lost) BY <1>1, <1>9, AfterEach
  <2>3. h \in DirType /\ h.init = feed.gen + 1 /\ h.mpd = NoMpd /\ h.seg = c.seg
    BY <1>9, <2>1, <2>2, AfterTyped, DirFields
  <2>4. Whole(h) /\ ~Hole(h) BY <2>3 DEF Whole, Hole, NoMpd
  <2>5. <<job>> \in Seq(JobType) /\ Leads(e, <<job>>, h)
    BY <1>9, <1>10, <2>1, <2>3, <2>4, JobLeads
  <2>6. Finished(h, f) BY <1>3, <1>6, <1>13, <2>3 DEF Finished
  <2>7. L = <<job>> BY <1>14
  <2>. HIDE DEF h, job, L
  <2>8. Leads(d, (Segments(k) \o K) \o L, h) BY <1>12, <2>5, <2>7, LeadsJoin
  <2>. QED BY <1>2, <1>3, <1>11, <2>3, <2>5, <2>6, <2>7, <2>8 DEF K, s, f, L, low
<1>15. CASE ~ready
  <2>1. L = <<>> BY <1>15
  <2>2. (Segments(k) \o K) \o <<>> = Segments(k) \o K BY <1>12
  <2>3. Finished(e, f) BY <1>3, <1>6, <1>9, <1>13, <1>15 DEF Finished
  <2>4. <<>> \in Seq(JobType) OBVIOUS
  <2>. HIDE DEF L
  <2>. QED BY <1>2, <1>3, <1>9, <1>11, <1>12, <2>1, <2>2, <2>3, <2>4 DEF K, s, f, L, low
<1>. QED BY <1>14, <1>15

-----------------------------------------------------------------------------
\* The invariant: the files and the jobs that are still to come.
LEMMA FinishedExists ==
    ASSUME NEW f, Feeds(f)
    PROVE  \E d \in DirType : Finished(d, f)
<1>. DEFINE m == IF f.next = 1 THEN NoMpd ELSE [gen |-> f.gen, segs |-> Window(f.next)]
            s == [n \in 1..MaxSeg |-> IF n \in First(f.next)..(f.next - 1) THEN f.gen ELSE 0]
            l == FALSE
            d == Dir(f.gen, m, s, l)
<1>1. f.gen \in 0..MaxGen /\ 0 \in 0..MaxGen BY FeedFacts, FilesAssumption
<1>2. m \in [gen : 0..MaxGen, segs : Seq(1..MaxSeg)]
  <2>1. <<>> \in Seq(1..MaxSeg) OBVIOUS
  <2>. QED BY <1>1, <2>1, FeedFacts DEF NoMpd
<1>3. s \in [1..MaxSeg -> 0..MaxGen] BY <1>1
<1>4. \A n \in 1..MaxSeg : s[n] = IF n \in First(f.next)..(f.next - 1) THEN f.gen ELSE 0 OBVIOUS
<1>5. l \in BOOLEAN OBVIOUS
<1>. HIDE DEF s, m, l
<1>6. d \in DirType /\ d.init = f.gen /\ d.mpd = m /\ d.seg = s
  BY <1>1, <1>2, <1>3, <1>5, DirFields
<1>. HIDE DEF d
<1>. QED BY <1>4, <1>6 DEF Finished, m

LEMMA Nothing ==
    ASSUME NEW d \in DirType, Whole(d), ~Hole(d)
    PROVE  Leads(d, <<>>, d)
<1>. DEFINE st == [i \in 0..0 |-> d]
<1>1. Len(<<>>) = 0 /\ st[0] = d /\ st \in [0..0 -> DirType] OBVIOUS
<1>. HIDE DEF st
<1>2. \A i \in 0..0 : Whole(st[i]) /\ Cared(st[i], <<>>, i, d)
  <2>1. Cared(d, <<>>, 0, d) BY DEF Cared
  <2>. QED BY <1>1, <2>1
<1>. QED BY <1>1, <1>2 DEF Leads, Future

LEMMA EmptyFacts == EmptyDir \in DirType /\ Whole(EmptyDir) /\ ~Hole(EmptyDir) /\ ~EmptyDir.lost
<1>. DEFINE s == [n \in 1..MaxSeg |-> 0]
            l == FALSE
<1>1. EmptyDir = Dir(0, NoMpd, s, l) BY DEF EmptyDir, Dir
<1>2. l \in BOOLEAN /\ 0 \in 0..MaxGen /\ <<>> \in Seq(1..MaxSeg) BY FilesAssumption
<1>3. NoMpd \in [gen : 0..MaxGen, segs : Seq(1..MaxSeg)] BY <1>2 DEF NoMpd
<1>4. s \in [1..MaxSeg -> 0..MaxGen] BY <1>2
<1>. HIDE DEF s, l
<1>5. EmptyDir \in DirType /\ EmptyDir.mpd = NoMpd
  BY <1>1, <1>2, <1>3, <1>4, DirFields
<1>6. ~EmptyDir.lost BY DEF EmptyDir
<1>. QED BY <1>5, <1>6 DEF Whole, Hole, NoMpd

\* A wipe takes a file away, and marks the directory.
LEMMA LostFacts ==
    ASSUME NEW d \in DirType
    PROVE  LET e == [d EXCEPT !.lost = TRUE] IN
           /\ e \in DirType /\ e.lost
           /\ e.init = d.init /\ e.mpd = d.mpd /\ e.seg = d.seg
<1>. DEFINE l == TRUE
            e == [d EXCEPT !.lost = l]
<1>1. l \in BOOLEAN /\ l OBVIOUS
<1>. HIDE DEF l
<1>2. e = Dir(d.init, d.mpd, d.seg, l) BY DEF DirType, Dir
<1>. HIDE DEF e
<1>3. e.init = d.init /\ e.mpd = d.mpd /\ e.seg = d.seg /\ e.lost = l BY <1>2, DirFields
<1>4. e \in DirType BY <1>1, <1>2, DirFacts, DirFields
<1>. QED BY <1>1, <1>3, <1>4 DEF e, l

LEMMA FewerFacts ==
    ASSUME NEW d \in DirType, NEW e \in Fewer(d)
    PROVE  /\ e \in DirType /\ e.lost
           /\ e.mpd \in {NoMpd, d.mpd} /\ e.init \in {0, d.init}
           /\ \A n \in 1..MaxSeg : e.seg[n] \in {0, d.seg[n]}
<1>. DEFINE D == {DelMpd} \cup {DelSeg(n) : n \in 1..MaxSeg}
            less == {After(d, job) : job \in D} \cup {[d EXCEPT !.init = 0]}
<1>1. PICK c \in less : e = [c EXCEPT !.lost = TRUE] BY DEF Fewer
<1>0. PICK job \in D : c \in {After(d, job), [d EXCEPT !.init = 0]} BY <1>1
<1>2. c \in DirType /\ c.mpd \in {NoMpd, d.mpd} /\ c.init \in {0, d.init}
      /\ \A n \in 1..MaxSeg : c.seg[n] \in {0, d.seg[n]}
  <2>1. CASE c = After(d, job) /\ job = DelMpd
    <3>1. c = Dir(d.init, NoMpd, d.seg, d.lost) BY <2>1, AfterEach
    <3>2. job \in JobType BY <2>1 DEF JobType
    <3>3. c.init = d.init /\ c.mpd = NoMpd /\ c.seg = d.seg BY <3>1, DirFields
    <3>4. c \in DirType BY <2>1, <3>2, AfterTyped
    <3>. QED BY <3>3, <3>4
  <2>2. CASE c = After(d, job) /\ job \in {DelSeg(n) : n \in 1..MaxSeg}
    <3>1. PICK n \in 1..MaxSeg : job = DelSeg(n) BY <2>2
    <3>. DEFINE s == [d.seg EXCEPT ![n] = 0]
    <3>2. c = Dir(d.init, d.mpd, s, d.lost) BY <2>2, <3>1, AfterEach
    <3>3. job \in JobType BY <3>1 DEF JobType
    <3>4. \A k \in 1..MaxSeg : s[k] \in {0, d.seg[k]} BY DirFacts
    <3>. HIDE DEF s
    <3>5. c.init = d.init /\ c.mpd = d.mpd /\ c.seg = s BY <3>2, DirFields
    <3>6. c \in DirType BY <2>2, <3>3, AfterTyped
    <3>. QED BY <3>4, <3>5, <3>6
  <2>3. CASE c = [d EXCEPT !.init = 0]
    <3>1. c = Dir(0, d.mpd, d.seg, d.lost) BY <2>3 DEF DirType, Dir
    <3>2. 0 \in 0..MaxGen BY FilesAssumption
    <3>3. c \in DirType BY <3>1, <3>2, DirFacts, DirFields
    <3>4. c.init = 0 /\ c.mpd = d.mpd /\ c.seg = d.seg BY <3>1, DirFields
    <3>. QED BY <3>3, <3>4
  <2>. QED BY <1>0, <2>1, <2>2, <2>3
<1>3. /\ e \in DirType /\ e.lost /\ e.init = c.init /\ e.mpd = c.mpd /\ e.seg = c.seg
  BY <1>1, <1>2, LostFacts
<1>. QED BY <1>2, <1>3

LEMMA NewFacts ==
    ASSUME NEW g \in 1..MaxGen
    PROVE  Feeds(New(g)) /\ New(g).live /\ Finished(EmptyDir, New(g))
<1>1. /\ New(g).live /\ New(g).gen = g /\ ~New(g).ready /\ New(g).next = 1 BY DEF New, Off
<1>2. New(g) \in FeedType
  <2>1. 1 \in 1..(MaxSeg + 1) /\ g \in 0..MaxGen BY DirectoryAssumption
  <2>. QED BY <2>1 DEF New, Off, FeedType
<1>3. First(1) = 1 BY WindowFacts, DirectoryAssumption
<1>4. EmptyDir.mpd = NoMpd /\ \A n \in 1..MaxSeg : EmptyDir.seg[n] = 0 BY DEF EmptyDir
<1>5. g # 0 OBVIOUS
<1>6. \A n \in 1..MaxSeg : n \notin 1..(1 - 1) OBVIOUS
<1>. QED BY <1>1, <1>2, <1>3, <1>4, <1>5, <1>6 DEF Feeds, Finished

LEMMA OffFacts == Off \in FeedType /\ ~Off.live /\ ~Off.ready /\ Off.next = 1
<1>1. 1 \in 1..(MaxSeg + 1) /\ 0 \in 0..MaxGen BY DirectoryAssumption, FilesAssumption
<1>. QED BY <1>1 DEF Off, FeedType

LEMMA FilesInit == Init => FilesTypeOK /\ Heads
<1>. SUFFICES ASSUME Init PROVE FilesTypeOK /\ Heads OBVIOUS
<1>1. dir = EmptyDir /\ jobs = <<>> /\ feed = Off BY DEF Init
<1>2. <<>> \in Seq(JobType) OBVIOUS
<1>3. Leads(EmptyDir, <<>>, EmptyDir) BY EmptyFacts, Nothing
<1>4. Safe(EmptyDir, <<>>) BY <1>2, <1>3, LeadsSafe
<1>. QED BY <1>1, <1>2, <1>4, OffFacts, EmptyFacts DEF FilesTypeOK, Heads

\* A step of a live packager that adds the jobs K and makes the feed f.
LEMMA More ==
    ASSUME FilesTypeOK, Heads, feed.live, NEW K \in Seq(JobType), NEW f, Feeds(f), f.live,
           \A d \in DirType : Finished(d, feed) => \E e \in DirType : Leads(d, K, e) /\ Finished(e, f),
           dir' = dir, jobs' = jobs \o K, feed' = f
    PROVE  FilesTypeOK' /\ Heads'
<1>1. jobs \in Seq(JobType) /\ dir \in DirType BY DEF FilesTypeOK
<1>2. jobs \o K \in Seq(JobType) BY <1>1
<1>3. FilesTypeOK' BY <1>1, <1>2 DEF FilesTypeOK, Feeds
<1>4. Heads'
  <2>. SUFFICES ASSUME ~dir.lost
                PROVE  Safe(dir, jobs \o K) /\ \E e \in DirType : Leads(dir, jobs \o K, e) /\ Finished(e, f)
    BY DEF Heads
  <2>1. PICK d \in DirType : Leads(dir, jobs, d) /\ Finished(d, feed) BY DEF Heads
  <2>2. PICK e \in DirType : Leads(d, K, e) /\ Finished(e, f) BY <2>1
  <2>3. Leads(dir, jobs \o K, e) BY <1>1, <2>1, <2>2, LeadsJoin
  <2>. QED BY <1>2, <2>2, <2>3, LeadsSafe
<1>. QED BY <1>3, <1>4

LEMMA PrepareMore ==
    ASSUME Feeds(feed), feed.live, ~feed.ready
    PROVE  LET f == [feed EXCEPT !.ready = TRUE]
               K == <<InitJob(feed.gen)>>
           IN  /\ K \in Seq(JobType) /\ Feeds(f) /\ f.live
               /\ \A d \in DirType : Finished(d, feed) =>
                     \E e \in DirType : Leads(d, K, e) /\ Finished(e, f)
<1>. DEFINE f == [feed EXCEPT !.ready = TRUE]
            job == InitJob(feed.gen)
<1>1. feed.gen \in 1..MaxGen BY FeedFacts
<1>2. job \in JobType BY <1>1 DEF JobType
<1>3. f.live /\ f.gen = feed.gen /\ f.next = feed.next /\ f.ready BY DEF Feeds, FeedType
<1>4. Feeds(f) BY DEF Feeds, FeedType
<1>. HIDE DEF f
<1>5. ASSUME NEW d \in DirType, Finished(d, feed)
      PROVE  <<job>> \in Seq(JobType) /\ \E e \in DirType : Leads(d, <<job>>, e) /\ Finished(e, f)
  <2>. DEFINE e == After(d, job)
  <2>1. d.mpd = NoMpd BY <1>5 DEF Finished, Feeds
  <2>2. e = Dir(feed.gen, d.mpd, d.seg, d.lost) BY <1>1, AfterEach
  <2>3. e \in DirType BY <1>2, AfterTyped
  <2>4. e.init = feed.gen /\ e.mpd = NoMpd /\ e.seg = d.seg BY <2>1, <2>2, DirFields
  <2>5. Whole(d) /\ ~Hole(d) /\ Whole(e) /\ ~Hole(e) BY <2>1, <2>4 DEF Whole, Hole, NoMpd
  <2>6. Finished(e, f) BY <1>3, <1>5, <2>1, <2>4 DEF Finished, Feeds
  <2>7. <<job>> \in Seq(JobType) /\ Leads(d, <<job>>, e) BY <1>2, <2>4, <2>5, JobLeads
  <2>. QED BY <2>3, <2>6, <2>7
<1>6. <<job>> \in Seq(JobType) BY <1>2
<1>. QED BY <1>3, <1>4, <1>5, <1>6 DEF f

LEMMA AddMore ==
    ASSUME Feeds(feed), feed.live, feed.ready, NEW k \in Nat, k # 0, feed.next + k <= MaxSeg + 1
    PROVE  LET f == [feed EXCEPT !.next = @ + k]
               K == Segments(k) \o (Deletes(Slides(k)) \o <<MpdJob(feed.gen, Window(feed.next + k))>>)
           IN  /\ Segments(k) \in Seq(JobType)
               /\ Deletes(Slides(k)) \o <<MpdJob(feed.gen, Window(feed.next + k))>> \in Seq(JobType)
               /\ K \in Seq(JobType) /\ Feeds(f) /\ f.live
               /\ \A d \in DirType : Finished(d, feed) =>
                     \E e \in DirType : Leads(d, K, e) /\ Finished(e, f)
<1>. DEFINE A == Segments(k)
            B == Deletes(Slides(k)) \o <<MpdJob(feed.gen, Window(feed.next + k))>>
<1>1. A \in Seq(JobType) /\ B \in Seq(JobType) BY FinishedExists, AddLeads
<1>2. \A d \in DirType : Finished(d, feed) =>
        \E e \in DirType : Leads(d, A \o B, e) /\ Finished(e, [feed EXCEPT !.next = @ + k])
  BY AddLeads
<1>. HIDE DEF A, B
<1>3. A \o B \in Seq(JobType) BY <1>1
<1>. QED BY <1>1, <1>2, <1>3, Extended DEF A, B

LEMMA RotateMore ==
    ASSUME Feeds(feed), NEW k \in Nat, feed.next + k <= MaxSeg + 1, feed.gen < MaxGen,
           NEW ready \in BOOLEAN
    PROVE  LET old == Run(First(feed.next), feed.next + k - First(feed.next))
               D == Deletes(old \o old) \o <<DelMpd>>
               L == IF ready THEN <<InitJob(feed.gen + 1)>> ELSE <<>>
               f == [New(feed.gen + 1) EXCEPT !.ready = ready]
               K == (Segments(k) \o D) \o L
           IN  /\ Segments(k) \in Seq(JobType) /\ D \in Seq(JobType) /\ L \in Seq(JobType)
               /\ K \in Seq(JobType) /\ Feeds(f) /\ f.live
               /\ \A d \in DirType : Finished(d, feed) =>
                     \E e \in DirType : Leads(d, K, e) /\ Finished(e, f)
<1>. DEFINE old == Run(First(feed.next), feed.next + k - First(feed.next))
            A == Segments(k)
            D == Deletes(old \o old) \o <<DelMpd>>
            L == IF ready THEN <<InitJob(feed.gen + 1)>> ELSE <<>>
            f == [New(feed.gen + 1) EXCEPT !.ready = ready]
<1>1. PICK d \in DirType : Finished(d, feed) BY FinishedExists
<1>2. A \in Seq(JobType) /\ D \in Seq(JobType) /\ L \in Seq(JobType) /\ Feeds(f) /\ f.live
  BY <1>1, RotateLeads
<1>3. \A x \in DirType : Finished(x, feed) =>
        \E e \in DirType : Leads(x, (A \o D) \o L, e) /\ Finished(e, f)
  BY RotateLeads
<1>. HIDE DEF A, D, L, f
<1>4. (A \o D) \o L \in Seq(JobType) BY <1>2
<1>. QED BY <1>2, <1>3, <1>4 DEF A, D, L, f

LEMMA DeletesTyped ==
    ASSUME NEW s \in Seq(1..MaxSeg)
    PROVE  /\ Deletes(s) \in Seq(JobType) /\ Len(Deletes(s)) = Len(s)
           /\ \A i \in 1..Len(s) : Deletes(s)[i] = DelSeg(s[i])
<1>. DEFINE m == Len(s)
            D == Deletes(s)
<1>1. m \in Nat /\ DOMAIN s = 1..m /\ \A i \in 1..m : s[i] \in 1..MaxSeg BY ElementOf
<1>2. D \in [1..m -> JobType] /\ \A i \in 1..m : D[i] = DelSeg(s[i])
  BY <1>1 DEF Deletes, JobType
<1>. HIDE DEF D, m
<1>. QED BY <1>1, <1>2, Sequenced DEF D, m

LEMMA AddTyped ==
    ASSUME Feeds(feed), NEW k \in Nat, k # 0, feed.next + k <= MaxSeg + 1
    PROVE  /\ Slides(k) \in Seq(1..MaxSeg) /\ Deletes(Slides(k)) \in Seq(JobType)
           /\ Window(feed.next + k) \in Seq(1..MaxSeg)
           /\ <<MpdJob(feed.gen, Window(feed.next + k))>> \in Seq(JobType)
<1>. DEFINE low == First(feed.next)
            high == First(feed.next + k)
            w == Window(feed.next + k)
            job == MpdJob(feed.gen, w)
<1>1. /\ feed.gen \in 1..MaxGen /\ feed.next \in Nat /\ feed.next # 0 /\ feed.next \in 1..(MaxSeg + 1)
      /\ low \in 1..feed.next
  BY FeedFacts
<1>2. feed.next + k \in 1..(MaxSeg + 1) /\ feed.next + k \in feed.next..(MaxSeg + 1)
  BY <1>1
<1>3. w \in Seq(1..MaxSeg) /\ high \in 1..(feed.next + k) /\ low <= high /\ high < feed.next + k
  BY <1>1, <1>2, WindowFacts
<1>. HIDE DEF low, high, w
<1>4. low # 0 /\ low \in Nat /\ high - low \in Nat /\ low + (high - low) - 1 <= MaxSeg
  BY <1>1, <1>2, <1>3, DirectoryAssumption
<1>5. Slides(k) = Run(low, high - low) BY DEF Slides, Run, low, high
<1>6. Slides(k) \in Seq(1..MaxSeg) BY <1>4, <1>5, RunFacts
<1>7. job \in JobType BY <1>1, <1>3 DEF JobType
<1>. HIDE DEF job
<1>8. <<job>> \in Seq(JobType) BY <1>7
<1>. QED BY <1>3, <1>6, <1>8, DeletesTyped DEF job, w

LEMMA Join ==
    ASSUME NEW S, NEW s \in Seq(S), NEW t \in Seq(S)
    PROVE  s \o t \in Seq(S)
OBVIOUS

\* The jobs that Add and Rotate append, as one sequence.
LEMMA AddJobs ==
    ASSUME FilesTypeOK, NEW k \in 1..MaxBatch, Add(k)
    PROVE  /\ Feeds(feed) /\ feed.live /\ feed.ready /\ k \in Nat /\ k # 0
           /\ feed.next + k <= MaxSeg + 1
           /\ jobs' = jobs \o (Segments(k) \o (Deletes(Slides(k))
                                               \o <<MpdJob(feed.gen, Window(feed.next + k))>>))
           /\ feed' = [feed EXCEPT !.next = @ + k] /\ dir' = dir
<1>. DEFINE A == Segments(k)
            B == Deletes(Slides(k))
            C == <<MpdJob(feed.gen, Window(feed.next + k))>>
<1>1. Feeds(feed) /\ feed.live /\ feed.ready /\ k \in Nat /\ k # 0 /\ dir' = dir
      /\ feed' = [feed EXCEPT !.next = @ + k]
  BY DEF Add, Goes, FilesTypeOK, Feeds
<1>2. feed.next + k <= MaxSeg + 1
  <2>1. feed.next + k - 1 <= LastSeg[feed.gen] BY DEF Add
  <2>2. LastSeg[feed.gen] \in 0..MaxSeg BY <1>1, FeedFacts, FilesAssumption
  <2>. QED BY <1>1, <2>1, <2>2, FeedFacts, DirectoryAssumption
<1>3. A \in Seq(JobType) /\ B \o C \in Seq(JobType) BY <1>1, <1>2, AddMore
<1>4. jobs' = ((jobs \o A) \o B) \o C BY DEF Add
<1>5. jobs \in Seq(JobType) BY DEF FilesTypeOK
<1>6. B \in Seq(JobType) /\ C \in Seq(JobType) BY <1>1, <1>2, AddTyped
<1>. HIDE DEF A, B, C
<1>7. jobs' = jobs \o (A \o (B \o C))
  <2>1. PICK jA \in Seq(JobType) : jA = jobs \o A BY <1>3, <1>5, Join, Zenon
  <2>2. PICK BC \in Seq(JobType) : BC = B \o C BY <1>6, Join, Zenon
  <2>3. jA \o BC = jobs \o (A \o BC) BY <1>3, <1>5, <2>1
  <2>4. (jA \o B) \o C = jA \o BC BY <1>6, <2>2
  <2>. QED BY <1>4, <2>1, <2>2, <2>3, <2>4
<1>. QED BY <1>1, <1>2, <1>7 DEF A, B, C

LEMMA RotateTyped ==
    ASSUME Feeds(feed), NEW k \in Nat, feed.next + k <= MaxSeg + 1
    PROVE  LET old == Run(First(feed.next), feed.next + k - First(feed.next))
           IN  old \o old \in Seq(1..MaxSeg) /\ Deletes(old \o old) \in Seq(JobType)
<1>. DEFINE low == First(feed.next)
            n == feed.next + k - low
            old == Run(low, n)
            s == old \o old
<1>1. low \in Nat /\ low # 0 /\ n \in Nat /\ low + n - 1 <= MaxSeg
  BY FeedFacts, DirectoryAssumption
<1>. HIDE DEF low, n
<1>2. old \in Seq(1..MaxSeg) BY <1>1, RunFacts
<1>. HIDE DEF old
<1>3. s \in Seq(1..MaxSeg) BY <1>2
<1>. HIDE DEF s
<1>4. Deletes(s) \in Seq(JobType) BY <1>3, DeletesTyped
<1>. QED BY <1>3, <1>4 DEF s, old, n, low

LEMMA RotateJobs ==
    ASSUME FilesTypeOK, NEW k \in 0..MaxBatch, NEW ready \in BOOLEAN, Rotate(k, ready)
    PROVE  LET old == Run(First(feed.next), feed.next + k - First(feed.next))
               L == IF ready THEN <<InitJob(feed.gen + 1)>> ELSE <<>>
           IN  /\ Feeds(feed) /\ feed.live /\ k \in Nat /\ feed.gen < MaxGen
               /\ feed.next + k <= MaxSeg + 1
               /\ jobs' = jobs \o ((Segments(k) \o (Deletes(old \o old) \o <<DelMpd>>)) \o L)
               /\ feed' = [New(feed.gen + 1) EXCEPT !.ready = ready] /\ dir' = dir
<1>. DEFINE old == Run(First(feed.next), feed.next + k - First(feed.next))
            A == Segments(k)
            B == Deletes(old \o old)
            C == <<DelMpd>>
            L == IF ready THEN <<InitJob(feed.gen + 1)>> ELSE <<>>
<1>1. Feeds(feed) /\ feed.live /\ k \in Nat /\ feed.gen < MaxGen
      /\ feed' = [New(feed.gen + 1) EXCEPT !.ready = ready] /\ dir' = dir
  BY DEF Rotate, Goes, FilesTypeOK, Feeds
<1>2. feed.next + k <= MaxSeg + 1
  <2>1. CASE k = 0 BY <1>1, <2>1, FeedFacts
  <2>2. CASE k > 0
    <3>1. feed.next + k - 1 <= LastSeg[feed.gen] BY <2>2 DEF Rotate
    <3>2. LastSeg[feed.gen] \in 0..MaxSeg BY <1>1, FeedFacts, FilesAssumption
    <3>. QED BY <1>1, <3>1, <3>2, FeedFacts, DirectoryAssumption
  <2>. QED BY <1>1, <2>1, <2>2
<1>3. A \in Seq(JobType) /\ L \in Seq(JobType) BY <1>1, <1>2, RotateMore
<1>4. B \in Seq(JobType) BY <1>1, <1>2, RotateTyped
<1>5. C \in Seq(JobType)
  <2>1. DelMpd \in JobType BY DEF JobType
  <2>. QED BY <2>1
<1>6. jobs' = (((jobs \o A) \o B) \o C) \o L BY DEF Rotate, Run
<1>7. jobs \in Seq(JobType) BY DEF FilesTypeOK
<1>. HIDE DEF A, B, C, L, old
<1>8. jobs' = jobs \o ((A \o (B \o C)) \o L)
  <2>1. PICK jA \in Seq(JobType) : jA = jobs \o A BY <1>3, <1>7, Join, Zenon
  <2>2. PICK BC \in Seq(JobType) : BC = B \o C BY <1>4, <1>5, Join, Zenon
  <2>3. PICK ABC \in Seq(JobType) : ABC = A \o BC BY <1>3, <2>2, Join, Zenon
  <2>4. jA \o BC = jobs \o ABC BY <1>3, <1>7, <2>1, <2>3
  <2>5. (jA \o B) \o C = jA \o BC BY <1>4, <1>5, <2>1, <2>2
  <2>6. (jobs \o ABC) \o L = jobs \o (ABC \o L) BY <1>3, <1>7
  <2>. QED BY <1>6, <2>1, <2>2, <2>3, <2>4, <2>5, <2>6
<1>. QED BY <1>1, <1>2, <1>8 DEF A, B, C, L, old

LEMMA FilesStep ==
    ASSUME FilesTypeOK, Heads, [FilesNext]_fileVars
    PROVE  FilesTypeOK' /\ Heads'
<1>1. dir \in DirType /\ jobs \in Seq(JobType) /\ feed \in FeedType
  BY DEF FilesTypeOK
<1>2. ASSUME Open PROVE FilesTypeOK' /\ Heads'
  <2>1. PICK g \in FirstGen : feed' = New(g) /\ jobs' = <<>> BY <1>2 DEF Open
  <2>2. g \in 1..MaxGen BY FilesAssumption
  <2>3. Feeds(New(g)) /\ New(g).live /\ Finished(EmptyDir, New(g)) BY <2>2, NewFacts
  <2>4. <<>> \in Seq(JobType) OBVIOUS
  <2>5. Leads(EmptyDir, <<>>, EmptyDir) BY EmptyFacts, Nothing
  <2>6. Safe(EmptyDir, <<>>) BY <2>4, <2>5, LeadsSafe
  <2>7. CASE dir' = EmptyDir
    BY <2>1, <2>3, <2>4, <2>5, <2>6, <2>7, EmptyFacts DEF FilesTypeOK, Heads, Feeds
  <2>8. CASE dir' = [dir EXCEPT !.lost = TRUE]
    <3>1. dir' \in DirType /\ dir'.lost BY <1>1, <2>8, LostFacts
    <3>. QED BY <2>1, <2>3, <2>4, <3>1 DEF FilesTypeOK, Heads, Feeds
  <2>. QED BY <1>2, <2>7, <2>8 DEF Open
<1>10. ASSUME Wipe PROVE FilesTypeOK' /\ Heads'
  <2>1. dir' \in DirType /\ dir'.lost /\ jobs' = jobs /\ feed' = feed BY <1>1, <1>10, FewerFacts DEF Wipe
  <2>. QED BY <2>1 DEF FilesTypeOK, Heads
<1>3. ASSUME Prepare PROVE FilesTypeOK' /\ Heads'
  <2>. DEFINE f == [feed EXCEPT !.ready = TRUE]
              K == <<InitJob(feed.gen)>>
  <2>1. Feeds(feed) /\ feed.live /\ ~feed.ready /\ feed' = f /\ dir' = dir
    BY <1>3 DEF Prepare, Goes, FilesTypeOK, Feeds
  <2>2. jobs' = jobs \o K BY <1>1, <1>3 DEF Prepare
  <2>3. /\ K \in Seq(JobType) /\ Feeds(f) /\ f.live
        /\ \A d \in DirType : Finished(d, feed) =>
              \E e \in DirType : Leads(d, K, e) /\ Finished(e, f)
    BY <2>1, PrepareMore
  <2>. HIDE DEF f, K
  <2>. QED BY <2>1, <2>2, <2>3, More
<1>4. ASSUME NEW k \in 1..MaxBatch, Add(k) PROVE FilesTypeOK' /\ Heads'
  <2>. DEFINE f == [feed EXCEPT !.next = @ + k]
              K == Segments(k) \o (Deletes(Slides(k)) \o <<MpdJob(feed.gen, Window(feed.next + k))>>)
  <2>1. /\ Feeds(feed) /\ feed.live /\ feed.ready /\ k \in Nat /\ k # 0
        /\ feed.next + k <= MaxSeg + 1
        /\ jobs' = jobs \o K /\ feed' = f /\ dir' = dir
    BY <1>4, AddJobs
  <2>2. /\ K \in Seq(JobType) /\ Feeds(f) /\ f.live
        /\ \A d \in DirType : Finished(d, feed) =>
              \E e \in DirType : Leads(d, K, e) /\ Finished(e, f)
    BY <2>1, AddMore
  <2>. HIDE DEF f, K
  <2>. QED BY <2>1, <2>2, More
<1>5. ASSUME NEW k \in 0..MaxBatch, NEW ready \in BOOLEAN, Rotate(k, ready)
      PROVE  FilesTypeOK' /\ Heads'
  <2>. DEFINE old == Run(First(feed.next), feed.next + k - First(feed.next))
              L == IF ready THEN <<InitJob(feed.gen + 1)>> ELSE <<>>
              K == (Segments(k) \o (Deletes(old \o old) \o <<DelMpd>>)) \o L
              f == [New(feed.gen + 1) EXCEPT !.ready = ready]
  <2>1. /\ Feeds(feed) /\ feed.live /\ k \in Nat /\ feed.gen < MaxGen
        /\ feed.next + k <= MaxSeg + 1
        /\ jobs' = jobs \o K /\ feed' = f /\ dir' = dir
    BY <1>5, RotateJobs
  <2>2. /\ K \in Seq(JobType) /\ Feeds(f) /\ f.live
        /\ \A d \in DirType : Finished(d, feed) =>
              \E e \in DirType : Leads(d, K, e) /\ Finished(e, f)
    BY <2>1, RotateMore
  <2>. HIDE DEF f, K
  <2>. QED BY <2>1, <2>2, More
<1>6. ASSUME End PROVE FilesTypeOK' /\ Heads'
  <2>1. feed' = Off /\ dir' = dir BY <1>6 DEF End
  <2>2. jobs' = jobs \/ \E k \in 0..Len(jobs) : jobs' = SubSeq(jobs, 1, k) BY <1>6 DEF End
  <2>3. jobs' \in Seq(JobType) /\ (~dir.lost => Safe(dir, jobs'))
    <3>1. CASE jobs' = jobs BY <1>1, <3>1 DEF Heads
    <3>2. ASSUME NEW k \in 0..Len(jobs), jobs' = SubSeq(jobs, 1, k)
          PROVE  jobs' \in Seq(JobType) /\ (~dir.lost => Safe(dir, jobs'))
      <4>1. SubSeq(jobs, 1, k) \in Seq(JobType) BY <1>1
      <4>. QED BY <1>1, <3>2, <4>1, SafeCut DEF Heads
    <3>. QED BY <2>2, <3>1, <3>2
  <2>. QED BY <1>1, <2>1, <2>3, OffFacts DEF FilesTypeOK, Heads
<1>7. ASSUME Do PROVE FilesTypeOK' /\ Heads'
  <2>1. jobs # <<>> /\ dir' = After(dir, Head(jobs)) /\ jobs' = Tail(jobs) /\ feed' = feed
    BY <1>7 DEF Do
  <2>2. Head(jobs) \in JobType /\ Tail(jobs) \in Seq(JobType) BY <1>1, <2>1
  <2>3. dir' \in DirType /\ dir'.lost = dir.lost BY <1>1, <2>1, <2>2, AfterTyped
  <2>4. FilesTypeOK' BY <2>1, <2>2, <2>3 DEF FilesTypeOK
  <2>5. Heads'
    <3>. SUFFICES ASSUME ~dir.lost
                  PROVE  /\ Safe(dir', jobs')
                         /\ feed.live => \E e \in DirType : Leads(dir', jobs', e) /\ Finished(e, feed)
      BY <2>1, <2>3 DEF Heads
    <3>1. Safe(dir', jobs') BY <1>1, <2>1, SafeOn DEF Heads
    <3>2. ASSUME NEW e, Leads(dir, jobs, e) PROVE Leads(dir', jobs', e) BY <1>1, <2>1, <3>2, LeadsOn
    <3>. QED BY <3>1, <3>2 DEF Heads
  <2>. QED BY <2>4, <2>5
<1>8. ASSUME Fail PROVE FilesTypeOK' /\ Heads'
  <2>1. jobs # <<>> /\ dir' = [dir EXCEPT !.lost = TRUE] /\ jobs' = Tail(jobs) /\ feed' = feed
    BY <1>8 DEF Fail
  <2>2. dir' \in DirType /\ dir'.lost BY <1>1, <2>1 DEF DirType
  <2>3. Tail(jobs) \in Seq(JobType) BY <1>1, <2>1
  <2>. QED BY <2>1, <2>2, <2>3 DEF FilesTypeOK, Heads
<1>9. CASE UNCHANGED fileVars BY <1>9 DEF fileVars, FilesTypeOK, Heads
<1>. QED BY <1>2, <1>3, <1>4, <1>5, <1>6, <1>7, <1>8, <1>9, <1>10 DEF FilesNext

-----------------------------------------------------------------------------
\* The manifests, on disk and to come, are in order.
Oldest(m) == m.segs[1]
Newest(m) == m.segs[Len(m.segs)]
Listing(m) == m.gen \in Nat /\ m.segs \in Seq(1..MaxSeg) /\ m.segs # <<>>
Follows(k, m) ==
    \/ k.gen > m.gen
    \/ k.gen = m.gen /\ Oldest(k) >= Oldest(m) /\ Newest(k) >= Newest(m)
\* The packager f is at m or past it.
Reached(m, f) ==
    \/ m.gen < f.gen
    \/ m.gen = f.gen /\ Oldest(m) <= First(f.next) /\ Newest(m) < f.next

IsMpd(job) == job.kind = "mpd"
Lined(J, m, f) ==
    /\ m # NoMpd => Listing(m) /\ (f.live => Reached(m, f))
    /\ \A i \in DOMAIN J : IsMpd(J[i]) =>
          /\ Listing(J[i]) /\ (f.live => Reached(J[i], f))
          /\ m # NoMpd => Follows(J[i], m)
    /\ \A i, j \in DOMAIN J : i < j /\ IsMpd(J[i]) /\ IsMpd(J[j]) => Follows(J[j], J[i])

Ordered == Lined(jobs, dir.mpd, feed)

LEMMA NotEmpty ==
    ASSUME NEW S, NEW s \in Seq(S), s # <<>>
    PROVE  Len(s) # 0
OBVIOUS

LEMMA ListingFacts ==
    ASSUME NEW m, Listing(m)
    PROVE  m.gen \in Nat /\ Oldest(m) \in Nat /\ Newest(m) \in Nat
<1>. DEFINE s == m.segs
<1>1. m.gen \in Nat /\ s \in Seq(1..MaxSeg) /\ s # <<>> BY DEF Listing
<1>. HIDE DEF s
<1>2. /\ Len(s) \in Nat /\ DOMAIN s = 1..Len(s) /\ Len(s) # 0
      /\ \A i \in DOMAIN s : s[i] \in 1..MaxSeg
  BY <1>1, ElementOf, NotEmpty
<1>3. 1 \in DOMAIN s /\ Len(s) \in DOMAIN s BY <1>2
<1>4. s[1] \in 1..MaxSeg /\ s[Len(s)] \in 1..MaxSeg BY <1>2, <1>3
<1>5. s[1] \in Nat /\ s[Len(s)] \in Nat BY <1>4
<1>. QED BY <1>1, <1>5 DEF Oldest, Newest, s

LEMMA FollowsItself ==
    ASSUME NEW m, Listing(m)
    PROVE  Follows(m, m)
BY ListingFacts DEF Follows

LEMMA JobFacts ==
    ASSUME NEW job \in JobType, NEW d \in DirType
    PROVE  /\ IsMpd(job) => /\ job.gen \in Nat /\ job.segs \in Seq(1..MaxSeg)
                            /\ After(d, job).mpd = [gen |-> job.gen, segs |-> job.segs]
           /\ ~IsMpd(job) => After(d, job).mpd \in {NoMpd, d.mpd}
<1>1. CASE \E g \in 1..MaxGen : job = InitJob(g)
  <2>1. PICK g \in 1..MaxGen : job = InitJob(g) BY <1>1
  <2>2. After(d, job).mpd = d.mpd BY <2>1, AfterEach, DirFields
  <2>. QED BY <2>1, <2>2 DEF InitJob, IsMpd
<1>2. CASE \E g \in 1..MaxGen, n \in 1..MaxSeg : job = SegJob(g, n)
  <2>1. PICK g \in 1..MaxGen, n \in 1..MaxSeg : job = SegJob(g, n) BY <1>2
  <2>. DEFINE s == [d.seg EXCEPT ![n] = g]
  <2>2. After(d, job) = Dir(d.init, d.mpd, s, d.lost) BY <2>1, AfterEach
  <2>. HIDE DEF s
  <2>3. After(d, job).mpd = d.mpd BY <2>2, DirFields
  <2>. QED BY <2>1, <2>3 DEF SegJob, IsMpd
<1>3. CASE \E g \in 1..MaxGen, s \in Seq(1..MaxSeg) : job = MpdJob(g, s)
  <2>1. PICK g \in 1..MaxGen, s \in Seq(1..MaxSeg) : job = MpdJob(g, s) BY <1>3
  <2>2. After(d, job).mpd = [gen |-> g, segs |-> s] BY <2>1, AfterEach, DirFields
  <2>3. job.gen = g /\ job.segs = s /\ IsMpd(job) BY <2>1 DEF MpdJob, IsMpd
  <2>. QED BY <2>2, <2>3
<1>4. CASE \E n \in 1..MaxSeg : job = DelSeg(n)
  <2>1. PICK n \in 1..MaxSeg : job = DelSeg(n) BY <1>4
  <2>. DEFINE s == [d.seg EXCEPT ![n] = 0]
  <2>2. After(d, job) = Dir(d.init, d.mpd, s, d.lost) BY <2>1, AfterEach
  <2>. HIDE DEF s
  <2>3. After(d, job).mpd = d.mpd BY <2>2, DirFields
  <2>. QED BY <2>1, <2>3 DEF DelSeg, IsMpd
<1>5. CASE job = DelMpd
  <2>1. After(d, job).mpd = NoMpd BY <1>5, AfterEach, DirFields
  <2>. QED BY <1>5, <2>1 DEF DelMpd, IsMpd
<1>. QED BY <1>1, <1>2, <1>3, <1>4, <1>5 DEF JobType

LEMMA LinedTail ==
    ASSUME NEW J \in Seq(JobType), J # <<>>, NEW m, NEW f, Lined(J, m, f)
    PROVE  Lined(Tail(J), m, f)
<1>. DEFINE K == Tail(J)
<1>1. /\ DOMAIN J = 1..Len(J) /\ DOMAIN K = 1..Len(K) /\ Len(K) \in Nat /\ Len(J) = Len(K) + 1
      /\ \A i \in DOMAIN K : K[i] = J[i + 1]
  OBVIOUS
<1>. HIDE DEF K
<1>2. \A i \in DOMAIN K : i + 1 \in DOMAIN J BY <1>1
<1>3. ASSUME NEW i \in DOMAIN K, NEW j \in DOMAIN K, i < j, IsMpd(K[i]), IsMpd(K[j])
      PROVE  Follows(K[j], K[i])
  <2>1. i + 1 < j + 1 BY <1>1, <1>3
  <2>. QED BY <1>1, <1>2, <1>3, <2>1 DEF Lined
<1>4. ASSUME NEW i \in DOMAIN K, IsMpd(K[i])
      PROVE  Listing(K[i]) /\ (f.live => Reached(K[i], f)) /\ (m # NoMpd => Follows(K[i], m))
  BY <1>1, <1>2, <1>4 DEF Lined
<1>5. m # NoMpd => Listing(m) /\ (f.live => Reached(m, f)) BY DEF Lined
<1>. QED BY <1>3, <1>4, <1>5 DEF Lined, K

LEMMA LinedCut ==
    ASSUME NEW J \in Seq(JobType), NEW k \in 0..Len(J), NEW m, NEW f, Lined(J, m, f)
    PROVE  Lined(SubSeq(J, 1, k), m, f)
<1>. DEFINE K == SubSeq(J, 1, k)
<1>1. /\ DOMAIN J = 1..Len(J) /\ DOMAIN K = 1..k
      /\ \A i \in DOMAIN K : K[i] = J[i]
  OBVIOUS
<1>. HIDE DEF K
<1>2. \A i \in DOMAIN K : i \in DOMAIN J BY <1>1
<1>3. ASSUME NEW i \in DOMAIN K, NEW j \in DOMAIN K, i < j, IsMpd(K[i]), IsMpd(K[j])
      PROVE  Follows(K[j], K[i])
  BY <1>1, <1>2, <1>3 DEF Lined
<1>4. ASSUME NEW i \in DOMAIN K, IsMpd(K[i])
      PROVE  Listing(K[i]) /\ (f.live => Reached(K[i], f)) /\ (m # NoMpd => Follows(K[i], m))
  BY <1>1, <1>2, <1>4 DEF Lined
<1>5. m # NoMpd => Listing(m) /\ (f.live => Reached(m, f)) BY DEF Lined
<1>. QED BY <1>3, <1>4, <1>5 DEF Lined, K

LEMMA LinedOff ==
    ASSUME NEW J, NEW m, NEW f, Lined(J, m, f), NEW o, ~o.live
    PROVE  Lined(J, m, o)
BY DEF Lined

\* The manifest becomes none, or the first to come.
LEMMA LinedGone ==
    ASSUME NEW J, NEW m, NEW f, Lined(J, m, f)
    PROVE  Lined(J, NoMpd, f)
BY DEF Lined

LEMMA LinedOn ==
    ASSUME NEW J \in Seq(JobType), J # <<>>, NEW m, NEW f, Lined(J, m, f), IsMpd(J[1])
    PROVE  LET n == [gen |-> J[1].gen, segs |-> J[1].segs] IN
           Lined(Tail(J), n, f) /\ (m # NoMpd => Follows(n, m))
<1>. DEFINE n == [gen |-> J[1].gen, segs |-> J[1].segs]
            K == Tail(J)
<1>1. n.gen = J[1].gen /\ n.segs = J[1].segs OBVIOUS
<1>. HIDE DEF n
<1>2. 1 \in DOMAIN J OBVIOUS
<1>3. /\ DOMAIN J = 1..Len(J) /\ DOMAIN K = 1..Len(K) /\ Len(K) \in Nat /\ Len(J) = Len(K) + 1
      /\ \A i \in DOMAIN K : K[i] = J[i + 1]
  OBVIOUS
<1>. HIDE DEF K
<1>4. Listing(n) /\ (f.live => Reached(n, f)) /\ (m # NoMpd => Follows(n, m))
  <2>1. Listing(J[1]) /\ (f.live => Reached(J[1], f)) /\ (m # NoMpd => Follows(J[1], m))
    BY <1>2 DEF Lined
  <2>. QED BY <1>1, <2>1 DEF Listing, Reached, Follows, Oldest, Newest
<1>5. ASSUME NEW i \in DOMAIN K, IsMpd(K[i]) PROVE Follows(K[i], n)
  <2>1. i + 1 \in DOMAIN J /\ 1 < i + 1 /\ K[i] = J[i + 1] BY <1>3
  <2>2. Follows(K[i], J[1]) BY <1>2, <1>5, <2>1 DEF Lined
  <2>. QED BY <1>1, <2>2 DEF Follows, Oldest, Newest
<1>6. Lined(K, m, f) BY LinedTail DEF K
<1>. QED BY <1>4, <1>5, <1>6 DEF Lined, K, n

LEMMA LinedJoin ==
    ASSUME NEW J \in Seq(JobType), NEW K \in Seq(JobType), NEW m, NEW f, NEW o,
           Lined(J, m, f), f.live,
           \A x : Listing(x) /\ Reached(x, f) => Reached(x, o),
           \A i \in 1..Len(K) : IsMpd(K[i]) =>
              /\ i = Len(K) /\ Listing(K[i]) /\ Reached(K[i], o)
              /\ \A x : Listing(x) /\ Reached(x, f) => Follows(K[i], x)
    PROVE  Lined(J \o K, m, o)
<1>. DEFINE L == J \o K
            n == Len(J)
<1>1. /\ n \in Nat /\ Len(K) \in Nat /\ DOMAIN L = 1..(n + Len(K)) /\ DOMAIN J = 1..n
      /\ \A i \in 1..n : L[i] = J[i]
      /\ \A i \in 1..Len(K) : L[n + i] = K[i]
  OBVIOUS
<1>. HIDE DEF L, n
<1>2. m # NoMpd => Listing(m) /\ Reached(m, f) /\ Reached(m, o) BY DEF Lined
<1>3. ASSUME NEW i \in 1..n, IsMpd(L[i])
      PROVE  /\ Listing(L[i]) /\ Reached(L[i], f) /\ Reached(L[i], o)
             /\ m # NoMpd => Follows(L[i], m)
  BY <1>1, <1>3 DEF Lined
<1>4. ASSUME NEW i \in (n + 1)..(n + Len(K)), IsMpd(L[i])
      PROVE  /\ i = n + Len(K) /\ Listing(L[i]) /\ Reached(L[i], o)
             /\ \A x : Listing(x) /\ Reached(x, f) => Follows(L[i], x)
  <2>1. PICK j \in 1..Len(K) : i = n + j
    <3>1. i - n \in 1..Len(K) /\ i = n + (i - n) BY <1>1
    <3>. QED BY <3>1
  <2>2. L[i] = K[j] BY <1>1, <2>1
  <2>. QED BY <1>4, <2>1, <2>2
<1>5. ASSUME NEW i \in DOMAIN L, IsMpd(L[i])
      PROVE  Listing(L[i]) /\ Reached(L[i], o) /\ (m # NoMpd => Follows(L[i], m))
  <2>1. CASE i \in 1..n BY <1>3, <1>5, <2>1
  <2>2. CASE i \in (n + 1)..(n + Len(K)) BY <1>2, <1>4, <1>5, <2>2
  <2>. QED BY <1>1, <2>1, <2>2
<1>6. ASSUME NEW i \in DOMAIN L, NEW j \in DOMAIN L, i < j, IsMpd(L[i]), IsMpd(L[j])
      PROVE  Follows(L[j], L[i])
  <2>1. CASE j \in 1..n
    <3>1. i \in 1..n BY <1>1, <1>6, <2>1
    <3>. QED BY <1>1, <1>6, <2>1, <3>1 DEF Lined
  <2>2. CASE j \in (n + 1)..(n + Len(K))
    <3>1. j = n + Len(K) /\ \A x : Listing(x) /\ Reached(x, f) => Follows(L[j], x)
      BY <1>4, <1>6, <2>2
    <3>2. ASSUME i \in (n + 1)..(n + Len(K)) PROVE FALSE
      <4>1. i = n + Len(K) BY <1>4, <1>6, <3>2
      <4>. QED BY <1>1, <1>6, <3>1, <4>1
    <3>3. i \in 1..n BY <1>1, <3>2
    <3>. QED BY <1>3, <1>6, <3>1, <3>3
  <2>. QED BY <1>1, <2>1, <2>2
<1>. QED BY <1>2, <1>5, <1>6 DEF Lined, L

NoMpds(J) == \A i \in 1..Len(J) : ~IsMpd(J[i])
OnlyLast(J, job) == \A i \in 1..Len(J) : IsMpd(J[i]) => i = Len(J) /\ J[i] = job

LEMMA NoneJoin ==
    ASSUME NEW J \in Seq(JobType), NEW K \in Seq(JobType), NoMpds(J)
    PROVE  /\ NoMpds(K) => NoMpds(J \o K)
           /\ \A job : OnlyLast(K, job) => OnlyLast(J \o K, job)
<1>. DEFINE L == J \o K
            n == Len(J)
<1>1. /\ n \in Nat /\ Len(K) \in Nat /\ Len(L) = n + Len(K)
      /\ \A i \in 1..n : L[i] = J[i]
      /\ \A i \in 1..Len(K) : L[n + i] = K[i]
  OBVIOUS
<1>. HIDE DEF L
<1>2. ASSUME NEW i \in 1..Len(L), IsMpd(L[i]) PROVE \E j \in 1..Len(K) : i = n + j /\ L[i] = K[j]
  <2>1. i \notin 1..n BY <1>1, <1>2 DEF NoMpds
  <2>2. i - n \in 1..Len(K) /\ i = n + (i - n) BY <1>1, <2>1
  <2>. QED BY <1>1, <2>2
<1>. HIDE DEF n
<1>3. NoMpds(K) => NoMpds(L) BY <1>2 DEF NoMpds
<1>4. ASSUME NEW job, OnlyLast(K, job) PROVE OnlyLast(L, job)
  <2>. SUFFICES ASSUME NEW i \in 1..Len(L), IsMpd(L[i]) PROVE i = Len(L) /\ L[i] = job
    BY DEF OnlyLast
  <2>1. PICK j \in 1..Len(K) : i = n + j /\ L[i] = K[j] BY <1>2
  <2>2. j = Len(K) /\ K[j] = job BY <1>4, <2>1 DEF OnlyLast
  <2>. QED BY <1>1, <2>1, <2>2
<1>. QED BY <1>3, <1>4 DEF L

LEMMA NoneParts ==
    /\ \A k \in Nat : NoMpds(Segments(k))
    /\ \A s \in Seq(1..MaxSeg) : NoMpds(Deletes(s))
    /\ NoMpds(<<DelMpd>>) /\ NoMpds(<<>>) /\ \A g : NoMpds(<<InitJob(g)>>)
    /\ \A job : OnlyLast(<<job>>, job)
<1>1. ASSUME NEW k \in Nat PROVE NoMpds(Segments(k))
  <2>1. Len(Segments(k)) = k /\ \A i \in 1..k : Segments(k)[i] = SegJob(feed.gen, feed.next + i - 1)
    BY DEF Segments
  <2>. QED BY <2>1 DEF NoMpds, SegJob, IsMpd
<1>2. ASSUME NEW s \in Seq(1..MaxSeg) PROVE NoMpds(Deletes(s))
  <2>1. Len(Deletes(s)) = Len(s) /\ \A i \in 1..Len(s) : Deletes(s)[i] = DelSeg(s[i])
    BY DeletesTyped
  <2>2. \A n : ~IsMpd(DelSeg(n)) BY DEF DelSeg, IsMpd
  <2>. QED BY <2>1, <2>2 DEF NoMpds
<1>3. NoMpds(<<DelMpd>>) BY DEF NoMpds, DelMpd, IsMpd
<1>4. NoMpds(<<>>) BY DEF NoMpds
<1>5. ASSUME NEW g PROVE NoMpds(<<InitJob(g)>>) BY DEF NoMpds, InitJob, IsMpd
<1>6. ASSUME NEW job PROVE OnlyLast(<<job>>, job) BY DEF OnlyLast
<1>. QED BY <1>1, <1>2, <1>3, <1>4, <1>5, <1>6

LEMMA AddOnlyLast ==
    ASSUME Feeds(feed), feed.live, feed.ready, NEW k \in Nat, k # 0, feed.next + k <= MaxSeg + 1
    PROVE  LET job == MpdJob(feed.gen, Window(feed.next + k))
               K == Segments(k) \o (Deletes(Slides(k)) \o <<job>>)
           IN  K \in Seq(JobType) /\ OnlyLast(K, job)
<1>. DEFINE job == MpdJob(feed.gen, Window(feed.next + k))
            A == Segments(k)
            B == Deletes(Slides(k))
            K == A \o (B \o <<job>>)
<1>1. A \in Seq(JobType) /\ B \in Seq(JobType) /\ <<job>> \in Seq(JobType) /\ Slides(k) \in Seq(1..MaxSeg)
      /\ K \in Seq(JobType)
  BY AddTyped, AddMore
<1>2. NoMpds(A) /\ NoMpds(B) /\ OnlyLast(<<job>>, job) BY <1>1, NoneParts
<1>. HIDE DEF job, A, B
<1>3. B \o <<job>> \in Seq(JobType) /\ OnlyLast(B \o <<job>>, job) BY <1>1, <1>2, NoneJoin, Join
<1>4. OnlyLast(K, job) BY <1>1, <1>2, <1>3, NoneJoin
<1>. QED BY <1>1, <1>4 DEF job, A, B

LEMMA RotateNone ==
    ASSUME Feeds(feed), feed.live, NEW k \in Nat, feed.gen < MaxGen, feed.next + k <= MaxSeg + 1,
           NEW ready \in BOOLEAN
    PROVE  LET old == Run(First(feed.next), feed.next + k - First(feed.next))
               L == IF ready THEN <<InitJob(feed.gen + 1)>> ELSE <<>>
               K == (Segments(k) \o (Deletes(old \o old) \o <<DelMpd>>)) \o L
           IN  K \in Seq(JobType) /\ NoMpds(K)
<1>. DEFINE old == Run(First(feed.next), feed.next + k - First(feed.next))
            A == Segments(k)
            B == Deletes(old \o old)
            C == <<DelMpd>>
            L == IF ready THEN <<InitJob(feed.gen + 1)>> ELSE <<>>
            K == (A \o (B \o C)) \o L
<1>1. A \in Seq(JobType) /\ B \o C \in Seq(JobType) /\ L \in Seq(JobType) BY RotateMore
<1>2. old \o old \in Seq(1..MaxSeg) /\ B \in Seq(JobType) BY RotateTyped
<1>3. NoMpds(A) /\ NoMpds(B) /\ NoMpds(C) /\ NoMpds(L) BY <1>2, NoneParts
<1>4. C \in Seq(JobType)
  <2>1. DelMpd \in JobType BY DEF JobType
  <2>. QED BY <2>1
<1>. HIDE DEF A, B, C, L
<1>5. K \in Seq(JobType) /\ NoMpds(K)
  <2>1. NoMpds(B \o C) BY <1>2, <1>3, <1>4, NoneJoin
  <2>2. A \o (B \o C) \in Seq(JobType) /\ NoMpds(A \o (B \o C)) BY <1>1, <1>3, <2>1, NoneJoin, Join
  <2>. DEFINE M == A \o (B \o C)
  <2>. HIDE DEF M
  <2>3. M \in Seq(JobType) /\ NoMpds(M) BY <2>2 DEF M
  <2>4. M \o L \in Seq(JobType) /\ NoMpds(M \o L) BY <1>1, <1>3, <2>3, NoneJoin, Join
  <2>. QED BY <2>4 DEF M
<1>. QED BY <1>5 DEF A, B, C, L

LEMMA AddLined ==
    ASSUME Feeds(feed), feed.live, feed.ready, NEW k \in Nat, k # 0, feed.next + k <= MaxSeg + 1,
           jobs \in Seq(JobType), NEW m, Lined(jobs, m, feed)
    PROVE  Lined(jobs \o (Segments(k) \o (Deletes(Slides(k))
                                          \o <<MpdJob(feed.gen, Window(feed.next + k))>>)),
                 m, [feed EXCEPT !.next = @ + k])
<1>. DEFINE f == [feed EXCEPT !.next = @ + k]
            w == Window(feed.next + k)
            job == MpdJob(feed.gen, w)
            A == Segments(k)
            B == Deletes(Slides(k))
            K == A \o (B \o <<job>>)
            low == First(feed.next)
            high == First(feed.next + k)
<1>1. /\ feed.gen \in 1..MaxGen /\ feed.next \in Nat /\ feed.next # 0 /\ feed.next \in 1..(MaxSeg + 1)
      /\ low \in 1..feed.next /\ low \in Nat
  BY FeedFacts
<1>2. feed.next + k \in 1..(MaxSeg + 1) /\ feed.next + k \in feed.next..(MaxSeg + 1) /\ feed.next + k > 1
  BY <1>1
<1>3. /\ w \in Seq(1..MaxSeg) /\ high \in 1..(feed.next + k) /\ low <= high /\ high < feed.next + k
      /\ Len(w) = feed.next + k - high
      /\ \A i \in 1..(feed.next + k - high) : w[i] = high + i - 1
  <2>1. low <= high BY <1>1, <1>2, WindowFacts
  <2>2. PICK n \in 1..(MaxSeg + 1) : n = feed.next + k /\ n > 1 BY <1>2
  <2>3. /\ Window(n) \in Seq(1..MaxSeg) /\ First(n) \in 1..n /\ First(n) < n
        /\ Len(Window(n)) = n - First(n)
        /\ \A i \in 1..(n - First(n)) : Window(n)[i] = First(n) + i - 1
    BY <2>2, WindowFacts
  <2>4. w = Window(n) /\ high = First(n) BY <2>2
  <2>. HIDE DEF w, high, low
  <2>5. w \in Seq(1..MaxSeg) /\ high \in 1..n /\ high < n /\ Len(w) = n - high
    BY <2>3, <2>4
  <2>6. \A i \in 1..(n - high) : w[i] = high + i - 1 BY <2>3, <2>4
  <2>. QED BY <1>1, <2>1, <2>2, <2>5, <2>6
<1>4. f.gen = feed.gen /\ f.next = feed.next + k /\ f.live BY Extended
<1>5. First(f.next) = high BY <1>4
<1>6. K \in Seq(JobType) /\ OnlyLast(K, job) BY AddOnlyLast
<1>7. job.gen = feed.gen /\ job.segs = w BY DEF MpdJob
<1>. HIDE DEF f, w, job, A, B, low, high
<1>10. Oldest(job) = high /\ Newest(job) = feed.next + k - 1
  <2>1. 1 \in 1..(feed.next + k - high) /\ feed.next + k - high \in 1..(feed.next + k - high)
    BY <1>1, <1>3
  <2>2. w[1] = high /\ w[feed.next + k - high] = feed.next + k - 1 BY <1>1, <1>3, <2>1
  <2>. QED BY <1>3, <1>7, <2>2 DEF Oldest, Newest
<1>11. Listing(job)
  <2>1. Len(w) # 0 BY <1>1, <1>3
  <2>2. w # <<>> BY <2>1
  <2>. QED BY <1>1, <1>3, <1>7, <2>2 DEF Listing
<1>12. Reached(job, f) BY <1>1, <1>3, <1>4, <1>5, <1>7, <1>10 DEF Reached
<1>13. ASSUME NEW x, Listing(x), Reached(x, feed) PROVE Reached(x, f) /\ Follows(job, x)
  <2>1. x.gen \in Nat /\ Oldest(x) \in Nat /\ Newest(x) \in Nat BY <1>13, ListingFacts
  <2>2. CASE x.gen < feed.gen BY <1>1, <1>4, <1>7, <2>1, <2>2 DEF Reached, Follows
  <2>3. CASE x.gen = feed.gen /\ Oldest(x) <= low /\ Newest(x) < feed.next
    <3>1. Oldest(x) <= high /\ Newest(x) < feed.next + k /\ Newest(x) <= feed.next + k - 1
      BY <1>1, <1>3, <2>1, <2>3
    <3>. QED BY <1>1, <1>4, <1>5, <1>7, <1>10, <2>3, <3>1 DEF Reached, Follows
  <2>. QED BY <1>13, <2>2, <2>3 DEF Reached, low
<1>14. \A i \in 1..Len(K) : IsMpd(K[i]) =>
          /\ i = Len(K) /\ Listing(K[i]) /\ Reached(K[i], f)
          /\ \A x : Listing(x) /\ Reached(x, feed) => Follows(K[i], x)
  BY <1>6, <1>11, <1>12, <1>13 DEF OnlyLast
<1>. HIDE DEF K
<1>15. Lined(jobs \o K, m, f) BY <1>6, <1>13, <1>14, LinedJoin
<1>. QED BY <1>15 DEF K, A, B, job, w, f

LEMMA NoneLined ==
    ASSUME NEW K \in Seq(JobType), NoMpds(K), NEW f, Feeds(f), f.live,
           f.gen > feed.gen \/ (f.gen = feed.gen /\ f.next = feed.next),
           Feeds(feed), feed.live, jobs \in Seq(JobType), NEW m, Lined(jobs, m, feed)
    PROVE  Lined(jobs \o K, m, f)
<1>1. ASSUME NEW x, Listing(x), Reached(x, feed) PROVE Reached(x, f)
  <2>1. x.gen \in Nat /\ f.gen \in Nat /\ feed.gen \in Nat BY <1>1, ListingFacts, FeedFacts
  <2>. QED BY <1>1, <2>1 DEF Reached
<1>. QED BY <1>1, LinedJoin DEF NoMpds

LEMMA OpenFacts ==
    ASSUME dir \in DirType, Open
    PROVE  dir' \in DirType /\ dir'.mpd \in {NoMpd, dir.mpd} /\ jobs' = <<>>
<1>. DEFINE e == [dir EXCEPT !.lost = TRUE]
<1>1. e \in DirType /\ e.mpd = dir.mpd BY LostFacts
<1>. HIDE DEF e
<1>2. EmptyDir \in DirType /\ EmptyDir.mpd = NoMpd BY EmptyFacts DEF EmptyDir
<1>3. dir' \in {EmptyDir, e} /\ jobs' = <<>> BY DEF Open, e
<1>. QED BY <1>1, <1>2, <1>3

LEMMA OrderedStep ==
    ASSUME FilesTypeOK, Ordered, [FilesNext]_fileVars
    PROVE  Ordered' /\ (dir.mpd # NoMpd /\ dir'.mpd # NoMpd => Follows(dir'.mpd, dir.mpd))
<1>1. dir \in DirType /\ jobs \in Seq(JobType) /\ Lined(jobs, dir.mpd, feed)
  BY DEF FilesTypeOK, Ordered
<1>2. dir.mpd # NoMpd => Follows(dir.mpd, dir.mpd) BY <1>1, FollowsItself DEF Lined
<1>. SUFFICES /\ Lined(jobs', dir'.mpd, feed')
              /\ dir.mpd # NoMpd /\ dir'.mpd # NoMpd => Follows(dir'.mpd, dir.mpd)
  BY DEF Ordered
<1>3. CASE Open
  <2>1. PICK g \in FirstGen : feed' = New(g) /\ dir.mpd.gen < g BY <1>3 DEF Open
  <2>2. dir'.mpd \in {NoMpd, dir.mpd} /\ jobs' = <<>> BY <1>1, <1>3, OpenFacts
  <2>3. dir.mpd # NoMpd => Reached(dir.mpd, New(g)) BY <2>1 DEF Reached, New, Off
  <2>. QED BY <1>1, <1>2, <2>1, <2>2, <2>3 DEF Lined
<1>11. CASE Wipe
  <2>1. dir'.mpd \in {NoMpd, dir.mpd} /\ jobs' = jobs /\ feed' = feed BY <1>1, <1>11, FewerFacts DEF Wipe
  <2>. QED BY <1>1, <1>2, <2>1, LinedGone
<1>4. CASE Prepare
  <2>. DEFINE K == <<InitJob(feed.gen)>>
  <2>1. Feeds(feed) /\ feed.live /\ ~feed.ready /\ feed' = [feed EXCEPT !.ready = TRUE] /\ dir' = dir
    BY <1>4 DEF Prepare, Goes, FilesTypeOK, Feeds
  <2>2. jobs' = jobs \o K BY <1>1, <1>4 DEF Prepare
  <2>3. K \in Seq(JobType) /\ Feeds(feed') /\ feed'.live BY <2>1, PrepareMore
  <2>4. feed'.gen = feed.gen /\ feed'.next = feed.next BY <2>1 DEF Feeds, FeedType
  <2>5. NoMpds(K) BY NoneParts
  <2>. HIDE DEF K
  <2>6. Lined(jobs \o K, dir.mpd, feed') BY <1>1, <2>1, <2>3, <2>4, <2>5, NoneLined
  <2>. QED BY <1>2, <2>1, <2>2, <2>6
<1>5. ASSUME NEW k \in 1..MaxBatch, Add(k)
      PROVE  /\ Lined(jobs', dir'.mpd, feed')
             /\ dir.mpd # NoMpd /\ dir'.mpd # NoMpd => Follows(dir'.mpd, dir.mpd)
  <2>. DEFINE f == [feed EXCEPT !.next = @ + k]
              K == Segments(k) \o (Deletes(Slides(k)) \o <<MpdJob(feed.gen, Window(feed.next + k))>>)
  <2>1. /\ Feeds(feed) /\ feed.live /\ feed.ready /\ k \in Nat /\ k # 0
        /\ feed.next + k <= MaxSeg + 1
        /\ jobs' = jobs \o K /\ feed' = f /\ dir' = dir
    BY <1>5, AddJobs
  <2>2. Lined(jobs \o K, dir.mpd, f) BY <1>1, <2>1, AddLined
  <2>. QED BY <1>2, <2>1, <2>2
<1>6. ASSUME NEW k \in 0..MaxBatch, NEW ready \in BOOLEAN, Rotate(k, ready)
      PROVE  /\ Lined(jobs', dir'.mpd, feed')
             /\ dir.mpd # NoMpd /\ dir'.mpd # NoMpd => Follows(dir'.mpd, dir.mpd)
  <2>. DEFINE old == Run(First(feed.next), feed.next + k - First(feed.next))
              A == Segments(k)
              B == Deletes(old \o old)
              C == <<DelMpd>>
              L == IF ready THEN <<InitJob(feed.gen + 1)>> ELSE <<>>
              K == (A \o (B \o C)) \o L
              f == [New(feed.gen + 1) EXCEPT !.ready = ready]
  <2>1. /\ Feeds(feed) /\ feed.live /\ k \in Nat /\ feed.gen < MaxGen
        /\ feed.next + k <= MaxSeg + 1
        /\ jobs' = jobs \o K /\ feed' = f /\ dir' = dir
    BY <1>6, RotateJobs
  <2>2. /\ A \in Seq(JobType) /\ B \o C \in Seq(JobType) /\ L \in Seq(JobType)
        /\ Feeds(f) /\ f.live
    BY <2>1, RotateMore
  <2>3. f.gen > feed.gen
    <3>1. f.gen = feed.gen + 1 BY DEF New, Off
    <3>2. feed.gen \in Nat BY <2>1, FeedFacts
    <3>. HIDE DEF f
    <3>. QED BY <3>1, <3>2
  <2>7. K \in Seq(JobType) /\ NoMpds(K) BY <2>1, RotateNone
  <2>. HIDE DEF K
  <2>8. Lined(jobs \o K, dir.mpd, f) BY <1>1, <2>1, <2>2, <2>3, <2>7, NoneLined
  <2>. QED BY <1>2, <2>1, <2>8
<1>7. CASE End
  <2>1. feed' = Off /\ dir' = dir BY <1>7 DEF End
  <2>2. jobs' = jobs \/ \E k \in 0..Len(jobs) : jobs' = SubSeq(jobs, 1, k) BY <1>7 DEF End
  <2>3. Lined(jobs', dir.mpd, feed) BY <1>1, <2>2, LinedCut
  <2>. QED BY <1>2, <2>1, <2>3, LinedOff, OffFacts
<1>8. CASE Do
  <2>1. jobs # <<>> /\ dir' = After(dir, jobs[1]) /\ jobs' = Tail(jobs) /\ feed' = feed
    BY <1>1, <1>8 DEF Do
  <2>2. jobs[1] \in JobType BY <1>1, <2>1
  <2>3. CASE IsMpd(jobs[1])
    <3>1. dir'.mpd = [gen |-> jobs[1].gen, segs |-> jobs[1].segs] BY <1>1, <2>1, <2>2, <2>3, JobFacts
    <3>. QED BY <1>1, <2>1, <2>3, <3>1, LinedOn
  <2>4. CASE ~IsMpd(jobs[1])
    <3>1. dir'.mpd \in {NoMpd, dir.mpd} BY <1>1, <2>1, <2>2, <2>4, JobFacts
    <3>2. Lined(jobs', dir.mpd, feed) BY <1>1, <2>1, LinedTail
    <3>. QED BY <1>2, <2>1, <3>1, <3>2, LinedGone
  <2>. QED BY <2>3, <2>4
<1>9. CASE Fail
  <2>1. jobs # <<>> /\ dir'.mpd = dir.mpd /\ jobs' = Tail(jobs) /\ feed' = feed
    BY <1>1, <1>9 DEF Fail, DirType
  <2>2. Lined(jobs', dir.mpd, feed) BY <1>1, <2>1, LinedTail
  <2>. QED BY <1>2, <2>1, <2>2
<1>10. CASE UNCHANGED fileVars BY <1>1, <1>2, <1>10 DEF fileVars
<1>. QED BY <1>3, <1>4, <1>5, <1>6, <1>7, <1>8, <1>9, <1>10, <1>11 DEF FilesNext

\* Every manifest of J is of a generation in X.
Named(J, X) == \A i \in DOMAIN J : IsMpd(J[i]) => J[i].gen \in X

LEMMA NamedJoin ==
    ASSUME NEW J \in Seq(JobType), NEW K \in Seq(JobType), NEW X, Named(J, X),
           \A i \in 1..Len(K) : IsMpd(K[i]) => K[i].gen \in X
    PROVE  Named(J \o K, X)
<1>. DEFINE L == J \o K
            n == Len(J)
<1>1. /\ n \in Nat /\ Len(K) \in Nat /\ DOMAIN L = 1..(n + Len(K)) /\ DOMAIN J = 1..n
      /\ \A i \in 1..n : L[i] = J[i]
      /\ \A i \in 1..Len(K) : L[n + i] = K[i]
  OBVIOUS
<1>. HIDE DEF L
<1>2. ASSUME NEW i \in DOMAIN L, IsMpd(L[i]) PROVE L[i].gen \in X
  <2>1. CASE i \in 1..n BY <1>1, <1>2, <2>1 DEF Named
  <2>2. CASE i \notin 1..n
    <3>1. i - n \in 1..Len(K) /\ i = n + (i - n) BY <1>1, <2>2
    <3>. QED BY <1>1, <1>2, <3>1
  <2>. QED BY <2>1, <2>2
<1>. QED BY <1>2 DEF Named, L

LEMMA NamedLess ==
    ASSUME NEW J \in Seq(JobType), NEW X, Named(J, X)
    PROVE  /\ J # <<>> => Named(Tail(J), X)
           /\ \A k \in 0..Len(J) : Named(SubSeq(J, 1, k), X)
<1>1. ASSUME J # <<>> PROVE Named(Tail(J), X)
  <2>1. /\ DOMAIN J = 1..Len(J) /\ DOMAIN Tail(J) = 1..Len(Tail(J)) /\ Len(Tail(J)) \in Nat
        /\ Len(J) = Len(Tail(J)) + 1 /\ \A i \in DOMAIN Tail(J) : Tail(J)[i] = J[i + 1]
    BY <1>1
  <2>2. \A i \in DOMAIN Tail(J) : i + 1 \in DOMAIN J BY <2>1
  <2>. QED BY <2>1, <2>2 DEF Named
<1>2. ASSUME NEW k \in 0..Len(J) PROVE Named(SubSeq(J, 1, k), X)
  <2>1. /\ DOMAIN J = 1..Len(J) /\ DOMAIN SubSeq(J, 1, k) = 1..k
        /\ \A i \in DOMAIN SubSeq(J, 1, k) : SubSeq(J, 1, k)[i] = J[i]
    OBVIOUS
  <2>2. \A i \in DOMAIN SubSeq(J, 1, k) : i \in DOMAIN J BY <2>1
  <2>. QED BY <2>1, <2>2 DEF Named
<1>. QED BY <1>1, <1>2

\* A manifest is of a generation that one was of before, or the packager's.
Names(d, J, X) == (d.mpd = NoMpd \/ d.mpd.gen \in X) /\ Named(J, X)

LEMMA NamedStep ==
    ASSUME FilesTypeOK, [FilesNext]_fileVars, NEW X, feed.live => feed.gen \in X, Names(dir, jobs, X)
    PROVE  Names(dir', jobs', X)
<1>1. dir \in DirType /\ jobs \in Seq(JobType) /\ (dir.mpd = NoMpd \/ dir.mpd.gen \in X) /\ Named(jobs, X)
  BY DEF FilesTypeOK, Names
<1>2. CASE Open
  <2>1. dir'.mpd \in {NoMpd, dir.mpd} /\ jobs' = <<>> BY <1>1, <1>2, OpenFacts
  <2>. QED BY <1>1, <2>1 DEF Names, Named
<1>10. CASE Wipe
  <2>1. dir'.mpd \in {NoMpd, dir.mpd} /\ jobs' = jobs BY <1>1, <1>10, FewerFacts DEF Wipe
  <2>. QED BY <1>1, <2>1 DEF Names
<1>3. CASE Prepare
  <2>1. Feeds(feed) /\ feed.live /\ ~feed.ready /\ dir' = dir
    BY <1>3 DEF Prepare, Goes, FilesTypeOK, Feeds
  <2>2. jobs' = jobs \o <<InitJob(feed.gen)>> BY <1>1, <1>3 DEF Prepare
  <2>3. <<InitJob(feed.gen)>> \in Seq(JobType) BY <2>1, PrepareMore
  <2>4. NoMpds(<<InitJob(feed.gen)>>) BY NoneParts
  <2>5. Named(jobs', X) BY <1>1, <2>2, <2>3, <2>4, NamedJoin DEF NoMpds
  <2>. QED BY <1>1, <2>1, <2>5 DEF Names
<1>4. ASSUME NEW k \in 1..MaxBatch, Add(k) PROVE Names(dir', jobs', X)
  <2>. DEFINE job == MpdJob(feed.gen, Window(feed.next + k))
              K == Segments(k) \o (Deletes(Slides(k)) \o <<job>>)
  <2>1. /\ Feeds(feed) /\ feed.live /\ feed.ready /\ k \in Nat /\ k # 0
        /\ feed.next + k <= MaxSeg + 1 /\ jobs' = jobs \o K /\ dir' = dir
    BY <1>4, AddJobs
  <2>2. K \in Seq(JobType) /\ OnlyLast(K, job) BY <2>1, AddOnlyLast
  <2>3. job.gen = feed.gen BY DEF MpdJob
  <2>. HIDE DEF K, job
  <2>4. Named(jobs', X) BY <1>1, <2>1, <2>2, <2>3, NamedJoin DEF OnlyLast
  <2>. QED BY <1>1, <2>1, <2>4 DEF Names
<1>5. ASSUME NEW k \in 0..MaxBatch, NEW ready \in BOOLEAN, Rotate(k, ready) PROVE Names(dir', jobs', X)
  <2>. DEFINE old == Run(First(feed.next), feed.next + k - First(feed.next))
              L == IF ready THEN <<InitJob(feed.gen + 1)>> ELSE <<>>
              K == (Segments(k) \o (Deletes(old \o old) \o <<DelMpd>>)) \o L
  <2>1. /\ Feeds(feed) /\ feed.live /\ k \in Nat /\ feed.gen < MaxGen
        /\ feed.next + k <= MaxSeg + 1 /\ jobs' = jobs \o K /\ dir' = dir
    BY <1>5, RotateJobs
  <2>2. K \in Seq(JobType) /\ NoMpds(K) BY <2>1, RotateNone
  <2>. HIDE DEF K
  <2>3. Named(jobs', X) BY <1>1, <2>1, <2>2, NamedJoin DEF NoMpds
  <2>. QED BY <1>1, <2>1, <2>3 DEF Names
<1>6. CASE End
  <2>1. dir' = dir BY <1>6 DEF End
  <2>2. jobs' = jobs \/ \E k \in 0..Len(jobs) : jobs' = SubSeq(jobs, 1, k) BY <1>6 DEF End
  <2>3. Named(jobs', X) BY <1>1, <2>2, NamedLess
  <2>. QED BY <1>1, <2>1, <2>3 DEF Names
<1>7. CASE Do
  <2>1. jobs # <<>> /\ dir' = After(dir, jobs[1]) /\ jobs' = Tail(jobs) BY <1>1, <1>7 DEF Do
  <2>2. jobs[1] \in JobType /\ 1 \in DOMAIN jobs BY <1>1, <2>1
  <2>3. Named(jobs', X) BY <1>1, <2>1, NamedLess
  <2>4. CASE IsMpd(jobs[1])
    <3>1. dir'.mpd = [gen |-> jobs[1].gen, segs |-> jobs[1].segs] BY <1>1, <2>1, <2>2, <2>4, JobFacts
    <3>2. dir'.mpd.gen = jobs[1].gen BY <3>1
    <3>. QED BY <1>1, <2>2, <2>3, <2>4, <3>2 DEF Names, Named
  <2>5. CASE ~IsMpd(jobs[1])
    <3>1. dir'.mpd \in {NoMpd, dir.mpd} BY <1>1, <2>1, <2>2, <2>5, JobFacts
    <3>. QED BY <1>1, <2>3, <3>1 DEF Names
  <2>. QED BY <2>4, <2>5
<1>8. CASE Fail
  <2>1. jobs # <<>> /\ dir'.mpd = dir.mpd /\ jobs' = Tail(jobs) BY <1>1, <1>8 DEF Fail, DirType
  <2>2. Named(jobs', X) BY <1>1, <2>1, NamedLess
  <2>. QED BY <1>1, <2>1, <2>2 DEF Names
<1>9. CASE UNCHANGED fileVars BY <1>1, <1>9 DEF fileVars, Names
<1>. QED BY <1>2, <1>3, <1>4, <1>5, <1>6, <1>7, <1>8, <1>9, <1>10 DEF FilesNext

-----------------------------------------------------------------------------
FilesInv == FilesTypeOK /\ Heads /\ Ordered

\* The manifest lists whole segments of the generation of init.mp4.
FilesWhole == ~dir.lost => Whole(dir)

\* Under a packager, a listed segment is missing only while a job on index.mpd
\* is to come.
FilesMended == feed.live /\ ~dir.lost /\ Hole(dir) => \E i \in DOMAIN jobs : OfManifest(jobs[i])

\* Under a packager, a segment file is in the window or about to be deleted.
FilesKept ==
    feed.live /\ ~dir.lost => \A n \in 1..MaxSeg : dir.seg[n] # 0 =>
        \/ dir.seg[n] = feed.gen /\ n \in First(feed.next)..(feed.next - 1)
        \/ \E i \in DOMAIN jobs : jobs[i] = DelSeg(n)

\* A manifest lists at least one segment.
FilesListed == dir.mpd # NoMpd => Listing(dir.mpd)

\* Manifests, on disk or to come, are of the generations that some were of
\* before, or of the packager's: whatever set X of generations one looks at.
FilesNamed ==
    [][\A X \in SUBSET Nat :
          (feed.live => feed.gen \in X) /\ Names(dir, jobs, X) => Names(dir', jobs', X)]_fileVars

\* A manifest that takes the place of another is not older.
FilesAdvance ==
    [][dir.mpd # NoMpd /\ dir'.mpd # NoMpd => Follows(dir'.mpd, dir.mpd)]_fileVars

LEMMA FilesInductive ==
    /\ Init => FilesInv
    /\ FilesInv /\ [FilesNext]_fileVars => FilesInv'
<1>1. Init => FilesInv
  <2>1. Init => Ordered BY DEF Init, EmptyDir, Ordered, Lined
  <2>. QED BY <2>1, FilesInit DEF FilesInv
<1>2. FilesInv /\ [FilesNext]_fileVars => FilesInv' BY FilesStep, OrderedStep DEF FilesInv
<1>. QED BY <1>1, <1>2

LEMMA FilesFollow == FilesInv => FilesWhole /\ FilesMended /\ FilesKept /\ FilesListed
<1>. SUFFICES ASSUME FilesInv PROVE FilesWhole /\ FilesMended /\ FilesKept /\ FilesListed OBVIOUS
<1>0. FilesListed BY DEF FilesInv, Ordered, Lined, FilesListed
<1>1. jobs \in Seq(JobType) /\ dir \in DirType BY DEF FilesInv, FilesTypeOK
<1>2. Len(jobs) \in Nat /\ DOMAIN jobs = 1..Len(jobs) BY <1>1
<1>3. FilesWhole
  <2>. SUFFICES ASSUME ~dir.lost PROVE Whole(dir) BY DEF FilesWhole
  <2>1. PICK st : st[0] = dir /\ \A i \in 0..Len(jobs) : Whole(st[i])
    BY DEF FilesInv, Heads, Safe
  <2>. QED BY <1>2, <2>1
<1>4. ASSUME feed.live, ~dir.lost
      PROVE  \E e \in DirType : Cared(dir, jobs, 0, e) /\ Finished(e, feed)
  <2>1. PICK e \in DirType : Leads(dir, jobs, e) /\ Finished(e, feed)
    BY <1>4 DEF FilesInv, Heads
  <2>2. PICK st : st[0] = dir /\ \A i \in 0..Len(jobs) : Cared(st[i], jobs, i, e)
    BY <2>1 DEF Leads
  <2>. QED BY <1>2, <2>1, <2>2
<1>5. FilesMended
  <2>. SUFFICES ASSUME feed.live, ~dir.lost, Hole(dir) PROVE \E i \in DOMAIN jobs : OfManifest(jobs[i])
    BY DEF FilesMended
  <2>1. Later(jobs, 0) BY <1>4 DEF Cared
  <2>. QED BY <1>2, <2>1 DEF Later
<1>6. FilesKept
  <2>. SUFFICES ASSUME feed.live, ~dir.lost, NEW n \in 1..MaxSeg, dir.seg[n] # 0
                PROVE  \/ dir.seg[n] = feed.gen /\ n \in First(feed.next)..(feed.next - 1)
                       \/ \E i \in DOMAIN jobs : jobs[i] = DelSeg(n)
    BY DEF FilesKept
  <2>1. PICK e \in DirType : Cared(dir, jobs, 0, e) /\ Finished(e, feed) BY <1>4
  <2>2. dir.seg[n] = e.seg[n] \/ Deleted(jobs, 0, n) BY <2>1 DEF Cared
  <2>3. e.seg[n] = IF n \in First(feed.next)..(feed.next - 1) THEN feed.gen ELSE 0
    BY <2>1 DEF Finished
  <2>. QED BY <1>2, <2>2, <2>3 DEF Deleted
<1>. QED BY <1>0, <1>3, <1>5, <1>6

\* What ChannelFiles promises, for any window, lag, batch and number of
\* generations, and whatever file operations fail.
THEOREM FilesPromise ==
    FilesSpec => /\ [](FilesTypeOK /\ FilesWhole /\ FilesMended /\ FilesKept /\ FilesListed)
                 /\ FilesAdvance /\ FilesNamed
<1>1. FilesInv => FilesTypeOK BY DEF FilesInv
<1>2. FilesInv /\ [FilesNext]_fileVars =>
        [dir.mpd # NoMpd /\ dir'.mpd # NoMpd => Follows(dir'.mpd, dir.mpd)]_fileVars
  BY OrderedStep DEF FilesInv
<1>3. FilesInv /\ [FilesNext]_fileVars =>
        [\A X \in SUBSET Nat :
           (feed.live => feed.gen \in X) /\ Names(dir, jobs, X) => Names(dir', jobs', X)]_fileVars
  BY NamedStep DEF FilesInv
<1>. QED BY <1>1, <1>2, <1>3, FilesInductive, FilesFollow, PTL DEF FilesSpec, FilesAdvance, FilesNamed
====
