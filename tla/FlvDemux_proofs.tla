---- MODULE FlvDemux_proofs ----
(***************************************************************************)
(* Proofs about FlvDemux: type correctness, and the two claims on which    *)
(* A/V alignment rests, for all jump limits, lags and timestamps.          *)
(***************************************************************************)
EXTENDS FlvDemux, TLAPS

\* A track that has handed over a sample waits for the successor of its last
\* boundary, past the epoch, and its length is at least the time between.  After
\* a flush nothing waits.
Counts(t) ==
    base[t] # None /\ ~over =>
        /\ epoch # None /\ pending[t] # None /\ pending[t] >= epoch
        /\ last[t] = pending[t] /\ pos[t] >= last[t] - base[t]

IInv == TypeOK /\ (\A t \in Track : Counts(t)) /\ (over => pending = NoTrack)

\* Max2 is the larger of two numbers.
LEMMA Max2Larger == ASSUME NEW a \in Int, NEW b \in Int
                    PROVE  Max2(a, b) \in {a, b} /\ Max2(a, b) >= a /\ Max2(a, b) >= b
  BY DEF Max2

\* A sample keeps the clock well-typed, and an epoch once sealed.
LEMMA NotedKeeps ==
    ASSUME TypeOK, NEW t \in Track, NEW d \in Dts, Noted(t, d)
    PROVE  /\ first' \in [Track -> Dts \cup {None}] /\ epoch' \in Dts \cup {None}
           /\ epoch # None => epoch' = epoch
<1>1. first' \in [Track -> Dts \cup {None}]
  BY DEF TypeOK, Noted, NotedFirst
<1>2. "video" \in Track /\ "audio" \in Track
  BY DEF Track
<1>3. epoch' \in Dts \cup {None}
  <2>1. CASE epoch = None /\ \A u \in Track : first'[u] # None
    <3>1. first'["video"] \in Dts /\ first'["audio"] \in Dts
      BY <1>1, <1>2, <2>1
    <3>2. epoch' = Max2(first'["video"], first'["audio"])
      BY <2>1 DEF Noted, SealedEpoch
    <3> QED BY <3>1, <3>2 DEF Max2
  <2>2. CASE ~(epoch = None /\ \A u \in Track : first'[u] # None)
    BY <2>2 DEF TypeOK, Noted, SealedEpoch
  <2> QED BY <2>1, <2>2
<1>4. epoch # None => epoch' = epoch
  BY DEF Noted, SealedEpoch
<1> QED BY <1>1, <1>3, <1>4

\* The peer's clock stays a timestamp.
LEMMA SendsKeeps == ASSUME TypeOK, NEW d \in Dts, Sends(d)
                    PROVE  newest' \in Dts /\ newest' >= newest /\ newest' >= d
                           /\ ~over /\ over' = FALSE
  BY DemuxAssumption DEF TypeOK, Sends, Dts, Max2

\* The invariant holds initially.
LEMMA InitEstablishes == Init => IInv
<1> SUFFICES ASSUME Init PROVE IInv
  OBVIOUS
<1>1. pending \in [Track -> Dts \cup {None}] /\ first \in [Track -> Dts \cup {None}]
      /\ last \in [Track -> Dts \cup {None}] /\ base \in [Track -> Dts \cup {None}]
  BY DEF Init, NoTrack
<1>2. epoch \in Dts \cup {None} /\ newest \in Dts /\ pending = NoTrack
  BY DemuxAssumption DEF Init, Dts
<1>3. default \in [Track -> Nat \ {0}] /\ pos \in [Track -> Nat] /\ steady \in BOOLEAN /\ over \in BOOLEAN
  BY DemuxAssumption DEF Init
<1>4. \A t \in Track : Counts(t)
  BY DEF Init, NoTrack, Counts
<1> QED BY <1>1, <1>2, <1>3, <1>4 DEF IInv, TypeOK

\* Every step keeps it.
LEMMA NextKeeps == IInv /\ [Next]_vars => IInv'
<1> SUFFICES ASSUME IInv, [Next]_vars PROVE IInv'
  OBVIOUS
<1> USE DemuxAssumption DEF None
<1>1. ASSUME NEW t \in Track, NEW d \in Dts, FirstSample(t, d) PROVE IInv'
  <2>1. first' \in [Track -> Dts \cup {None}] /\ epoch' \in Dts \cup {None}
        /\ (epoch # None => epoch' = epoch) /\ newest' \in Dts /\ ~over /\ over' = FALSE
    BY <1>1, NotedKeeps, SendsKeeps DEF FirstSample, IInv
  <2>2. base[t] = None
    BY <1>1, <2>1 DEF FirstSample, IInv, Counts
  <2>3. TypeOK'
    BY <1>1, <2>1 DEF FirstSample, Waits, IInv, TypeOK
  <2>4. \A u \in Track : Counts(u)'
    BY <1>1, <2>1, <2>2 DEF FirstSample, Waits, IInv, TypeOK, Counts, Dts
  <2> QED BY <2>1, <2>3, <2>4 DEF IInv
<1>2. ASSUME NEW t \in Track, NEW d \in Dts, Discontinuity(t, d) PROVE IInv'
  <2>1. newest' \in Dts /\ ~over /\ over' = FALSE
    BY <1>2, SendsKeeps DEF Discontinuity, IInv
  <2>2. TypeOK'
    BY <1>2, <2>1 DEF Discontinuity, NoTrack, IInv, TypeOK
  <2>3. \A u \in Track : Counts(u)'
    BY <1>2 DEF Discontinuity, NoTrack, Counts
  <2> QED BY <2>1, <2>2, <2>3 DEF IInv
<1>3. ASSUME NEW t \in Track, NEW d \in Dts, Dropped(t, d) PROVE IInv'
  <2>1. first' \in [Track -> Dts \cup {None}] /\ epoch' \in Dts \cup {None}
        /\ (epoch # None => epoch' = epoch) /\ newest' \in Dts /\ ~over /\ over' = FALSE
    BY <1>3, NotedKeeps, SendsKeeps DEF Dropped, IInv
  <2>2. base[t] = None
    BY <1>3, <2>1 DEF Dropped, IInv, Counts, TypeOK, Dts
  <2>3. TypeOK'
    BY <1>3, <2>1 DEF Dropped, Waits, IInv, TypeOK
  <2>4. \A u \in Track : Counts(u)'
    BY <1>3, <2>1, <2>2 DEF Dropped, Waits, IInv, TypeOK, Counts, Dts
  <2> QED BY <2>1, <2>3, <2>4 DEF IInv
<1>4. ASSUME NEW t \in Track, NEW d \in Dts, Completed(t, d) PROVE IInv'
  <2>1. first' \in [Track -> Dts \cup {None}] /\ epoch' \in Dts \cup {None}
        /\ (epoch # None => epoch' = epoch) /\ newest' \in Dts /\ ~over /\ over' = FALSE
    BY <1>4, NotedKeeps, SendsKeeps DEF Completed, IInv
  <2>2. pending[t] \in Dts /\ pending[t] <= d /\ default[t] \in Nat \ {0} /\ pos[t] \in Nat
    BY <1>4 DEF Completed, Jumps, IInv, TypeOK, Dts
  <2> DEFINE dur == Duration(d, pending[t], default[t])
  <2>3. dur \in Nat \ {0} /\ dur >= d - pending[t]
    BY <2>2 DEF Duration, Max2, Dts
  <2>4. /\ pos' = [pos EXCEPT ![t] = pos[t] + dur] /\ default' = [default EXCEPT ![t] = dur]
        /\ base' = [base EXCEPT ![t] = IF base[t] = None THEN pending[t] ELSE base[t]]
        /\ last' = [last EXCEPT ![t] = d] /\ pending' = [pending EXCEPT ![t] = d]
        /\ epoch' # None /\ pending[t] >= epoch' /\ steady' = steady
    BY <1>4 DEF Completed, Waits
  <2> HIDE DEF dur
  <2>5. TypeOK'
    <3>1. pos' \in [Track -> Nat] /\ default' \in [Track -> Nat \ {0}]
      BY <2>2, <2>3, <2>4 DEF IInv, TypeOK
    <3>2. /\ base' \in [Track -> Dts \cup {None}] /\ last' \in [Track -> Dts \cup {None}]
          /\ pending' \in [Track -> Dts \cup {None}]
      BY <2>2, <2>4 DEF IInv, TypeOK
    <3> QED BY <2>1, <2>4, <3>1, <3>2 DEF IInv, TypeOK
  <2>6. Counts(t)'
    BY <2>1, <2>2, <2>3, <2>4 DEF IInv, TypeOK, Counts, Dts
  <2>7. ASSUME NEW u \in Track \ {t} PROVE Counts(u)'
    BY <2>1, <2>4 DEF IInv, TypeOK, Counts
  <2> QED BY <2>1, <2>5, <2>6, <2>7 DEF IInv
<1>5. ASSUME NEW dur \in DefaultDuration, AudioHeader(dur) PROVE IInv'
  BY <1>5 DEF AudioHeader, IInv, TypeOK, Counts
<1>6. ASSUME NEW d \in Dts, Republish(d) PROVE IInv'
  BY <1>6 DEF Republish, NoTrack, IInv, TypeOK, Counts
<1>7. ASSUME NEW d \in Dts, PeerRestarts(d) PROVE IInv'
  BY <1>7 DEF PeerRestarts, IInv, TypeOK, Counts
<1>8. CASE UNCHANGED vars
  BY <1>8 DEF vars, IInv, TypeOK, Counts
<1>9. CASE Flush
  <2>1. ASSUME NEW t \in Track
        PROVE  pos[t] + (IF pending[t] = None THEN 0 ELSE default[t]) \in Nat
    BY DEF IInv, TypeOK
  <2>2. pos' \in [Track -> Nat] BY <1>9, <2>1 DEF Flush
  <2>3. TypeOK' BY <1>9, <2>2 DEF Flush, NoTrack, IInv, TypeOK
  <2> QED BY <1>9, <2>3 DEF Flush, IInv, Counts
<1> QED BY <1>1, <1>2, <1>3, <1>4, <1>5, <1>6, <1>7, <1>8, <1>9 DEF Next

\* Every reachable state satisfies the invariant.
THEOREM Invariant == Spec => []IInv
  BY InitEstablishes, NextKeeps, PTL DEF Spec

\* The variables keep their types.
THEOREM TypeCorrect == Spec => []TypeOK
<1>1. IInv => TypeOK
  BY DEF IInv
<1> QED BY <1>1, Invariant, PTL

\* No sequence of timestamps makes a track shorter than the time it covers.
THEOREM CountsAll == Spec => []NeverUndercounts
<1>1. IInv => NeverUndercounts
  BY DEF IInv, TypeOK, Counts, NoTrack, NeverUndercounts
<1> QED BY <1>1, Invariant, PTL

-----------------------------------------------------------------------------
\* While the peer keeps its clock a track waits with a sample no newer
\* than that clock, an epoch is sealed as soon as both tracks have one, and
\* whoever has not started by then waits close to it.
Reach == Max2(MaxSampleGap, Lag)
Near(t) ==
    /\ first[t] # None => pending[t] # None
    /\ pending[t] <= newest
    /\ epoch # None => first[t] # None
    /\ epoch # None /\ base[t] = None => pending[t] <= epoch + Reach
    /\ base[t] # None => base[t] >= epoch /\ base[t] <= epoch + Reach
AlignInv ==
    /\ IInv
    /\ \A t \in Track : Near(t)
    /\ epoch = None => \E t \in Track : first[t] = None
    /\ ~over
SteadyInv == IInv /\ (steady /\ ~over => AlignInv)

\* Reach covers both bounds it is made of.
LEMMA ReachCovers == Reach \in Nat /\ Reach >= MaxSampleGap /\ Reach >= Lag
  BY DemuxAssumption, Max2Larger DEF Reach

\* A sample of t on an unsealed clock seals it only if it is the first of t
\* and the other track has one, and then close to what that track waits with.
LEMMA NotedSeals ==
    ASSUME AlignInv, NEW t \in Track, NEW d \in Dts, Sends(d), Noted(t, d)
    PROVE  /\ first'[t] # None /\ \A u \in Track \ {t} : first'[u] = first[u]
           /\ epoch = None /\ epoch' = None => \E u \in Track : first'[u] = None
           /\ epoch = None /\ epoch' # None =>
                 /\ first[t] = None /\ epoch' >= d
                 /\ \A u \in Track : first'[u] # None
                 /\ \A u \in Track : pending[u] <= epoch' + Reach
<1> USE DEF None
<1>1. first'[t] # None /\ \A u \in Track \ {t} : first'[u] = first[u]
  BY DEF AlignInv, IInv, TypeOK, Noted, NotedFirst, Dts
<1>2. ASSUME epoch = None, epoch' = None PROVE \E u \in Track : first'[u] = None
  <2> SUFFICES ASSUME \A u \in Track : first'[u] # None PROVE FALSE
    OBVIOUS
  <2>1. first'["video"] \in Dts /\ first'["audio"] \in Dts
    BY NotedKeeps DEF AlignInv, IInv, Track
  <2>2. epoch' = Max2(first'["video"], first'["audio"])
    BY <1>2 DEF Noted, SealedEpoch
  <2> QED BY <1>2, <2>1, <2>2 DEF Max2, Dts
<1>3. ASSUME epoch = None, epoch' # None
      PROVE  /\ first[t] = None /\ epoch' >= d
             /\ \A u \in Track : first'[u] # None
             /\ \A u \in Track : pending[u] <= epoch' + Reach
  <2>1. \A u \in Track : first'[u] # None
    BY <1>3 DEF Noted, SealedEpoch
  <2>2. epoch' = Max2(first'["video"], first'["audio"])
    BY <1>3, <2>1 DEF Noted, SealedEpoch
  <2>3. PICK v \in Track : first[v] = None
    BY <1>3 DEF AlignInv
  <2>4. v = t
    BY <1>1, <2>1, <2>3
  <2>5. first'[t] = d
    BY <2>3, <2>4 DEF Noted, NotedFirst, AlignInv, IInv, TypeOK
  <2>6. first'["video"] \in Dts /\ first'["audio"] \in Dts
    BY <2>1, NotedKeeps DEF AlignInv, IInv, Track
  <2>7. epoch' >= first'["video"] /\ epoch' >= first'["audio"] /\ epoch' \in Nat
    BY <2>2, <2>6 DEF Max2, Dts
  <2>8. epoch' >= d
    BY <2>5, <2>7 DEF Track
  <2>9. ASSUME NEW u \in Track PROVE pending[u] <= epoch' + Reach
    <3>1. pending[u] <= newest /\ pending[u] \in Int /\ newest \in Nat
      BY DEF AlignInv, Near, IInv, TypeOK, Dts
    <3>2. d >= newest - Lag /\ d \in Nat
      BY DEF Sends, Dts
    <3> QED BY <2>7, <2>8, <3>1, <3>2, ReachCovers, DemuxAssumption
  <2> QED BY <2>1, <2>3, <2>4, <2>8, <2>9
<1> QED BY <1>1, <1>2, <1>3

\* A peer that keeps its clock stays aligned, and a rotation aligns any peer.
LEMMA StaysAligned == ASSUME SteadyInv, [Next]_vars PROVE SteadyInv'
<1> USE DemuxAssumption DEF None
<1>0. IInv /\ IInv'
  BY NextKeeps DEF SteadyInv
<1>r. Reach \in Nat /\ Reach >= MaxSampleGap /\ Reach >= Lag
  BY ReachCovers
<1>1. ASSUME NEW t \in Track, NEW d \in Dts, FirstSample(t, d), AlignInv PROVE AlignInv'
  <2>1. newest' >= newest /\ newest' >= d /\ newest' \in Dts /\ ~over /\ over' = FALSE
    BY <1>1, SendsKeeps DEF FirstSample, AlignInv, IInv
  <2>2. base' = base /\ pending' = [pending EXCEPT ![t] = d] /\ pending[t] = None
    BY <1>1 DEF FirstSample, Waits
  <2>3. first[t] = None /\ epoch = None /\ \A u \in Track : base[u] = None
    BY <1>1, <2>2 DEF AlignInv, Near, IInv, Counts
  <2>4. /\ \A u \in Track \ {t} : first'[u] = first[u]
        /\ epoch' = None => \E u \in Track : first'[u] = None
        /\ epoch' # None => epoch' >= d /\ \A u \in Track : first'[u] # None
        /\ epoch' # None => \A u \in Track : pending[u] <= epoch' + Reach
    BY <1>1, <2>3, NotedSeals DEF FirstSample
  <2>5. ASSUME NEW u \in Track PROVE Near(u)'
    <3>1. (first'[u] # None => pending'[u] # None) /\ pending'[u] <= newest'
      BY <1>1, <2>1, <2>2, <2>4 DEF AlignInv, Near, IInv, TypeOK, Dts
    <3>2. epoch' # None => pending'[u] <= epoch' + Reach
      BY <1>1, <1>0, <1>r, <2>2, <2>4 DEF AlignInv, IInv, TypeOK, Dts
    <3> QED BY <2>2, <2>3, <2>4, <3>1, <3>2 DEF Near, Reach
  <2> QED BY <1>1, <1>0, <2>1, <2>4, <2>5 DEF AlignInv
<1>2. ASSUME NEW t \in Track, NEW d \in Dts, Discontinuity(t, d) PROVE AlignInv'
  <2>1. newest' >= d /\ newest' \in Dts /\ over' = FALSE
    BY <1>0, <1>2, SendsKeeps DEF Discontinuity, IInv
  <2>2. /\ first' = [NoTrack EXCEPT ![t] = d] /\ pending' = [NoTrack EXCEPT ![t] = d]
        /\ base' = NoTrack /\ epoch' = None
    BY <1>2 DEF Discontinuity
  <2>3. \A u \in Track : Near(u)'
    BY <2>1, <2>2 DEF Near, NoTrack, Dts
  <2>4. \E u \in Track : first'[u] = None
    <3>1. PICK u \in Track : u # t
      BY DEF Track
    <3> QED BY <2>2, <3>1 DEF NoTrack
  <2> QED BY <1>0, <2>1, <2>3, <2>4 DEF AlignInv
<1>3. ASSUME NEW t \in Track, NEW d \in Dts, Dropped(t, d), AlignInv PROVE AlignInv'
  <2>1. newest' >= newest /\ newest' >= d /\ newest' \in Dts /\ ~over /\ over' = FALSE
    BY <1>3, SendsKeeps DEF Dropped, AlignInv, IInv
  <2>2. /\ base' = base /\ pending' = [pending EXCEPT ![t] = d] /\ pending[t] # None
        /\ d <= pending[t] + MaxSampleGap /\ (epoch' = None \/ pending[t] < epoch')
    BY <1>3 DEF Dropped, Waits, Jumps, AlignInv, IInv, TypeOK, Dts
  <2>3. /\ first'[t] # None
        /\ \A u \in Track \ {t} : first'[u] = first[u]
        /\ epoch = None /\ epoch' = None => \E u \in Track : first'[u] = None
        /\ epoch = None /\ epoch' # None =>
              (\A u \in Track : first'[u] # None /\ pending[u] <= epoch' + Reach)
        /\ epoch # None => epoch' = epoch
    BY <1>3, NotedSeals, NotedKeeps DEF Dropped, AlignInv, IInv
  <2>4. base[t] = None
    BY <1>3, <2>2, <2>3 DEF AlignInv, IInv, TypeOK, Counts, Dts
  <2>5. ASSUME NEW u \in Track PROVE Near(u)'
    <3>1. (first'[u] # None => pending'[u] # None) /\ pending'[u] <= newest'
      BY <1>3, <2>1, <2>2, <2>3 DEF AlignInv, Near, IInv, TypeOK, Dts
    <3>2. epoch' # None => first'[u] # None
      BY <1>3, <2>3 DEF AlignInv, Near
    <3>3. epoch' # None /\ base'[u] = None => pending'[u] <= epoch' + Reach
      BY <1>3, <1>0, <1>r, <2>2, <2>3 DEF AlignInv, Near, IInv, TypeOK, Dts
    <3>4. base'[u] # None => base'[u] >= epoch' /\ base'[u] <= epoch' + Reach
      BY <1>3, <2>2, <2>3 DEF AlignInv, Near, IInv, Counts
    <3> QED BY <3>1, <3>2, <3>3, <3>4 DEF Near, Reach
  <2> QED BY <1>3, <1>0, <2>1, <2>3, <2>5 DEF AlignInv
<1>4. ASSUME NEW t \in Track, NEW d \in Dts, Completed(t, d), AlignInv PROVE AlignInv'
  <2>1. newest' >= newest /\ newest' >= d /\ newest' \in Dts /\ ~over /\ over' = FALSE
    BY <1>4, SendsKeeps DEF Completed, AlignInv, IInv
  <2>2. /\ base' = [base EXCEPT ![t] = IF base[t] = None THEN pending[t] ELSE base[t]]
        /\ pending' = [pending EXCEPT ![t] = d] /\ pending[t] # None
        /\ epoch' # None /\ pending[t] >= epoch'
    BY <1>4 DEF Completed, Waits
  <2>3. /\ first'[t] # None
        /\ \A u \in Track \ {t} : first'[u] = first[u]
        /\ epoch = None =>
              (\A u \in Track : first'[u] # None /\ pending[u] <= epoch' + Reach)
        /\ epoch # None => epoch' = epoch
    BY <1>4, <2>2, NotedSeals, NotedKeeps DEF Completed, AlignInv, IInv
  <2>4. epoch = None => \A u \in Track : base[u] = None
    BY <1>4 DEF AlignInv, IInv, Counts
  <2>5. ASSUME NEW u \in Track PROVE Near(u)'
    <3>1. (first'[u] # None => pending'[u] # None) /\ pending'[u] <= newest'
      BY <1>4, <2>1, <2>2, <2>3 DEF AlignInv, Near, IInv, TypeOK, Dts
    <3>2. first'[u] # None
      BY <1>4, <2>2, <2>3 DEF AlignInv, Near
    <3>3. base'[u] = None => pending'[u] <= epoch' + Reach
      BY <1>4, <2>2, <2>3, <2>4 DEF AlignInv, Near, IInv, TypeOK, Dts
    <3>4. base'[u] # None => base'[u] >= epoch' /\ base'[u] <= epoch' + Reach
      BY <1>4, <2>2, <2>3, <2>4 DEF AlignInv, Near, IInv, TypeOK, Dts
    <3> QED BY <3>1, <3>2, <3>3, <3>4 DEF Near, Reach
  <2> QED BY <1>4, <1>0, <2>1, <2>2, <2>5 DEF AlignInv
<1>5. ASSUME NEW dur \in DefaultDuration, AudioHeader(dur), AlignInv PROVE AlignInv'
  BY <1>0, <1>5 DEF AudioHeader, AlignInv, Near, Reach
<1>6. ASSUME UNCHANGED vars, AlignInv PROVE AlignInv'
  BY <1>0, <1>6 DEF vars, AlignInv, Near, Reach
<1>7. ASSUME steady', ~over' PROVE AlignInv'
  <2>1. ASSUME NEW t \in Track, NEW d \in Dts,
               FirstSample(t, d) \/ Dropped(t, d) \/ Completed(t, d)
        PROVE  AlignInv'
    <3>1. AlignInv
      BY <1>7, <2>1 DEF SteadyInv, FirstSample, Dropped, Completed, Sends
    <3> QED BY <1>1, <1>3, <1>4, <2>1, <3>1
  <2>2. ASSUME NEW dur \in DefaultDuration, AudioHeader(dur) PROVE AlignInv'
    <3>1. AlignInv
      BY <1>7, <2>2 DEF SteadyInv, AudioHeader
    <3> QED BY <1>5, <2>2, <3>1
  <2>3. ASSUME NEW d \in Dts, Republish(d) \/ PeerRestarts(d) PROVE FALSE
    BY <1>7, <2>3 DEF Republish, PeerRestarts
  <2>4. ASSUME UNCHANGED vars PROVE AlignInv'
    <3>1. AlignInv
      BY <1>7, <2>4 DEF SteadyInv, vars
    <3> QED BY <1>6, <2>4, <3>1
  <2>5. ASSUME Flush PROVE FALSE
    BY <1>7, <2>5 DEF Flush
  <2> QED BY <1>2, <2>1, <2>2, <2>3, <2>4, <2>5 DEF Next
<1> QED BY <1>0, <1>7 DEF SteadyInv

\* While the peer keeps its clock, and after any rotation again, both tracks
\* start within MaxSampleGap or its own lag: no permanent A/V offset beyond that.
THEOREM AlignedStart == Spec => []StartsTogether
<1>1. Init => SteadyInv
  <2> SUFFICES ASSUME Init PROVE SteadyInv
    OBVIOUS
  <2>1. "video" \in Track
    BY DEF Track
  <2>2. \A t \in Track : Near(t)
    BY DEF Init, Near, NoTrack, None
  <2> QED BY <2>1, <2>2, InitEstablishes DEF Init, SteadyInv, AlignInv, NoTrack
<1>2. SteadyInv /\ [Next]_vars => SteadyInv'
  BY StaysAligned
<1>3. SteadyInv => StartsTogether
  <2>1. ASSUME AlignInv, NEW t \in Track, NEW u \in Track, base[t] # None, base[u] # None
        PROVE  base[t] - base[u] <= Max2(MaxSampleGap, Lag)
    BY <2>1, ReachCovers DEF AlignInv, Near, IInv, TypeOK, Counts, Dts, None, Reach
  <2> QED BY <2>1 DEF SteadyInv, StartsTogether
<1> QED BY <1>1, <1>2, <1>3, PTL DEF Spec

-----------------------------------------------------------------------------
\* A new boundary comes with a sample handed over, whose duration is not 0:
\* equal timestamps take the default duration, and others their distance.
LEMMA StepMonotone ==
    ASSUME IInv, [Next]_vars, NEW u \in Track, base'[u] # None, last'[u] # last[u]
    PROVE  pos'[u] > pos[u]
<1>1. ASSUME NEW t \in Track, NEW d \in Dts, Completed(t, d) PROVE pos'[u] > pos[u]
  <2>1. pending[t] \in Dts /\ pending[t] <= d /\ default[t] \in Nat \ {0} /\ pos[t] \in Nat
    BY <1>1, DemuxAssumption DEF Completed, Jumps, IInv, TypeOK, Dts, None
  <2> DEFINE dur == Duration(d, pending[t], default[t])
  <2>2. dur \in Nat \ {0} BY <2>1, DemuxAssumption DEF Duration, Max2, Dts
  <2>3. pos' = [pos EXCEPT ![t] = pos[t] + dur] /\ last' = [last EXCEPT ![t] = d]
    BY <1>1 DEF Completed
  <2> HIDE DEF dur
  <2>4. u = t BY <2>3
  <2> QED BY <2>1, <2>2, <2>3, <2>4 DEF IInv, TypeOK
<1>2. ASSUME NEW t \in Track, NEW d \in Dts, Discontinuity(t, d) PROVE FALSE
  BY <1>2 DEF Discontinuity, NoTrack
<1>3. ASSUME last' = last PROVE FALSE BY <1>3
<1> QED BY <1>1, <1>2, <1>3 DEF Next, FirstSample, Dropped, AudioHeader, Flush, Republish, PeerRestarts, vars

\* architecture.md:67: on each track tfdt grows strictly within a generation,
\* whatever timestamps the peer sends and however it restarts its clock.
THEOREM TimelineGrows == Spec => MonotoneTimeline
<1>1. IInv /\ [Next]_vars =>
        [\A t \in Track : base'[t] # None /\ last'[t] # last[t] => pos'[t] > pos[t]]_vars
  BY StepMonotone
<1> QED BY <1>1, Invariant, PTL DEF Spec, MonotoneTimeline
====
