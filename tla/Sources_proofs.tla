---- MODULE Sources_proofs ----
(***************************************************************************)
(* Theorems about Sources for any number of sessions, workers and channels *)
(* and any timers, checked with the TLA+ proof system.                     *)
(***************************************************************************)
EXTENDS Sources, TLAPS

\* What ties a source to the registry, strong enough to be kept by each step:
\* a guard holds a registered lease, a grant is registered and differs from
\* the guard's, and a packager fills the channel of the guard.
SessionSound(s) ==
    /\ chan[s] # None => owner[chan[s]] = s
    /\ phase[s] = "granted" => owner[want[s]] = s /\ want[s] # chan[s]
    /\ phase[s] \in {"asking", "granted"} => want[s] \in Channel
    /\ phase[s] = "out" => chan[s] = None /\ pkg[s] = None /\ asks[s] = 0
    /\ phase[s] \notin {"out", "closing"} => pkg[s] = chan[s]

WorkerSound(w) ==
    /\ phase[w] \in {"start", "waiting", "dead", "granted"} => pkg[w] = None
    /\ phase[w] \notin {"start", "waiting", "dead"} => chan[w] \in Channel /\ owner[chan[w]] = w
    /\ pkg[w] # None => pkg[w] = chan[w]

Sound(s) == (s \in Session => SessionSound(s)) /\ (s \in Worker => WorkerSound(s))

Inv == SourcesTypeOK /\ \A s \in Source : Sound(s)

\* A step of s: it leaves the leases of the others and what they keep alone.
Private(s) ==
    /\ \A d \in Channel : owner[d] \notin {s, Nobody} => owner'[d] = owner[d]
    /\ \A r \in Source \ {s} :
          phase'[r] = phase[r] /\ chan'[r] = chan[r] /\ want'[r] = want[r] /\ pkg'[r] = pkg[r]
    /\ \A r \in Session \ {s} : asks'[r] = asks[r] /\ ends'[r] = ends[r]

\* SourcesTypeOK but for the history, which only the frames of steps change.
Types ==
    /\ owner \in [Channel -> Source \cup {Nobody, Lost}]
    /\ kick \subseteq {c \in Channel : owner[c] # Nobody}
    /\ phase \in [Source -> SessionPhases \cup WorkerPhases]
    /\ \A s \in Session : phase[s] \in SessionPhases
    /\ \A w \in Worker : phase[w] \in WorkerPhases
    /\ chan \in [Source -> Channel \cup {None}] /\ want \in [Source -> Channel \cup {None}]
    /\ pkg \in [Source -> Channel \cup {None}]
    /\ media \in [Source -> Nat \cup {Never}] /\ wait \in [Source -> Nat]
    /\ asks \in [Session -> Nat] /\ ends \in [Session -> Nat]
    /\ \A s \in Session : asks[s] <= MaxAsks[s] /\ ends[s] <= MaxEnds[s]

\* A batch with media.
Hearing(s) == \E a \in 0..MaxAsks[s], e \in 0..MaxEnds[s] : Media(s, a, e)

\* What a step of s has to keep.
Kept(s) == Types' /\ Private(s) /\ Sound(s)'

Step(s) == Moves(s) \/ (s \in Session /\ SessionPeer(s)) \/ (s \in Worker /\ WorkerPeer(s))
           \/ (s \in Session /\ Hearing(s)) \/ (s \in Worker /\ Reads(s, 0) /\ UNCHANGED kept)

-----------------------------------------------------------------------------
\* The initial states satisfy the invariant.
LEMMA InitInv == Init => Inv
<1>. USE DEF SessionPhases, WorkerPhases
<1>1. Init => SourcesTypeOK
  BY NameAssumption, TimerAssumption DEF Init, SourcesTypeOK, Source, Never
<1>2. ASSUME Init, NEW s \in Source PROVE Sound(s)
  BY <1>2, NameAssumption DEF Init, Sound, SessionSound, WorkerSound, Source
<1>. QED BY <1>1, <1>2 DEF Inv

-----------------------------------------------------------------------------
\* Each step of a session keeps its own invariant and what is the others'.
LEMMA SessionKept ==
    ASSUME Types, NEW s \in Session, Sound(s), SessionMoves(s) \/ SessionPeer(s) \/ Hearing(s)
    PROVE  Kept(s)
<1>. USE NameAssumption, TimerAssumption DEF Kept, Types, Private, Sound, SessionSound, Enters, registry, batch,
                            Source, SessionPhases, WorkerPhases, Never
<1>1. CASE \E a \in 0..MaxAsks[s], e \in 0..MaxEnds[s] : Connect(s, a, e) BY <1>1 DEF Connect, Holds
<1>2. CASE Top(s) BY <1>2 DEF Top, Gives, Kicked
<1>3. CASE KickSeen(s) BY <1>3 DEF KickSeen, Gives, Kicked
<1>4. CASE Wakes(s) BY <1>4 DEF Wakes
<1>5. CASE Hearing(s) BY <1>5 DEF Hearing, Media, Holds
<1>6. CASE \E a \in 0..MaxAsks[s], e \in 0..MaxEnds[s] : Receives(s, a, e) BY <1>6 DEF Receives, Holds
<1>7. CASE BadName(s) BY <1>7 DEF BadName, OneAsk
<1>18. CASE \E c \in Keys[s] : Ask(s, c)
  <2>1. PICK c \in Keys[s] : Ask(s, c) BY <1>18
  <2>2. asks' \in [Session -> Nat] /\ \A r \in Session : asks'[r] <= MaxAsks[r] /\ ends'[r] = ends[r]
    BY <2>1 DEF Ask, OneAsk
  <2>3. CASE Takes(s, c) /\ Enters(s, "granted") BY <2>1, <2>2, <2>3 DEF Ask, OneAsk, Takes
  <2>4. CASE owner[c] # Nobody /\ Enters(s, "asking") /\ kick' = kick \cup {c} /\ UNCHANGED owner
    BY <2>1, <2>2, <2>4 DEF Ask, OneAsk
  <2>. QED BY <2>1, <2>3, <2>4 DEF Ask
<1>8. CASE Poll(s) BY <1>8 DEF Poll, Takes
<1>9. CASE Refuse(s) BY <1>9 DEF Refuse
<1>10. CASE Open(s) BY <1>10 DEF Open, Gives
<1>11. CASE OpenFails(s) BY <1>11 DEF OpenFails, Gives
<1>12. CASE DirectoryFails(s) BY <1>12 DEF DirectoryFails, Ends
<1>13. CASE Finish(s) BY <1>13 DEF Finish
<1>14. CASE Finished(s) BY <1>14 DEF Finished, Gives
<1>15. CASE Hangup(s) BY <1>15 DEF Hangup
<1>16. CASE Leave(s) BY <1>16 DEF Leave, Gives, Ends
<1>17. CASE Fail(s) BY <1>17 DEF Fail, Gives, Ends
<1>. QED BY <1>1, <1>2, <1>3, <1>4, <1>5, <1>6, <1>7, <1>8, <1>9, <1>10, <1>11,
           <1>12, <1>13, <1>14, <1>15, <1>16, <1>17, <1>18 DEF SessionMoves, SessionPeer

\* And each step of a worker.
LEMMA WorkerKept ==
    ASSUME Types, NEW w \in Worker, Sound(w),
           WorkerMoves(w) \/ WorkerPeer(w) \/ (Reads(w, 0) /\ UNCHANGED kept)
    PROVE  Kept(w)
<1>. USE NameAssumption DEF Kept, Types, Private, Sound, WorkerSound, Enters, registry, batch, kept, Rests,
                            Source, SessionPhases, WorkerPhases, Never
<1>1. CASE Acquire(w) BY <1>1 DEF Acquire, Takes
<1>2. CASE Begin(w) BY <1>2 DEF Begin
<1>3. CASE GivesUp(w) BY <1>3 DEF GivesUp
<1>4. CASE (Reconnects(w) \/ TimesOut(w)) /\ UNCHANGED kept BY <1>4 DEF Reconnects, TimesOut
<1>5. CASE (Reads(w, media[w]) \/ Reads(w, 0)) /\ UNCHANGED kept BY <1>5 DEF Reads
<1>6. CASE (Connected(w) \/ Answers(w) \/ Plays(w) \/ Closes(w)) /\ UNCHANGED kept
  BY <1>6 DEF Connected, Answers, Plays, Closes
<1>. QED BY <1>1, <1>2, <1>3, <1>4, <1>5, <1>6 DEF WorkerMoves, WorkerPeer

-----------------------------------------------------------------------------
\* A source's invariant reads only its own fields and the owner of channels it
\* holds, which a step of another leaves alone.
LEMMA OthersKept ==
    ASSUME Types, NEW s \in Source, NEW r \in Source \ {s}, Sound(r), Private(s)
    PROVE  Sound(r)'
<1>. USE NameAssumption DEF Types, Private, Source
<1>1. CASE r \in Session BY <1>1 DEF Sound, SessionSound
<1>2. CASE r \in Worker BY <1>2 DEF Sound, WorkerSound
<1>. QED BY <1>1, <1>2

\* Every step of the system keeps the invariant.
LEMMA NextInv == Inv /\ [Next]_allvars => Inv'
<1>. SUFFICES ASSUME Inv, [Next]_allvars PROVE Inv' OBVIOUS
<1>1. Types BY DEF Inv, SourcesTypeOK, Types
<1>2. silent \in [Source -> Nat \cup {Never, Early}] BY DEF Inv, SourcesTypeOK
<1>3. ASSUME NEW s \in Source, Step(s) PROVE Types' /\ \A r \in Source : Sound(r)'
  <2>1. Kept(s)
    <3>1. Sound(s) BY DEF Inv
    <3>2. CASE s \in Session
      BY <1>1, <1>3, <3>1, <3>2, NameAssumption, SessionKept DEF Step, Moves
    <3>3. CASE s \in Worker
      BY <1>1, <1>3, <3>1, <3>3, NameAssumption, WorkerKept DEF Step, Moves
    <3>. QED BY <3>2, <3>3 DEF Source
  <2>2. ASSUME NEW r \in Source \ {s} PROVE Sound(r)'
    BY <1>1, <2>1, <2>2, OthersKept DEF Inv, Kept
  <2>. QED BY <2>1, <2>2 DEF Kept
<1>4. CASE Quiet
  <2>1. PICK s \in Source : Step(s) BY <1>4 DEF Quiet, Step
  <2>2. Types' /\ \A r \in Source : Sound(r)' BY <1>3, <2>1
  <2>3. silent' \in [Source -> Nat \cup {Never, Early}] BY <1>2, <1>4, <2>2 DEF Quiet, Silence, Types
  <2>. QED BY <2>2, <2>3 DEF Inv, SourcesTypeOK, Types
<1>5. ASSUME NEW s \in Source, Hears(s) PROVE Inv'
  <2>1. Step(s) BY <1>5 DEF Hears, Hearing, Step, Source
  <2>2. Types' /\ \A r \in Source : Sound(r)' BY <1>3, <2>1
  <2>3. silent' \in [Source -> Nat \cup {Never, Early}] BY <1>2, <1>5 DEF Hears
  <2>. QED BY <2>2, <2>3 DEF Inv, SourcesTypeOK, Types
<1>6. CASE Tick
  <2>1. wait' \in [Source -> Nat] /\ media' \in [Source -> Nat \cup {Never}]
        /\ silent' \in [Source -> Nat \cup {Never, Early}]
    BY <1>1, <1>2, <1>6 DEF Tick, Types, Never, Early
  <2>2. UNCHANGED <<owner, kick, phase, chan, want, pkg, asks, ends>> BY <1>6 DEF Tick, registry, batch
  <2>. QED BY <1>1, <2>1, <2>2 DEF Inv, SourcesTypeOK, Types, Sound, SessionSound, WorkerSound
<1>7. CASE UNCHANGED allvars
  BY <1>7 DEF Inv, SourcesTypeOK, Sound, SessionSound, WorkerSound, allvars, vars, own, batch
<1>. QED BY <1>4, <1>5, <1>6, <1>7 DEF Next

\* The invariant is what the theorems need.
LEMMA InvImplies == Inv => LeaseMatchesPackager
<1>. SUFFICES ASSUME Inv PROVE LeaseMatchesPackager OBVIOUS
<1>. USE NameAssumption DEF Inv, SourcesTypeOK, Sound, Source, SessionPhases, WorkerPhases
<1>1. ASSUME NEW s \in Session PROVE /\ pkg[s] # None /\ phase[s] # "closing" => owner[pkg[s]] = s
                                     /\ phase[s] = "read" => pkg[s] = chan[s]
  BY DEF SessionSound
<1>2. ASSUME NEW w \in Worker, pkg[w] # None PROVE owner[pkg[w]] = w
  BY <1>2 DEF WorkerSound
<1>. QED BY <1>1, <1>2 DEF LeaseMatchesPackager

-----------------------------------------------------------------------------
\* Sources keep their types: a pending signal is one of a lease that is in the
\* registry, so that a channel taken anew begins with a fresh one; what is left of a
\* batch is never more than the batch; and timers count up (manager.rs:113-168,
\* 225-241, session.rs:162-405, pull.rs:52-245).
THEOREM TypeCorrect == Spec => []SourcesTypeOK
<1>1. Inv => SourcesTypeOK BY DEF Inv
<1>. QED BY InitInv, NextInv, <1>1, PTL DEF Spec

\* Whatever publish requests, kicks, timeouts and errors come in whatever order,
\* a packager fills only a channel its source holds (session.rs:56-107, 480-640).
THEOREM PackagersHoldTheirChannels == Spec => []LeaseMatchesPackager
BY InitInv, NextInv, InvImplies, PTL DEF Spec

-----------------------------------------------------------------------------
\* The waits that the rest of a batch may cost, and those of a whole one.
Left(s) == asks[s] * TakeoverWait + ends[s] * DrainTime

LEMMA Times ==
    ASSUME NEW T \in Nat, NEW a \in Nat, NEW b \in Nat, a <= b
    PROVE  a * T \in Nat /\ a * T <= b * T
<1>1. PICK k \in Nat : b = a + k BY b - a \in Nat
<1>2. b * T = a * T + k * T BY <1>1
<1>. QED BY <1>2

\* What is left of a batch is a part of it, and becomes less by what is handled.
LEMMA Waits ==
    ASSUME NEW s \in Session, NEW a \in Nat, NEW e \in Nat, a <= MaxAsks[s], e <= MaxEnds[s]
    PROVE  /\ a * TakeoverWait + e * DrainTime \in Nat /\ BatchTime(s) \in Nat
           /\ a * TakeoverWait + e * DrainTime <= BatchTime(s)
<1>. USE TimerAssumption
<1>1. a * TakeoverWait \in Nat /\ a * TakeoverWait <= MaxAsks[s] * TakeoverWait BY Times
<1>2. e * DrainTime \in Nat /\ e * DrainTime <= MaxEnds[s] * DrainTime BY Times
<1>3. MaxAsks[s] * TakeoverWait \in Nat /\ MaxEnds[s] * DrainTime \in Nat BY Times
<1>. QED BY <1>1, <1>2, <1>3 DEF BatchTime

LEMMA LeftParts ==
    ASSUME Types, NEW s \in Session
    PROVE  Left(s) \in Nat /\ BatchTime(s) \in Nat /\ Left(s) <= BatchTime(s)
<1>1. asks[s] \in Nat /\ ends[s] \in Nat /\ asks[s] <= MaxAsks[s] /\ ends[s] <= MaxEnds[s]
  BY DEF Types
<1>. QED BY <1>1, Waits DEF Left

LEMMA LessLeft ==
    ASSUME Types, NEW s \in Session
    PROVE  /\ OneAsk(s) /\ UNCHANGED ends => Left(s)' + TakeoverWait = Left(s)
           /\ ends[s] > 0 /\ ends' = [ends EXCEPT ![s] = @ - 1] /\ UNCHANGED asks
                => Left(s)' + DrainTime = Left(s)
<1>. USE TimerAssumption DEF Types, Left
<1>1. ASSUME NEW T \in Nat, NEW n \in Nat PROVE (n - 1) * T + T = n * T /\ n * T \in Nat OBVIOUS
<1>2. CASE OneAsk(s) /\ UNCHANGED ends
  <2>1. asks'[s] = asks[s] - 1 /\ ends'[s] = ends[s] BY <1>2 DEF OneAsk
  <2>2. (asks[s] - 1) * TakeoverWait + TakeoverWait = asks[s] * TakeoverWait BY <1>1
  <2>3. ends[s] * DrainTime \in Nat /\ (asks[s] - 1) * TakeoverWait \in Int BY <1>1
  <2>. QED BY <1>2, <2>1, <2>2, <2>3 DEF OneAsk
<1>3. CASE ends[s] > 0 /\ ends' = [ends EXCEPT ![s] = @ - 1] /\ UNCHANGED asks
  <2>1. ends'[s] = ends[s] - 1 /\ asks'[s] = asks[s] BY <1>3
  <2>2. (ends[s] - 1) * DrainTime + DrainTime = ends[s] * DrainTime BY <1>1
  <2>3. asks[s] * TakeoverWait \in Nat /\ (ends[s] - 1) * DrainTime \in Int BY <1>1
  <2>. QED BY <1>3, <2>1, <2>2, <2>3
<1>. QED BY <1>2, <1>3

\* The bound of SilentHolderBounded, and what there is of it in each phase: the
\* silence of a holder is bounded by its last look at the clock and the waits of
\* its batch so far, and the time in a phase by the phase's timer.
Looked   == MediaIdle + ReadWake
Bound(s) == MediaIdle + ReadWake + Later(BatchTime(s), DrainTime)

SessionTimely(s) ==
    /\ phase[s] = "read" => media[s] <= MediaIdle + wait[s]
    /\ phase[s] \in {"top", "granted"} => media[s] + Left(s) <= Looked + BatchTime(s)
    /\ phase[s] = "asking" => media[s] + Left(s) + TakeoverWait <= Looked + BatchTime(s) + wait[s]
    /\ phase[s] = "finishing" => media[s] + Left(s) + DrainTime <= Looked + BatchTime(s) + wait[s]
    /\ phase[s] = "closing" /\ chan[s] # None => media[s] <= Looked + wait[s]
    /\ \A c \in Channel : owner[c] = s => c = chan[s] \/ (phase[s] = "granted" /\ c = want[s])
    /\ phase[s] = "out" => media[s] = Never
    /\ phase[s] # "out" => wait[s] <= Patience(phase[s])

WorkerTimely(w) ==
    /\ phase[w] = "playing" => media[w] \in 0..(PullIdle + wait[w])
    /\ phase[w] # "playing" => media[w] = Never
    /\ phase[w] = "playing" => wait[w] <= PullWake

Timely(s) == (s \in Session => SessionTimely(s)) /\ (s \in Worker => WorkerTimely(s))

\* The silence is the age of the last media, but for a session that published with
\* its handshake; and a session that publishes, or is about to, has a silence.
Publishes(s) == chan[s] # None \/ phase[s] \in {"asking", "granted"} \/ asks[s] > 0
Heard(s) ==
    /\ silent[s] = media[s] \/ (s \in Session /\ silent[s] = Early /\ media[s] = Never)
    /\ s \in Session /\ Publishes(s) => silent[s] # Never

TInv == Inv /\ \A s \in Source : Timely(s) /\ Heard(s)

\* The clocks of the others go on alone, and nobody is given a channel by another.
Apart(s) == \A r \in Source \ {s} :
    /\ media'[r] = media[r] /\ wait'[r] = wait[r]
    /\ \A c \in Channel : owner'[c] = r => owner[c] = r

\* A step without media starts the age of the last media, ends it, or lets it go
\* on; and a session that publishes has one, or had a request with its handshake.
Ages(s) ==
    /\ media'[s] \in {media[s], Never} \/ (media[s] = Never /\ media'[s] = 0)
    /\ s \in Session /\ Publishes(s)' /\ media'[s] = Never =>
          phase'[s] # "out" /\ media[s] = Never /\ (Publishes(s) \/ Begins(s))

LEMMA Timers ==
    /\ Patience("top") = 0 /\ Patience("granted") = 0 /\ Patience("read") = ReadWake
    /\ Patience("asking") = TakeoverWait /\ Patience("finishing") = DrainTime
    /\ Patience("closing") = DrainTime /\ Patience("playing") = PullWake
    /\ MediaIdle \in Nat /\ ReadWake \in Nat /\ TakeoverWait \in Nat /\ DrainTime \in Nat
    /\ PullIdle \in Nat /\ PullWake \in Nat
    /\ Looked = MediaIdle + ReadWake
BY TimerAssumption DEF Patience, Looked

LEMMA SessionTimelyKept ==
    ASSUME Types, Types', NEW s \in Session, SessionSound(s), SessionTimely(s),
           SessionMoves(s) \/ SessionPeer(s) \/ Hearing(s)
    PROVE  SessionTimely(s)' /\ Apart(s)
<1>0. /\ Left(s) \in Nat /\ BatchTime(s) \in Nat /\ Left(s) <= BatchTime(s)
      /\ Left(s)' \in Nat /\ Left(s)' <= BatchTime(s)
  <2>1. Left(s) \in Nat /\ BatchTime(s) \in Nat /\ Left(s) <= BatchTime(s) BY LeftParts
  <2>2. asks'[s] \in Nat /\ ends'[s] \in Nat /\ asks'[s] <= MaxAsks[s] /\ ends'[s] <= MaxEnds[s]
    BY DEF Types
  <2>3. Left(s)' \in Nat /\ Left(s)' <= BatchTime(s) BY <2>2, Waits DEF Left
  <2>. QED BY <2>1, <2>3
<1>a. /\ UNCHANGED <<asks, ends>> => Left(s)' = Left(s)
      /\ asks[s] = 0 /\ ends[s] = 0 => Left(s) = 0
      /\ BatchTime(s)' = BatchTime(s)
  BY TimerAssumption DEF Left, BatchTime
<1>b. OneAsk(s) /\ UNCHANGED ends => Left(s)' + TakeoverWait = Left(s) BY LessLeft
<1>c. ends[s] > 0 /\ ends' = [ends EXCEPT ![s] = @ - 1] /\ UNCHANGED asks
         => Left(s)' + DrainTime = Left(s)
  BY LessLeft
<1>. USE NameAssumption, Timers, <1>0, <1>a DEF Types, Apart, SessionSound, SessionTimely, Enters,
                                registry, batch, Source, Never
<1>1. CASE \E a \in 0..MaxAsks[s], e \in 0..MaxEnds[s] : Connect(s, a, e) BY <1>1 DEF Connect
<1>2. CASE Top(s) BY <1>2 DEF Top, Gives, Kicked
<1>3. CASE KickSeen(s) BY <1>3 DEF KickSeen, Gives, Kicked
<1>4. CASE Wakes(s) BY <1>4 DEF Wakes
<1>5. CASE Hearing(s) BY <1>5 DEF Hearing, Media
<1>6. CASE \E a \in 0..MaxAsks[s], e \in 0..MaxEnds[s] : Receives(s, a, e) BY <1>6 DEF Receives
<1>7. CASE BadName(s) \/ \E c \in Keys[s] : Ask(s, c) BY <1>7, <1>b DEF BadName, Ask, Takes, OneAsk
<1>8. CASE Poll(s) BY <1>8 DEF Poll, Takes
<1>9. CASE Refuse(s) BY <1>9 DEF Refuse
<1>10. CASE Open(s) BY <1>10 DEF Open, Gives
<1>11. CASE OpenFails(s) BY <1>11 DEF OpenFails, Gives
<1>12. CASE DirectoryFails(s) BY <1>12 DEF DirectoryFails, Ends
<1>13. CASE Finish(s) BY <1>13, <1>c DEF Finish
<1>14. CASE Finished(s) BY <1>14 DEF Finished, Gives
<1>15. CASE Hangup(s) BY <1>15 DEF Hangup
<1>16. CASE Leave(s) BY <1>16 DEF Leave, Gives, Ends
<1>17. CASE Fail(s) BY <1>17 DEF Fail, Gives, Ends
<1>. QED BY <1>1, <1>2, <1>3, <1>4, <1>5, <1>6, <1>7, <1>8, <1>9, <1>10, <1>11,
           <1>12, <1>13, <1>14, <1>15, <1>16, <1>17 DEF SessionMoves, SessionPeer

LEMMA WorkerTimelyKept ==
    ASSUME Types, NEW w \in Worker, WorkerTimely(w),
           WorkerMoves(w) \/ WorkerPeer(w) \/ (Reads(w, 0) /\ UNCHANGED kept)
    PROVE  WorkerTimely(w)' /\ Apart(w)
<1>. USE NameAssumption, Timers DEF Types, Apart, WorkerTimely, Enters, registry, kept,
                                Rests, Source, Never
<1>1. CASE Acquire(w) BY <1>1 DEF Acquire, Takes
<1>2. CASE Begin(w) BY <1>2 DEF Begin
<1>3. CASE GivesUp(w) BY <1>3 DEF GivesUp
<1>4. CASE (Reconnects(w) \/ TimesOut(w)) /\ UNCHANGED kept BY <1>4 DEF Reconnects, TimesOut
<1>5. CASE Reads(w, media[w]) /\ UNCHANGED kept BY <1>5 DEF Reads
<1>6. CASE Reads(w, 0) /\ UNCHANGED kept BY <1>6 DEF Reads
<1>7. CASE (Connected(w) \/ Answers(w) \/ Plays(w) \/ Closes(w)) /\ UNCHANGED kept
  BY <1>7 DEF Connected, Answers, Plays, Closes
<1>. QED BY <1>1, <1>2, <1>3, <1>4, <1>5, <1>6, <1>7 DEF WorkerMoves, WorkerPeer

\* Only media ends a silence, and a silence there is where something is published.
LEMMA QuietAges ==
    ASSUME Types, Types', NEW s \in Source, Timely(s), s \in Session => SessionSound(s)',
           Moves(s) \/ (s \in Session /\ SessionPeer(s)) \/ (s \in Worker /\ WorkerPeer(s))
    PROVE  Ages(s)
<1>. USE NameAssumption DEF Types, Ages, Source, Moves
<1>1. CASE s \in Session
  <2>. USE TimerAssumption DEF Publishes, Enters, batch
  <2>1. CASE \E a \in 0..MaxAsks[s], e \in 0..MaxEnds[s] : Connect(s, a, e) \/ Receives(s, a, e)
    <3>1. PICK a \in 0..MaxAsks[s], e \in 0..MaxEnds[s] : Connect(s, a, e) \/ Receives(s, a, e)
      BY <2>1
    <3>2. asks'[s] = a /\ a \in Nat /\ chan' = chan /\ phase'[s] = "top"
      BY <1>1, <3>1 DEF Connect, Receives, Holds
    <3>3. CASE Connect(s, a, e) BY <1>1, <3>2, <3>3 DEF Connect, Begins
    <3>4. CASE Receives(s, a, e) BY <1>1, <3>2, <3>4 DEF Receives, Never
    <3>. QED BY <3>1, <3>3, <3>4
  <2>2. CASE Top(s) \/ KickSeen(s) \/ Wakes(s) \/ Poll(s) \/ Refuse(s) \/ Finish(s) \/ Hangup(s)
    BY <1>1, <2>2 DEF Top, KickSeen, Wakes, Poll, Refuse, Finish, Hangup
  <2>3. CASE BadName(s) \/ \E c \in Keys[s] : Ask(s, c)
    BY <1>1, <2>3 DEF BadName, Ask, OneAsk
  <2>4. CASE Open(s) \/ OpenFails(s) \/ Finished(s)
    BY <1>1, <2>4 DEF Open, OpenFails, Finished
  <2>5. CASE DirectoryFails(s) \/ Leave(s) \/ Fail(s)
    BY <1>1, <2>5 DEF DirectoryFails, Leave, Fail, Ends
  <2>. QED BY <1>1, <2>1, <2>2, <2>3, <2>4, <2>5 DEF SessionMoves, SessionPeer
<1>2. CASE s \in Worker
  BY <1>2 DEF WorkerMoves, WorkerPeer, Acquire, Begin, GivesUp, Reconnects, TimesOut, Rests,
              Connected, Answers, Plays, Reads, Closes, Timely, WorkerTimely
<1>. QED BY <1>1, <1>2

\* Time passes for those who are not yet due.
LEMMA TickTimely ==
    ASSUME Types, NEW s \in Source, Timely(s), Tick
    PROVE  Timely(s)'
<1>. USE NameAssumption, Timers DEF Types, Source, Never
<1>1. /\ ~Due(s) /\ wait'[s] = (IF Timed(s) THEN wait[s] + 1 ELSE wait[s])
      /\ media'[s] = (IF media[s] = Never THEN Never ELSE media[s] + 1)
      /\ UNCHANGED <<owner, phase, chan, want, asks, ends>>
  BY DEF Tick, registry, batch
<1>2. Timed(s) => wait[s] < Patience(phase[s]) \/ ~(Patience(phase[s]) \in Nat) BY <1>1 DEF Due
<1>3. CASE s \in Session
  <2>0. Left(s) \in Nat /\ BatchTime(s) \in Nat /\ Left(s)' = Left(s) /\ BatchTime(s)' = BatchTime(s)
    BY <1>1, <1>3, LeftParts DEF Left, BatchTime
  <2>1. phase[s] \in SessionPhases /\ (phase[s] # "out" => Patience(phase[s]) \in Nat)
    BY <1>3 DEF SessionPhases
  <2>2. (phase[s] = "read" /\ media[s] = Never) \/ phase[s] = "out" \/ Timed(s)
    BY <1>3, <2>1 DEF Timed, SessionPhases
  <2>3. SessionTimely(s)'
    BY <1>1, <1>2, <1>3, <2>0, <2>1, <2>2 DEF Timely, SessionTimely, Timed, SessionPhases
  <2>. QED BY <1>3, <2>3 DEF Timely
<1>4. CASE s \in Worker
  <2>1. WorkerTimely(s)' BY <1>1, <1>2, <1>4 DEF Timely, WorkerTimely, Timed
  <2>. QED BY <1>4, <2>1 DEF Timely
<1>. QED BY <1>3, <1>4

LEMMA InitTInv == Init => TInv
<1>. SUFFICES ASSUME Init PROVE TInv OBVIOUS
<1>1. Inv BY InitInv
<1>2. ASSUME NEW s \in Source PROVE Timely(s) /\ Heard(s)
  BY <1>2, NameAssumption, Timers
     DEF Init, Timely, Heard, Publishes, SessionTimely, WorkerTimely, Source, Never
<1>. QED BY <1>1, <1>2 DEF TInv

\* What is timely for a source does not depend on the clocks of the others.
LEMMA OthersTimely ==
    ASSUME Types, NEW s \in Source, NEW r \in Source \ {s}, Timely(r), Private(s), Apart(s)
    PROVE  Timely(r)'
BY DEF Types, Private, Apart, Timely, SessionTimely, WorkerTimely, Left, BatchTime

LEMMA NextTInv == TInv /\ [Next]_allvars => TInv'
<1>. SUFFICES ASSUME TInv, [Next]_allvars PROVE TInv' OBVIOUS
<1>1. Inv /\ Inv' /\ Types /\ Types'
  BY NextInv DEF TInv, Inv, SourcesTypeOK, Types
<1>2. /\ silent \in [Source -> Nat \cup {Never, Early}]
      /\ media \in [Source -> Nat \cup {Never}] /\ media' \in [Source -> Nat \cup {Never}]
  BY <1>1 DEF Inv, SourcesTypeOK
<1>3. \A s \in Source : Timely(s) /\ Heard(s) /\ Sound(s) /\ Sound(s)'
  BY <1>1 DEF TInv, Inv
<1>4. ASSUME NEW s \in Source, Step(s)
      PROVE Private(s) /\ Apart(s) /\ \A r \in Source : Timely(r)'
  <2>1. Private(s)
    BY <1>1, <1>3, <1>4, NameAssumption, SessionKept, WorkerKept DEF Step, Moves, Kept, Source
  <2>2. Timely(s)' /\ Apart(s)
    <3>1. CASE s \in Session
      <4>1. SessionSound(s) /\ SessionTimely(s) BY <1>3, <3>1 DEF Sound, Timely
      <4>2. SessionMoves(s) \/ SessionPeer(s) \/ Hearing(s)
        BY <1>4, <3>1, NameAssumption DEF Step, Moves
      <4>3. SessionTimely(s)' /\ Apart(s) BY <1>1, <3>1, <4>1, <4>2, SessionTimelyKept
      <4>. QED BY <3>1, <4>3, NameAssumption DEF Timely
    <3>2. CASE s \in Worker
      <4>1. WorkerTimely(s) BY <1>3, <3>2 DEF Timely
      <4>2. WorkerMoves(s) \/ WorkerPeer(s) \/ (Reads(s, 0) /\ UNCHANGED kept)
        BY <1>4, <3>2, NameAssumption DEF Step, Moves
      <4>3. WorkerTimely(s)' /\ Apart(s) BY <1>1, <3>2, <4>1, <4>2, WorkerTimelyKept
      <4>. QED BY <3>2, <4>3, NameAssumption DEF Timely
    <3>. QED BY <3>1, <3>2 DEF Source
  <2>3. ASSUME NEW r \in Source \ {s} PROVE Timely(r)'
    BY <1>1, <1>3, <2>1, <2>2, <2>3, OthersTimely
  <2>. QED BY <2>1, <2>2, <2>3
<1>5. CASE Quiet
  <2>1. PICK s \in Source : Moves(s) \/ (s \in Session /\ SessionPeer(s)) \/ (s \in Worker /\ WorkerPeer(s))
    BY <1>5 DEF Quiet
  <2>2. Step(s) BY <2>1 DEF Step
  <2>3. Ages(s) BY <1>1, <1>3, <2>1, QuietAges DEF Sound
  <2>4. \A r \in Source : silent'[r] = Silence(r) BY <1>5 DEF Quiet
  <2>5. Heard(s)'
    BY <1>2, <1>3, <2>3, <2>4, NameAssumption DEF Ages, Silence, Heard, Never, Early, Begins
  <2>6. ASSUME NEW r \in Source \ {s} PROVE Heard(r)'
    <3>1. /\ media'[r] = media[r] /\ phase'[r] = phase[r] /\ chan'[r] = chan[r]
          /\ r \in Session => asks'[r] = asks[r]
      BY <1>4, <2>2, <2>6, NameAssumption DEF Apart, Private, Source
    <3>2. r \in Session => (phase[r] = "out" => ~Publishes(r))
      BY <1>3, <2>6 DEF Sound, SessionSound, Publishes
    <3>. QED BY <1>2, <1>3, <2>4, <2>6, <3>1, <3>2
             DEF Silence, Heard, Publishes, Never, Early, Begins
  <2>. QED BY <1>1, <1>4, <2>2, <2>5, <2>6 DEF TInv
<1>6. ASSUME NEW s \in Source, Hears(s) PROVE TInv'
  <2>1. Step(s) BY <1>6 DEF Hears, Hearing, Step, Source
  <2>2. media' = [media EXCEPT ![s] = 0]
    <3>1. CASE s \in Session BY <1>6, <3>1 DEF Hears, Media
    <3>2. CASE s \notin Session BY <1>6, <3>2, TimerAssumption DEF Hears, Reads
    <3>. QED BY <3>1, <3>2
  <2>3. silent' = [silent EXCEPT ![s] = 0] BY <1>6 DEF Hears
  <2>4. Heard(s)' BY <1>2, <2>2, <2>3 DEF Heard, Never
  <2>5. ASSUME NEW r \in Source \ {s} PROVE Heard(r)'
    <3>1. /\ phase'[r] = phase[r] /\ chan'[r] = chan[r]
          /\ r \in Session => asks'[r] = asks[r]
      BY <1>4, <2>1, <2>5, NameAssumption DEF Private, Source
    <3>. QED BY <1>2, <1>3, <2>2, <2>3, <2>5, <3>1 DEF Heard, Publishes
  <2>. QED BY <1>1, <1>4, <2>1, <2>4, <2>5 DEF TInv
<1>7. CASE Tick
  <2>1. \A s \in Source : Heard(s)'
    BY <1>2, <1>3, <1>7 DEF Tick, Heard, Publishes, batch, Never, Early
  <2>2. \A s \in Source : Timely(s)' BY <1>1, <1>3, <1>7, TickTimely
  <2>. QED BY <1>1, <2>1, <2>2 DEF TInv
<1>8. CASE UNCHANGED allvars
  <2>1. \A s \in Source : Timely(s)'
    BY <1>3, <1>8 DEF Timely, SessionTimely, WorkerTimely, Left, BatchTime, allvars, vars, own, batch
  <2>2. \A s \in Source : Heard(s)'
    BY <1>3, <1>8 DEF Heard, Publishes, allvars, vars, own, batch
  <2>. QED BY <1>1, <2>1, <2>2 DEF TInv
<1>. QED BY <1>5, <1>6, <1>7, <1>8 DEF Next

\* A session that goes silent, whatever else it sends, is rid of its channel within
\* the sum of its timers and of the waits that one read may hold, unless it
\* published with its handshake and has sent neither media nor a request since
\* (session.rs:19-25, 162-175, 184-217, 254-262, 325-378).
THEOREM SilenceIsBounded == Spec => []SilentHolderBounded
<1>1. TInv => SilentHolderBounded
  <2>. SUFFICES ASSUME TInv, NEW c \in Channel, owner[c] \in Session, silent[owner[c]] # Early
                PROVE  silent[owner[c]] \in 0..Bound(owner[c])
    BY DEF SilentHolderBounded, Bound
  <2>1. PICK s \in Session : s = owner[c] OBVIOUS
  <2>2. SessionTimely(s) /\ SessionSound(s) /\ Heard(s) /\ Types
    BY <2>1 DEF TInv, Inv, SourcesTypeOK, Types, Timely, Sound, Source
  <2>3. media[s] \in Nat \cup {Never} /\ wait[s] \in Nat /\ phase[s] \in SessionPhases
    BY <2>1 DEF TInv, Inv, SourcesTypeOK, Source
  <2>4. chan[s] # None \/ phase[s] = "granted"
    BY <2>1, <2>2, NameAssumption DEF SessionTimely
  <2>5. silent[s] = media[s] /\ media[s] # Never /\ phase[s] # "out"
    BY <2>1, <2>2, <2>4 DEF Heard, Publishes, SessionSound
  <2>6. wait[s] <= Patience(phase[s]) BY <2>2, <2>5 DEF SessionTimely
  <2>7. phase[s] = "closing" => chan[s] # None BY <2>4
  <2>8. Left(s) \in Nat /\ BatchTime(s) \in Nat BY <2>2, LeftParts
  <2>9. /\ Bound(s) \in Nat /\ Bound(s) >= Looked /\ Bound(s) >= Looked + BatchTime(s)
        /\ Bound(s) >= Looked + DrainTime
    BY <2>8, Timers DEF Bound, Later
  <2>10. media[s] <= Bound(s)
    BY <2>2, <2>3, <2>5, <2>6, <2>7, <2>8, <2>9, Timers DEF SessionTimely, SessionPhases
  <2>. QED BY <2>1, <2>3, <2>5, <2>9, <2>10 DEF Never
<1>. QED BY InitTInv, NextTInv, <1>1, PTL DEF Spec

\* A pull session that gets no media ends in time, although its origin keeps the
\* connection alive (pull.rs:21-26, 205-245).
THEOREM MediaGapsAreBounded == Spec => []MediaGapBounded
<1>1. TInv => MediaGapBounded
  <2>. SUFFICES ASSUME TInv, NEW w \in Worker, phase[w] = "playing"
                PROVE  silent[w] \in 0..(PullIdle + PullWake)
    BY DEF MediaGapBounded
  <2>1. WorkerTimely(w) /\ silent[w] = media[w] /\ wait[w] \in Nat
    BY NameAssumption DEF TInv, Inv, SourcesTypeOK, Timely, Heard, Source
  <2>. QED BY <2>1, Timers DEF WorkerTimely
<1>. QED BY InitTInv, NextTInv, <1>1, PTL DEF Spec

-----------------------------------------------------------------------------
\* A session that reads although it was asked to go was asked in this instant.
JustAsked(h) ==
    phase[h] = "read" /\ chan[h] \in kick =>
        \E r \in Session : phase[r] = "asking" /\ want[r] = chan[h] /\ wait[r] = 0
KInv == TInv /\ \A h \in Session : JustAsked(h)

\* The kick is of a request that waits on, and so is the one who is asked.
LEMMA StepJustAsked ==
    ASSUME Inv, NEW s \in Source, Step(s), Private(s), Apart(s), Types',
           NEW h \in Session, JustAsked(h)
    PROVE  JustAsked(h)'
<1>. USE NameAssumption, TimerAssumption DEF Source
<1>1. SUFFICES ASSUME phase'[h] = "read", chan'[h] \in kick'
               PROVE  \E r \in Session : phase'[r] = "asking" /\ want'[r] = chan'[h] /\ wait'[r] = 0
  BY DEF JustAsked
<1>2. Types /\ SessionSound(h) BY DEF Inv, SourcesTypeOK, Types, Sound
<1>3. CASE s = h
  <2>1. SessionMoves(s) \/ SessionPeer(s) \/ Hearing(s) BY <1>3, <1>1 DEF Step, Moves
  <2>2. Top(s) BY <2>1, <1>1, <1>2, <1>3
          DEF SessionMoves, SessionPeer, KickSeen, Wakes, Poll, Refuse, Open, OpenFails, Enters, Types,
              DirectoryFails, Finished, Leave, Connect, Receives, BadName, Ask, OneAsk, Finish, Hangup, Fail, Ends, Hearing, Media
  <2>3. ~Kicked(s) /\ UNCHANGED <<kick, chan>>
    BY <2>2, <1>1, <1>2, <1>3 DEF Top, Enters, Types, registry
  <2>. QED BY <1>1, <1>3, <2>3 DEF Kicked
<1>4. CASE s # h
  <2>1. phase[h] = "read" /\ chan'[h] = chan[h] BY <1>1, <1>4 DEF Private
  <2>2. chan[h] \in Channel /\ owner[chan[h]] = h
    BY <1>1, <1>2, <2>1 DEF SessionSound, Types
  <2>3. CASE chan[h] \in kick
    <3>1. PICK r \in Session : phase[r] = "asking" /\ want[r] = chan[h] /\ wait[r] = 0
      BY <2>1, <2>3 DEF JustAsked
    <3>2. r # s
      <4>. SUFFICES ASSUME r = s PROVE FALSE OBVIOUS
      <4>1. SessionMoves(s) \/ SessionPeer(s) \/ Hearing(s) BY DEF Step, Moves
      <4>2. Poll(s) \/ Refuse(s) BY <4>1, <3>1
          DEF SessionMoves, SessionPeer, KickSeen, Wakes, Open, OpenFails, Top,
              DirectoryFails, Finished, Leave, Connect, Receives, BadName, Ask, OneAsk, Finish, Hangup, Fail, Hearing, Media
      <4>. QED BY <4>2, <3>1, <2>2 DEF Poll, Takes, Refuse
    <3>. QED BY <2>1, <3>1, <3>2 DEF Private, Apart
  <2>4. CASE chan[h] \notin kick
    <3>1. PICK c \in Channel :
            s \in Session /\ c \in Keys[s] /\ Ask(s, c) /\ kick' = kick \cup {c}
      BY <1>1, <2>1, <2>4, <1>2 DEF Step, Moves, SessionMoves, SessionPeer, WorkerMoves, WorkerPeer,
              KickSeen, Wakes, Poll, Refuse, Open, OpenFails, Top, registry, kept, Gives, Takes,
              DirectoryFails, Finished, Leave, Connect, Receives, BadName, Ask, OneAsk, Finish, Hangup, Fail, Hearing, Media,
              Acquire, Begin, GivesUp, Reads
    <3>2. c = chan[h] /\ owner[c] # Nobody BY <1>1, <2>1, <2>2, <2>4, <3>1
    <3>3. phase'[s] = "asking" /\ want'[s] = c /\ wait'[s] = 0
      BY <1>2, <3>1, <3>2 DEF Ask, Takes, Enters, Types
    <3>. QED BY <2>1, <3>1, <3>2, <3>3
  <2>. QED BY <2>3, <2>4
<1>. QED BY <1>3, <1>4

LEMMA NextKInv == KInv /\ [Next]_allvars => KInv'
<1>. SUFFICES ASSUME KInv, [Next]_allvars PROVE KInv' OBVIOUS
<1>1. TInv /\ TInv' BY NextTInv DEF KInv
<1>2. Inv /\ Types /\ Types' /\ \A s \in Source : Sound(s) /\ Timely(s)
  BY <1>1 DEF TInv, Inv, SourcesTypeOK, Types
<1>3. ASSUME NEW s \in Source, Step(s), NEW h \in Session PROVE JustAsked(h)'
  <2>1. Private(s) BY <1>2, <1>3, NameAssumption, SessionKept, WorkerKept DEF Step, Moves, Kept, Source
  <2>2. Apart(s)
    BY <1>2, <1>3, NameAssumption, SessionTimelyKept, WorkerTimelyKept
       DEF Step, Moves, Source, Sound, Timely
  <2>. QED BY <1>2, <1>3, <2>1, <2>2, StepJustAsked DEF KInv
<1>4. CASE Quiet
  <2>1. PICK s \in Source : Step(s) BY <1>4 DEF Quiet, Step
  <2>. QED BY <1>1, <1>3, <2>1 DEF KInv
<1>5. ASSUME NEW s \in Source, Hears(s) PROVE KInv'
  <2>1. Step(s) BY <1>5 DEF Hears, Hearing, Step, Source
  <2>. QED BY <1>1, <1>3, <2>1 DEF KInv
<1>6. CASE Tick
  <2>1. \A h \in Session : ~(phase[h] = "read" /\ chan[h] \in kick)
    BY <1>6 DEF Tick, Due, Kicked, Source
  <2>. QED BY <1>1, <1>6, <2>1 DEF Tick, registry, KInv, JustAsked
<1>7. CASE UNCHANGED allvars BY <1>1, <1>7 DEF KInv, JustAsked, allvars, vars, own, batch
<1>. QED BY <1>4, <1>5, <1>6, <1>7 DEF Next

\* Who is asked to go and reads is gone before the requester's time is over
\* (session.rs:150-172, 254-262, 541-556).
THEOREM RefusalsAreJustified == Spec => RefusalJustified
<1>. DEFINE Justified == \A s \in Session : phase[s] = "asking" /\ phase'[s] = "top" =>
         \A h \in Session : owner[want[s]] = h /\ phase[h] = "read" /\ want[s] \in kick =>
             \E r \in Session \ {s} : phase[r] = "asking" /\ want[r] = want[s] /\ wait[r] = 0
<1>1. Init => KInv
  BY InitTInv, NameAssumption DEF KInv, JustAsked, Init, Source
<1>2. KInv /\ [Next]_allvars => [Justified]_allvars
  <2>. SUFFICES ASSUME KInv, Next, NEW s \in Session, phase[s] = "asking", phase'[s] = "top",
                       NEW h \in Session, owner[want[s]] = h, phase[h] = "read", want[s] \in kick
                PROVE  \E r \in Session \ {s} : phase[r] = "asking" /\ want[r] = want[s] /\ wait[r] = 0
    OBVIOUS
  <2>1. Types /\ SessionSound(s) /\ SessionTimely(h)
    BY DEF KInv, TInv, Inv, SourcesTypeOK, Types, Sound, Timely, Source
  <2>2. chan[h] = want[s] BY <2>1 DEF SessionTimely, SessionSound
  <2>3. PICK r \in Session : phase[r] = "asking" /\ want[r] = chan[h] /\ wait[r] = 0
    BY <2>2 DEF KInv, JustAsked
  <2>4. wait[s] >= TakeoverWait
    <3>1. PICK q \in Source : Step(q)
      <4>1. ~Tick BY DEF Tick
      <4>2. CASE Quiet BY <4>2 DEF Quiet, Step
      <4>3. CASE \E q \in Source : Hears(q) BY <4>3 DEF Hears, Hearing, Step, Source
      <4>. QED BY <4>1, <4>2, <4>3 DEF Next
    <3>2. q = s
      BY <2>1, <3>1, NameAssumption, SessionKept, WorkerKept
         DEF KInv, TInv, Inv, Step, Moves, Kept, Private, Source
    <3>3. Poll(s) \/ Refuse(s)
      BY <3>1, <3>2, NameAssumption
          DEF Step, Moves, SessionMoves, SessionPeer, KickSeen, Wakes, Open, OpenFails, Top, Source,
              DirectoryFails, Finished, Leave, Connect, Receives, BadName, Ask, OneAsk, Finish, Hangup, Fail, Hearing, Media
    <3>. QED BY <2>1, <3>3, NameAssumption DEF Poll, Takes, Refuse, Source
  <2>5. r # s BY <2>3, <2>4, TimerAssumption
  <2>. QED BY <2>2, <2>3, <2>5
<1>. QED BY <1>1, <1>2, NextKInv, PTL DEF Spec, RefusalJustified
====
