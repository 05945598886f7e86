---- MODULE Sources ----
(***************************************************************************)
(* The loops and timers of the program's sources: the connections of       *)
(* src/rtmp/session.rs, which publish what a peer sends, and the workers of *)
(* src/rtmp/pull.rs, which fetch a stream.  They share the registry, seen   *)
(* through its promise (SingleSource) with the kick signal of each lease.  *)
(* Time passes in ticks, and only when nobody is late: a step that is due  *)
(* is taken first.  What a packager does is in DashPackager and Takeover.  *)
(***************************************************************************)
EXTENDS Integers

CONSTANTS Session, Worker, Channel,
          ChannelOf,      \* the configured channel of each worker
          None, Nobody,
          Lost,           \* the owner of a lease that nobody will release
          MediaIdle,      \* MEDIA_IDLE_TIMEOUT of a session, in ticks
          ReadWake,       \* READ_WAKE_TIMEOUT, or the skew interval if shorter
          TakeoverWait,   \* TAKEOVER_WAIT
          ConnectTimeout, ReadTimeout, PullIdle, PullWake, Reconnect, \* of a worker
          DrainTime,      \* bound on the time a packager needs to finish
          Keys,             \* the channels that the peer of each session asks for
          MaxAsks, MaxEnds, \* the publish requests, and the ends of a publication, that
                            \* it sends at most in one read (64 KiB) or with the handshake
          MayFail         \* whether directories and packagers may fail to open

Source == Session \cup Worker

ASSUME TimerAssumption ==
    /\ MediaIdle \in Nat \ {0} /\ ReadWake \in Nat \ {0} /\ TakeoverWait \in Nat \ {0}
    /\ ConnectTimeout \in Nat \ {0} /\ ReadTimeout \in Nat \ {0} /\ PullIdle \in Nat \ {0}
    /\ PullWake \in Nat \ {0} /\ Reconnect \in Nat \ {0} /\ DrainTime \in Nat
    /\ MaxAsks \in [Session -> Nat] /\ MaxEnds \in [Session -> Nat]
ASSUME NameAssumption ==
    /\ Session \cap Worker = {} /\ Source \cap {Nobody, Lost} = {} /\ Nobody # Lost
    /\ Keys \in [Session -> SUBSET Channel]
    /\ None \notin Channel /\ ChannelOf \in [Worker -> Channel] /\ MayFail \in BOOLEAN

VARIABLES
    owner,  \* the registry: who holds each channel
    kick,   \* the channels whose registered lease has been asked to go
    phase,  \* where each source is
    chan,   \* the channel of a session's guard or of a worker's lease
    want,   \* the channel a source is asking for
    pkg,    \* the channel whose directory its packager fills
    media,  \* ticks since the last media (a session is publishing from the
            \* first media or publish request on), or Never
    wait,   \* ticks spent in the phase or in the current read
    asks, ends, \* what a session has still to handle of the batch it has read
    silent  \* history: ticks since a peer really sent media, or began to publish or play

batch    == <<asks, ends>>
own      == <<phase, chan, want, pkg, media, wait, batch>>
vars     == <<owner, kick, own>>
allvars  == <<vars, silent>>
Never    == -1
Early    == -2  \* a publish request came with the handshake, and nothing since

SessionPhases == {"out", "top", "read", "asking", "granted", "finishing", "closing"}
WorkerPhases  == {"start", "waiting", "granted", "dead", "connecting", "setup", "playing", "resting"}
Later(m, n)   == IF m > n THEN m ELSE n

SourcesTypeOK ==
    /\ owner \in [Channel -> Source \cup {Nobody, Lost}]
    /\ kick \subseteq {c \in Channel : owner[c] # Nobody}
    /\ phase \in [Source -> SessionPhases \cup WorkerPhases]
    /\ \A s \in Session : phase[s] \in SessionPhases
    /\ \A w \in Worker : phase[w] \in WorkerPhases
    /\ chan \in [Source -> Channel \cup {None}] /\ want \in [Source -> Channel \cup {None}]
    /\ pkg \in [Source -> Channel \cup {None}]
    /\ media \in [Source -> Nat \cup {Never}] /\ silent \in [Source -> Nat \cup {Never, Early}]
    /\ wait \in [Source -> Nat]
    /\ asks \in [Session -> Nat] /\ ends \in [Session -> Nat]
    /\ \A s \in Session : asks[s] <= MaxAsks[s] /\ ends[s] <= MaxEnds[s]

Init ==
    /\ owner = [c \in Channel |-> Nobody] /\ kick = {}
    /\ phase = [s \in Source |-> IF s \in Session THEN "out" ELSE "start"]
    /\ chan = [s \in Source |-> None] /\ want = [s \in Source |-> None]
    /\ pkg = [s \in Source |-> None]
    /\ media = [s \in Source |-> Never] /\ wait = [s \in Source |-> 0]
    /\ asks = [s \in Session |-> 0] /\ ends = [s \in Session |-> 0]
    /\ silent = media

\* A source enters a phase, and its timer starts.
Enters(s, p) == phase' = [phase EXCEPT ![s] = p] /\ wait' = [wait EXCEPT ![s] = 0]

\* try_acquire: a free channel is registered for s, with a fresh signal.
Takes(s, c) == owner[c] = Nobody /\ owner' = [owner EXCEPT ![c] = s] /\ UNCHANGED kick
\* Mutant: the signal is kept with the channel, and not with the lease.
GivesKeepingSignal(c) ==
    /\ owner' = [d \in Channel |-> IF d = c THEN Nobody ELSE owner[d]] /\ UNCHANGED kick
\* release of a channel, if there is one: its slot goes, and the signal with it.
Gives(c) == /\ owner' = [d \in Channel |-> IF d = c THEN Nobody ELSE owner[d]]
            /\ kick' = kick \ {c}
registry == <<owner, kick>>

-----------------------------------------------------------------------------
\* What a read, or the end of the handshake, hands over: a batch with a publish
\* requests and e ends of a publication, handled one after the other.
Holds(s, a, e) ==
    /\ a \in 0..MaxAsks[s] /\ e \in 0..MaxEnds[s]
    /\ asks' = [asks EXCEPT ![s] = a] /\ ends' = [ends EXCEPT ![s] = e]

\* A peer connects; the handshake succeeds, and what the peer sent with it is
\* handled first, without a timer for its media.
Connect(s, a, e) ==
    /\ phase[s] = "out" /\ Enters(s, "top") /\ Holds(s, a, e)
    /\ UNCHANGED <<registry, chan, want, pkg, media>>

KickedOnWake(s) == chan[s] \in kick /\ wait[s] >= ReadWake  \* mutant
Kicked(s) == chan[s] \in kick

\* The top of the loop, once the batch is handled: no media for too long, or
\* kicked, and the session leaves, its guard cleared at once; or it reads on.
Top(s) ==
    /\ phase[s] = "top" /\ asks[s] = 0 /\ ends[s] = 0
    /\ \/ /\ media[s] > MediaIdle \/ Kicked(s)
          /\ Gives(chan[s]) /\ chan' = [chan EXCEPT ![s] = None]
          /\ Enters(s, "closing") /\ UNCHANGED <<want, pkg, media, batch>>
       \/ /\ media[s] <= MediaIdle /\ ~Kicked(s)
          /\ Enters(s, "read") /\ UNCHANGED <<registry, chan, want, pkg, media, batch>>

\* The signal is seen while the session waits for its peer.
KickSeen(s) ==
    /\ phase[s] = "read" /\ Kicked(s)
    /\ Gives(chan[s]) /\ chan' = [chan EXCEPT ![s] = None]
    /\ Enters(s, "closing") /\ UNCHANGED <<want, pkg, media, batch>>

\* The read budget is spent: the loop begins anew.
Wakes(s) ==
    /\ phase[s] = "read" /\ media[s] # Never /\ wait[s] >= ReadWake
    /\ Enters(s, "top")
    /\ UNCHANGED <<registry, chan, want, pkg, media, batch>>

\* Mutant: any publish request counts as media.
AskIsMedia(s, a, e) ==
    /\ phase[s] = "read" /\ Enters(s, "top") /\ Holds(s, a, e)
    /\ media' = [media EXCEPT ![s] = IF a > 0 THEN 0 ELSE @]
    /\ UNCHANGED <<registry, chan, want, pkg>>

\* A batch without media, be it only a ping; and one with media.  The batch as a
\* whole sets the time of the last media.
Receives(s, a, e) ==
    /\ phase[s] = "read" /\ Enters(s, "top") /\ Holds(s, a, e)
    /\ media' = [media EXCEPT ![s] = IF a > 0 /\ @ = Never THEN 0 ELSE @]
    /\ UNCHANGED <<registry, chan, want, pkg>>
Media(s, a, e) ==
    /\ phase[s] = "read" /\ Enters(s, "top") /\ Holds(s, a, e)
    /\ media' = [media EXCEPT ![s] = 0]
    /\ UNCHANGED <<registry, chan, want, pkg>>

\* A publish request is handled.
OneAsk(s) == phase[s] = "top" /\ asks[s] > 0 /\ asks' = [asks EXCEPT ![s] = @ - 1]

\* One for another application or with an unsafe name is rejected.
BadName(s) ==
    /\ OneAsk(s) /\ Enters(s, "top")
    /\ UNCHANGED <<registry, chan, want, pkg, media, ends>>

\* Else the channel is taken, or the signal of its registered lease is set,
\* whoever has that lease, and be it lost.
Ask(s, c) ==
    /\ OneAsk(s) /\ want' = [want EXCEPT ![s] = c]
    /\ \/ Takes(s, c) /\ Enters(s, "granted")
       \/ /\ owner[c] # Nobody /\ Enters(s, "asking")
          /\ kick' = kick \cup {c} /\ UNCHANGED owner
    /\ UNCHANGED <<chan, pkg, media, ends>>

\* The requester polls, and finds the channel free.
Poll(s) ==
    /\ phase[s] = "asking" /\ Takes(s, want[s]) /\ Enters(s, "granted")
    /\ UNCHANGED <<chan, want, pkg, media, batch>>

\* The time is over: the request is rejected.
Refuse(s) ==
    /\ phase[s] = "asking" /\ wait[s] >= TakeoverWait
    /\ want' = [want EXCEPT ![s] = None] /\ Enters(s, "top")
    /\ UNCHANGED <<registry, chan, pkg, media, batch>>

\* Mutant: the guard keeps its old lease.
OpenKeepingOld(s) ==
    /\ phase[s] = "granted" /\ s \in Session
    /\ pkg' = [pkg EXCEPT ![s] = want[s]]
    /\ chan' = [chan EXCEPT ![s] = IF @ = None THEN want[s] ELSE @] /\ UNCHANGED registry
    /\ want' = [want EXCEPT ![s] = None] /\ Enters(s, "top") /\ UNCHANGED <<media, batch>>

\* The packager opens, replacing an older one; the guard takes the lease,
\* and an older one of its own is released.
Open(s) ==
    /\ phase[s] = "granted" /\ s \in Session
    /\ pkg' = [pkg EXCEPT ![s] = want[s]]
    /\ chan' = [chan EXCEPT ![s] = want[s]] /\ Gives(chan[s])
    /\ want' = [want EXCEPT ![s] = None] /\ Enters(s, "top") /\ UNCHANGED <<media, batch>>

\* The packager fails to open: the channel is released, the peer rejected,
\* and what the session published before goes on.
OpenFails(s) ==
    /\ MayFail /\ phase[s] = "granted" /\ s \in Session
    /\ Gives(want[s]) /\ want' = [want EXCEPT ![s] = None]
    /\ Enters(s, "top") /\ UNCHANGED <<chan, pkg, media, batch>>

Ends(s) ==
    /\ chan' = [chan EXCEPT ![s] = None] /\ want' = [want EXCEPT ![s] = None]
    /\ pkg' = [pkg EXCEPT ![s] = None] /\ media' = [media EXCEPT ![s] = Never]
    /\ asks' = [asks EXCEPT ![s] = 0] /\ ends' = [ends EXCEPT ![s] = 0]
    /\ Enters(s, "out")

\* The directory fails to open: the session ends with an error, its guard
\* releases the channel it had, and nobody the one it had been granted: that
\* slot stays, with its signal.
DirectoryFails(s) ==
    /\ MayFail /\ phase[s] = "granted" /\ s \in Session
    /\ owner' = [c \in Channel |-> IF c = want[s] THEN Lost
                                   ELSE IF c = chan[s] THEN Nobody ELSE owner[c]]
    /\ kick' = kick \ {chan[s]}
    /\ Ends(s)

\* PublishStreamFinished: the packager, if there is one, is finished and wiped
\* while the guard is held; the connection goes on.
Finish(s) ==
    /\ phase[s] = "top" /\ ends[s] > 0 /\ ends' = [ends EXCEPT ![s] = @ - 1]
    /\ Enters(s, "finishing") /\ UNCHANGED <<registry, chan, want, pkg, media, asks>>
Finished(s) ==
    /\ phase[s] = "finishing"
    /\ pkg' = [pkg EXCEPT ![s] = None]
    /\ Gives(chan[s]) /\ chan' = [chan EXCEPT ![s] = None]
    /\ Enters(s, "top") /\ UNCHANGED <<want, media, batch>>

\* The end of the connection, or a message that cannot be parsed: the loop is
\* left with the guard still held, and released once the packager is finished.
Hangup(s) ==
    /\ phase[s] = "read" /\ Enters(s, "closing")
    /\ UNCHANGED <<registry, chan, want, pkg, media, batch>>
Leave(s) == phase[s] = "closing" /\ Gives(chan[s]) /\ Ends(s)

\* An error, in a read or in an answer, leaves handle_connection by `?`.
Fail(s) == phase[s] \in {"read", "top"} /\ Gives(chan[s]) /\ Ends(s)

\* What a session does by itself.
SessionMoves(s) ==
    \/ Top(s) \/ KickSeen(s) \/ Wakes(s) \/ BadName(s)
    \/ (\E c \in Keys[s] : Ask(s, c)) \/ Poll(s) \/ Refuse(s) \/ Finish(s)
    \/ Open(s) \/ OpenFails(s) \/ DirectoryFails(s) \/ Finished(s) \/ Leave(s)
SessionPeer(s) ==
    \/ \E a \in 0..MaxAsks[s], e \in 0..MaxEnds[s] : Connect(s, a, e) \/ Receives(s, a, e)
    \/ Hangup(s) \/ Fail(s)

-----------------------------------------------------------------------------
\* Mutant: one attempt, and the worker is gone.
AcquireOnce(w) ==
    /\ phase[w] = "start"
    /\ \/ Takes(w, ChannelOf[w]) /\ Enters(w, "granted") /\ chan' = [chan EXCEPT ![w] = ChannelOf[w]]
       \/ /\ owner[ChannelOf[w]] # Nobody /\ Enters(w, "dead")
          /\ UNCHANGED <<registry, chan>>
    /\ UNCHANGED <<want, pkg, media, batch>>

\* run_one: try_acquire, again and again.
Acquire(w) ==
    /\ phase[w] \in {"start", "waiting"} /\ (phase[w] = "waiting" => wait[w] >= Reconnect)
    /\ \/ Takes(w, ChannelOf[w]) /\ Enters(w, "granted") /\ chan' = [chan EXCEPT ![w] = ChannelOf[w]]
       \/ /\ owner[ChannelOf[w]] # Nobody /\ Enters(w, "waiting")
          /\ UNCHANGED <<registry, chan>>
    /\ UNCHANGED <<want, pkg, media, batch>>

\* run_with_lease: a packager for the lease, and a first session.
Begin(w) ==
    /\ phase[w] = "granted" /\ w \in Worker
    /\ pkg' = [pkg EXCEPT ![w] = chan[w]] /\ Enters(w, "connecting")
    /\ UNCHANGED <<registry, chan, want, media, batch>>

\* The directory or the packager fails to open: the worker returns, and its slot
\* stays, with its signal.
GivesUp(w) ==
    /\ MayFail /\ phase[w] = "granted" /\ w \in Worker
    /\ owner' = [owner EXCEPT ![chan[w]] = Lost] /\ UNCHANGED kick
    /\ chan' = [chan EXCEPT ![w] = None] /\ Enters(w, "dead")
    /\ UNCHANGED <<want, pkg, media, batch>>

\* A session ends, the directory is wiped, the worker rests before the next.
Rests(w) == Enters(w, "resting") /\ media' = [media EXCEPT ![w] = Never]
Reconnects(w) ==
    /\ phase[w] = "resting" /\ wait[w] >= Reconnect /\ Enters(w, "connecting")
    /\ UNCHANGED media

TimesOut(w) ==
    /\ \/ phase[w] = "connecting" /\ wait[w] >= ConnectTimeout
       \/ phase[w] = "setup" /\ wait[w] >= ReadTimeout
    /\ Rests(w)

\* Mutant: whatever is read counts as media.
ReadsAny(w, new) ==
    /\ phase[w] = "playing" /\ Enters(w, "playing")
    /\ media' = [media EXCEPT ![w] = 0]

\* A read of a playing session, or the end of its budget; at the top of the
\* loop the session ends if its last media is too old.
Reads(w, new) ==
    /\ phase[w] = "playing"
    /\ IF new <= PullIdle THEN Enters(w, "playing") /\ media' = [media EXCEPT ![w] = new]
                          ELSE Rests(w)

\* From the origin: it accepts the connection, answers something, accepts the
\* request to play, sends media or something else, or ends.
Connected(w) == phase[w] = "connecting" /\ Enters(w, "setup") /\ UNCHANGED media
Answers(w)   == phase[w] = "setup" /\ Enters(w, "setup") /\ UNCHANGED media
Plays(w)     == phase[w] = "setup" /\ Enters(w, "playing") /\ media' = [media EXCEPT ![w] = 0]
Closes(w)    == phase[w] \in {"connecting", "setup", "playing"} /\ Rests(w)

kept == <<registry, chan, want, pkg, batch>>
WorkerMoves(w) ==
    \/ Acquire(w) \/ Begin(w) \/ GivesUp(w)
    \/ (Reconnects(w) \/ TimesOut(w) \/ (wait[w] >= PullWake /\ Reads(w, media[w]))) /\ UNCHANGED kept
WorkerPeer(w) ==
    (Connected(w) \/ Answers(w) \/ Plays(w) \/ Reads(w, media[w]) \/ Closes(w)) /\ UNCHANGED kept

-----------------------------------------------------------------------------
Moves(s) == IF s \in Session THEN SessionMoves(s) ELSE WorkerMoves(s)

\* A timer that nobody reads stands still.
Timed(s) == ~(phase[s] \in {"out", "dead"} \/ (phase[s] = "read" /\ media[s] = Never))

\* The ticks a source may spend in a phase before it goes on.
Patience(p) ==
    CASE p \in {"top", "granted", "start"} -> 0
      [] p = "read"       -> ReadWake
      [] p = "asking"     -> TakeoverWait
      [] p \in {"finishing", "closing"} -> DrainTime
      [] p \in {"waiting", "resting"} -> Reconnect
      [] p = "connecting" -> ConnectTimeout
      [] p = "setup"      -> ReadTimeout
      [] p = "playing"    -> PullWake

\* A source whose time is over goes on by itself, and so does one that sees
\* what it waits for, or that has no packager to finish.
Due(s) ==
    \/ Timed(s) /\ wait[s] >= Patience(phase[s])
    \/ phase[s] = "read" /\ Kicked(s)
    \/ phase[s] = "asking" /\ owner[want[s]] = Nobody
    \/ phase[s] \in {"finishing", "closing"} /\ pkg[s] = None

Tick ==
    /\ \A s \in Source : ~Due(s)
    /\ wait' = [s \in Source |-> IF Timed(s) THEN wait[s] + 1 ELSE wait[s]]
    /\ media' = [s \in Source |-> IF media[s] = Never THEN Never ELSE media[s] + 1]
    /\ silent' = [s \in Source |-> IF silent[s] \in {Never, Early} THEN silent[s] ELSE silent[s] + 1]
    /\ UNCHANGED <<registry, phase, chan, want, pkg, batch>>

\* Without media a silence begins with the first request, or goes on.
Begins(s) == s \in Session /\ phase[s] = "out" /\ asks'[s] > 0
Silence(s) ==
    IF media'[s] # Never THEN (IF silent[s] \in {Never, Early} THEN 0 ELSE silent[s])
    ELSE IF phase'[s] # "out" /\ (silent[s] = Early \/ Begins(s)) THEN Early ELSE Never

\* A step without media, and one with media from the peer of s.
Quiet ==
    /\ \E s \in Source : Moves(s) \/ (s \in Session /\ SessionPeer(s)) \/ (s \in Worker /\ WorkerPeer(s))
    /\ silent' = [s \in Source |-> Silence(s)]
Hears(s) ==
    /\ IF s \in Session THEN \E a \in 0..MaxAsks[s], e \in 0..MaxEnds[s] : Media(s, a, e)
                       ELSE Reads(s, 0) /\ UNCHANGED kept
    /\ silent' = [silent EXCEPT ![s] = 0]

Next == Tick \/ Quiet \/ \E s \in Source : Hears(s)

Spec == Init /\ [][Next]_allvars

\* Nobody is late for ever, for finitely much happens in a tick; and then time
\* passes.  What is due is done, for no tick comes before.
FairSpec == Spec /\ []<>(\A s \in Source : ~Due(s)) /\ SF_vars(Tick)

-----------------------------------------------------------------------------
\* A packager fills only the directory of a channel its source holds, or has
\* just given back early; and a session that reads has a packager for its
\* channel, or neither, whatever it has asked for before.
LeaseMatchesPackager ==
    /\ \A s \in Source : pkg[s] # None /\ phase[s] # "closing" => owner[pkg[s]] = s
    /\ \A s \in Session : phase[s] = "read" => pkg[s] = chan[s]

\* session.rs:19-20, a session that stops sending media "must not hold the
\* exclusive channel lease forever": nor longer than its timers, and the waits for
\* one batch, add up to.  But for one that published with its handshake and has
\* sent neither media nor a request since: no timer runs for it.
BatchTime(s) == MaxAsks[s] * TakeoverWait + MaxEnds[s] * DrainTime
SilentHolderBounded ==
    \A c \in Channel : owner[c] \in Session =>
        silent[owner[c]] \in 0..(MediaIdle + ReadWake + Later(BatchTime(owner[c]), DrainTime)) \cup {Early}

\* pull.rs:21-26: a playing session without media is ended in time, although its
\* origin keeps it alive.
MediaGapBounded ==
    \A w \in Worker : phase[w] = "playing" => silent[w] \in 0..(PullIdle + PullWake)

\* session.rs:541-542, "kick it and wait briefly": a request is not rejected
\* because of a publisher that was asked to go and only had to read; unless it
\* was asked just now, by another request.
RefusalJustified ==
    [][\A s \in Session : phase[s] = "asking" /\ phase'[s] = "top" =>
         \A h \in Session : owner[want[s]] = h /\ phase[h] = "read" /\ want[s] \in kick =>
             \E r \in Session \ {s} : phase[r] = "asking" /\ want[r] = want[s] /\ wait[r] = 0]_allvars

\* manager.rs:27: a source that was asked to go gives its channel back.
Obeys(S) == \A c \in Channel : owner[c] \in S /\ c \in kick ~> owner[c] \notin S
KickedLeaves == Obeys(Session)
KickedWorkerLeaves == Obeys(Worker)

\* pull.rs:58, a conflict with a publisher "does not kill pull forever": if
\* publishers leave the channel alone from some time on, the worker has it.
PullKeepsTrying ==
    \A w \in Worker :
        <>[](owner[ChannelOf[w]] \notin Session \cup {Lost}) => <>[](owner[ChannelOf[w]] = w)
====
