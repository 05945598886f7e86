---- MODULE Takeover ----
(***************************************************************************)
(* The sources of one channel: publish sessions (src/rtmp/session.rs) and  *)
(* pull workers (src/rtmp/pull.rs) that take turns in the channel's        *)
(* directory.  Each owns a packager (DashPackager); the registry is seen   *)
(* through its promise (SingleSource): one holder at a time.  The order in *)
(* which a session gives the channel back and finishes its packager is the *)
(* subject of this module.                                                 *)
(***************************************************************************)
EXTENDS DashPackager, FiniteSets

CONSTANTS Puller, \* the sources that are pull workers
          Nobody

ASSUME SourceAssumption == Puller \subseteq Packager /\ Nobody \notin Packager

VARIABLES
    holder, \* the source whose lease is registered, or Nobody
    stage,  \* what each source is doing
    clean   \* history: the last source to publish found no other at work

sources == <<holder, stage, clean>>
allvars == <<vars, sources>>
Stages  == {"out", "acquired", "live", "leaving", "unpublishing", "wiped", "failed"}

TakeoverTypeOK ==
    /\ holder \in Packager \cup {Nobody} /\ (holder # Nobody => stage[holder] # "out")
    /\ stage \in [Packager -> Stages]
    /\ clean \in BOOLEAN

TakeoverInit ==
    /\ Init
    /\ holder = Nobody /\ stage = [p \in Packager |-> "out"]
    /\ clean = TRUE

Enters(p, s) == stage' = [stage EXCEPT ![p] = s]
\* A release is the owner's: a guard that was cleared early releases nothing.
Frees(p) == holder' = IF holder = p THEN Nobody ELSE holder
NoMedia == UNCHANGED vars

-----------------------------------------------------------------------------
\* try_acquire or acquire_with_takeover succeeds.
Acquire(p) ==
    /\ stage[p] = "out" /\ pipe[p] = <<>> /\ holder = Nobody
    /\ holder' = p /\ Enters(p, "acquired") /\ UNCHANGED clean
    /\ NoMedia

\* The packager is opened for the lease.
Publish(p) ==
    /\ stage[p] = "acquired" /\ Open(p)
    /\ clean' = \A q \in Packager \ {p} : stage[q] = "out" /\ pipe[q] = <<>>
    /\ Enters(p, "live") /\ UNCHANGED holder

\* Samples and codec configurations from the RTMP peer.
Receive(p) == stage[p] = "live" /\ Media(p) /\ UNCHANGED sources

\* Kicked, or no media for MEDIA_IDLE_TIMEOUT: the guard is cleared first,
\* and the packager is finished afterwards.
LeaveEarly(p) ==
    /\ p \notin Puller /\ stage[p] = "live" /\ Ready(p)
    /\ Frees(p) /\ Enters(p, "leaving") /\ UNCHANGED clean /\ NoMedia

\* The peer closed the connection, or sent what cannot be parsed.
Hangup(p) ==
    /\ p \notin Puller /\ stage[p] = "live" /\ Ready(p)
    /\ Enters(p, "leaving") /\ UNCHANGED <<holder, clean>> /\ NoMedia

\* PublishStreamFinished: finish, then prepare_for_reconnect.
Unpublish(p) ==
    /\ p \notin Puller /\ stage[p] = "live" /\ Ready(p)
    /\ Enters(p, "unpublishing") /\ UNCHANGED <<holder, clean>> /\ NoMedia

\* Mutant: the guard is cleared before the writer has been awaited.
CloseDownFrees(p) ==
    /\ stage[p] \in {"leaving", "unpublishing"} /\ pk[p].phase = "live"
    /\ \E built \in Builds, k \in 0..MaxBatch, skewed \in BOOLEAN : Finish(p, k, skewed, built)
    /\ Frees(p) /\ UNCHANGED <<stage, clean>>

\* The tail is flushed, the writer shut down and awaited.
CloseDown(p) ==
    /\ stage[p] \in {"leaving", "unpublishing"} /\ pk[p].phase = "live"
    /\ \E built \in Builds, k \in 0..MaxBatch, skewed \in BOOLEAN : Finish(p, k, skewed, built)
    /\ UNCHANGED sources

\* After PublishStreamFinished the directory is wiped as well.
Wipe(p) ==
    /\ stage[p] = "unpublishing" /\ pk[p].phase = "closed" /\ Reconnect(p)
    /\ Enters(p, "wiped") /\ UNCHANGED <<holder, clean>>

\* Mutant: the guard is not cleared.
LeaveHolding(p) ==
    /\ stage[p] = "leaving" /\ pk[p].phase = "closed" /\ Drop(p)
    /\ Enters(p, "out") /\ UNCHANGED <<holder, clean>>

\* The packager is dropped and the guard cleared, if it was not already.
Leave(p) ==
    /\ \/ stage[p] = "leaving" /\ pk[p].phase = "closed"
       \/ stage[p] = "wiped" /\ pk[p].phase = "live"
    /\ Drop(p)
    /\ Frees(p) /\ Enters(p, "out") /\ UNCHANGED clean

\* An error leaves handle_connection by `?`: the packager is dropped without
\* being finished, and then the guard.
Abort(p) ==
    /\ p \notin Puller /\ stage[p] = "live" /\ Ready(p) /\ Drop(p)
    /\ Enters(p, "failed") /\ UNCHANGED <<holder, clean>>

AbortFrees(p) ==
    /\ stage[p] = "failed"
    /\ Frees(p) /\ Enters(p, "out") /\ UNCHANGED clean /\ NoMedia

\* A pull session ended; the worker keeps its lease and packager, and does
\* not look at its KickSignal.
PullAgain(p) ==
    /\ p \in Puller /\ stage[p] = "live" /\ pk[p].phase = "live" /\ Reconnect(p)
    /\ UNCHANGED sources

\* Packagers and writers at work, whatever their source is doing.
Work(p) == Inner(p) /\ UNCHANGED sources

-----------------------------------------------------------------------------
\* What a source does by itself once it has begun.
Proceeds(p) == Publish(p) \/ CloseDown(p) \/ Wipe(p) \/ Leave(p) \/ AbortFrees(p)

Source(p) ==
    \/ Acquire(p) \/ Receive(p) \/ LeaveEarly(p) \/ Hangup(p)
    \/ Unpublish(p) \/ Abort(p) \/ PullAgain(p) \/ Proceeds(p) \/ Work(p)

\* Generations that sources under way still need to end: a bound that keeps
\* MaxGen from stopping a session half way.
Needed == 2 * Cardinality({p \in Packager : stage[p] = "acquired"})
          + Cardinality({p \in Packager : stage[p] \in {"live", "unpublishing"}})
          + Cardinality({p \in Packager : pk[p].phase = "opening"})

TakeoverNext == (\E p \in Packager : Source(p)) /\ Len(periods') + Needed' <= MaxGen

TakeoverSpec == TakeoverInit /\ [][TakeoverNext]_allvars

-----------------------------------------------------------------------------
\* writer.rs:74-75: a session that ends in order has no file job on its way
\* any more when it gives the channel back.
DrainedBeforeRelease ==
    [][\A p \in Packager :
         holder = p /\ holder' # p /\ stage[p] \in {"leaving", "unpublishing", "wiped"}
            => pk[p].todo \o pipe[p] = <<>>]_allvars

\* While a source is live, every file in the directory is of a generation it
\* began itself, if its predecessor was through: nothing is left of it or
\* arrives later.
Begun(p, g) == g # 0 => periods[g].by = p
Serving(p)  == stage[p] = "live" /\ holder = p /\ pk[p].phase # "opening"
NoForeignFile ==
    \A p \in Packager : Serving(p) /\ clean =>
        \A g \in {dir.init, dir.mpd.gen} \cup {dir.seg[n] : n \in 1..MaxSeg} : Begun(p, g)

\* writer.rs:75 and architecture.md:79: no old index.mpd lands after a wipe.
NoLateManifest == \A p \in Packager : Serving(p) => Begun(p, dir.mpd.gen)
====
