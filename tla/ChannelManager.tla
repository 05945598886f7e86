---- MODULE ChannelManager ----
(***************************************************************************)
(* The publish registry of src/channel/manager.rs: a sharded concurrent    *)
(* map from channel ids to a lease and its kick signal, at the granularity *)
(* of the map's shard locks.  A thread is a task that calls the registry:  *)
(* an RTMP session (with its PublishGuard), a pull worker or an HTTP       *)
(* handler.  A map operation that takes and drops a shard lock without     *)
(* calling anything in between is one step; the only lock that outlives a  *)
(* step is the one of an occupied entry (entryLock).                       *)
(***************************************************************************)
EXTENDS Naturals

CONSTANTS Thread, Channel, Lease,
          NoThread, NoLease,
          Shards,          \* number of shards of the map
          ShardOf,         \* the shard each channel id hashes to
          Wants,           \* the channels each thread may ask for
          FailingChannels, \* channels whose directory or packager may fail to open
          MaxTries         \* bound on the takeover retries (wait / 50 ms)

ASSUME ShardAssumption == Shards \in Nat \ {0} /\ ShardOf \in [Channel -> 1..Shards]
ASSUME CallerAssumption ==
    /\ Channel # {}
    /\ Wants \in [Thread -> SUBSET Channel] /\ FailingChannels \subseteq Channel
    /\ NoThread \notin Thread /\ NoLease \notin Lease /\ MaxTries \in Nat

VARIABLES
    slots,      \* the map: the lease registered for each channel, or NoLease
    entryLock,  \* per shard: the thread holding an occupied entry's write lock
    chanOf,     \* the channel a lease was created for
    kicked,     \* leases whose sticky KickSignal is set
    guard,      \* the lease each thread's PublishGuard owns
    got,        \* an AcquiredChannel not yet handed to the guard
    pc, chan, mode, tries, \* the call a thread is in, its channel and its loop
    at, back,   \* shard reached by retain / iter, and where list_active returns to
    cell        \* the KickSignal cloned by signal_kick

registry == <<slots, entryLock, chanOf, kicked>>
owners   == <<guard, got>>
call     == <<chan, mode, tries>>
vars     == <<registry, owners, pc, call, at, back, cell>>

\* Where a thread is after a list_active that ends a step of its call.
Returns == {"denied", "granted", "announce", "poll", "own", "install", "idle"}
Labels  == Returns \cup
    {"retain", "list_retain", "list_iter", "contains", "get_flag", "entry",
     "kick_get", "kick_signal", "remove_guard", "remove_got"}

Leases == Lease \cup {NoLease}
AnyChannel == CHOOSE c \in Channel : TRUE

TypeOK ==
    /\ slots \in [Channel -> Leases]
    /\ entryLock \in [1..Shards -> Thread \cup {NoThread}]
    /\ chanOf \in [Lease -> Channel]
    /\ kicked \subseteq Lease
    /\ guard \in [Thread -> Leases] /\ got \in [Thread -> Leases]
    /\ pc \in [Thread -> Labels] /\ back \in [Thread -> Returns]
    /\ chan \in [Thread -> Channel]
    /\ mode \in [Thread -> {"try", "takeover", "retry"}]
    /\ tries \in [Thread -> 0..MaxTries]
    /\ at \in [Thread -> 1..Shards]
    /\ cell \in [Thread -> Leases]

Init ==
    /\ slots = [c \in Channel |-> NoLease]
    /\ entryLock = [s \in 1..Shards |-> NoThread]
    /\ chanOf = [l \in Lease |-> AnyChannel]
    /\ kicked = {}
    /\ guard = [t \in Thread |-> NoLease] /\ got = [t \in Thread |-> NoLease]
    /\ pc = [t \in Thread |-> "idle"] /\ back = [t \in Thread |-> "idle"]
    /\ chan = [t \in Thread |-> AnyChannel]
    /\ mode = [t \in Thread |-> "try"] /\ tries = [t \in Thread |-> 0]
    /\ at = [t \in Thread |-> 1]
    /\ cell = [t \in Thread |-> NoLease]

-----------------------------------------------------------------------------
\* An Arc<ChannelLease> lives while the map or a caller refers to it, and its
\* flag is cleared only by Drop, that is when the last reference has gone.
Holds(t, l)  == l # NoLease /\ l \in {guard[t], got[t]}
ActiveInGuard(l) == \E t \in Thread : l # NoLease /\ guard[t] = l  \* mutant
Active(l)    == (\E c \in Channel : slots[c] = l) \/ (\E t \in Thread : Holds(t, l))
UnusedByOwners(l) == ~Active(l)                       \* mutant: recycled signals
Unused(l)    == ~Active(l) /\ \A t \in Thread : cell[t] # l
\* Leases are interchangeable: a new one is some unused one.
Fresh        == CHOOSE l \in Lease : Unused(l)

Unlocked(s)  == entryLock[s] = NoThread
Reaches(t)   == Unlocked(ShardOf[chan[t]])

Goto(t, l)   == pc' = [pc EXCEPT ![t] = l]
\* The call returns: what it kept for itself is gone.
Over(t) == /\ chan' = [chan EXCEPT ![t] = AnyChannel]
           /\ mode' = [mode EXCEPT ![t] = "try"] /\ tries' = [tries EXCEPT ![t] = 0]
\* A lease that is dropped takes its signal with it.
Dropped(l) == chanOf' = [chanOf EXCEPT ![l] = AnyChannel] /\ kicked' = kicked \ {l}
\* Call list_active and go on at l.
List(t, l)   == /\ Goto(t, "list_retain") /\ at' = [at EXCEPT ![t] = 1]
                /\ back' = [back EXCEPT ![t] = l]

-----------------------------------------------------------------------------
\* A pull worker (try) or a publish request (takeover) asks for a channel.
Start(t, c, m) ==
    /\ pc[t] = "idle"
    /\ chan' = [chan EXCEPT ![t] = c]
    /\ mode' = [mode EXCEPT ![t] = m] /\ tries' = [tries EXCEPT ![t] = 0]
    /\ Goto(t, "retain") /\ at' = [at EXCEPT ![t] = 1]
    /\ UNCHANGED <<registry, owners, back, cell>>

\* A pass over the shards goes on to the next one or ends.
NextShard(t) == at[t] < Shards /\ at' = [at EXCEPT ![t] = at[t] + 1]
LastShard(t) == at[t] = Shards /\ at' = [at EXCEPT ![t] = 1]

\* One shard of DashMap::retain, in try_acquire or in list_active.
Retain(t) ==
    /\ pc[t] \in {"retain", "list_retain"} /\ Unlocked(at[t])
    /\ slots' = [c \in Channel |->
                   IF ShardOf[c] = at[t] /\ ~Active(slots[c]) THEN NoLease ELSE slots[c]]
    /\ \/ NextShard(t) /\ UNCHANGED pc
       \/ LastShard(t) /\ Goto(t, IF pc[t] = "retain" THEN "contains" ELSE "list_iter")
    /\ UNCHANGED <<entryLock, chanOf, kicked, owners, call, back, cell>>

\* One shard of the iteration in list_active.
Iter(t) ==
    /\ pc[t] = "list_iter" /\ Unlocked(at[t])
    /\ \/ NextShard(t) /\ UNCHANGED <<pc, back>>
       \/ LastShard(t) /\ Goto(t, back[t]) /\ back' = [back EXCEPT ![t] = "idle"]
    /\ UNCHANGED <<registry, owners, call, cell>>

ContainsKey(t) ==
    /\ pc[t] = "contains" /\ Reaches(t)
    /\ Goto(t, IF slots[chan[t]] # NoLease THEN "get_flag" ELSE "entry")
    /\ UNCHANGED <<registry, owners, call, at, back, cell>>

\* The holder's flag is read for the log only; the channel may be free by now.
GetFlag(t) ==
    /\ pc[t] = "get_flag" /\ Reaches(t)
    /\ List(t, "denied")
    /\ UNCHANGED <<registry, owners, call, cell>>

\* Mutant: insert after contains_key, without looking at the entry again.
InsertAnyway(t) ==
    /\ pc[t] = "entry" /\ Reaches(t)
    /\ \E l \in Lease :
         /\ Unused(l) /\ l = Fresh
         /\ slots' = [slots EXCEPT ![chan[t]] = l]
         /\ chanOf' = [chanOf EXCEPT ![l] = chan[t]]
         /\ kicked' = kicked \ {l} /\ got' = [got EXCEPT ![t] = l]
    /\ List(t, "granted")
    /\ UNCHANGED <<entryLock, guard, call, cell>>

EntryVacant(t) ==
    /\ pc[t] = "entry" /\ Reaches(t) /\ slots[chan[t]] = NoLease
    /\ \E l \in Lease :
         /\ Unused(l) /\ l = Fresh
         /\ slots' = [slots EXCEPT ![chan[t]] = l]
         /\ chanOf' = [chanOf EXCEPT ![l] = chan[t]]
         /\ kicked' = kicked \ {l}
         /\ got' = [got EXCEPT ![t] = l]
    /\ List(t, "granted")
    /\ UNCHANGED <<entryLock, guard, call, cell>>

\* Another thread won the channel after contains_key: list_active runs while
\* the matched Entry still holds the shard's write lock.
EntryOccupied(t) ==
    /\ pc[t] = "entry" /\ Reaches(t) /\ slots[chan[t]] # NoLease
    /\ entryLock' = [entryLock EXCEPT ![ShardOf[chan[t]]] = t]
    /\ List(t, "denied")
    /\ UNCHANGED <<slots, chanOf, kicked, owners, call, cell>>

\* try_acquire returned None: give up (try), kick (takeover) or keep polling.
Denied(t) ==
    /\ pc[t] = "denied"
    /\ entryLock' = [s \in 1..Shards |-> IF entryLock[s] = t THEN NoThread ELSE entryLock[s]]
    /\ \/ mode[t] = "try" /\ Goto(t, "idle") /\ Over(t)
       \/ mode[t] = "takeover" /\ Goto(t, "kick_get") /\ UNCHANGED call
       \/ mode[t] = "retry" /\ Goto(t, "poll") /\ UNCHANGED call
    /\ UNCHANGED <<slots, chanOf, kicked, owners, at, back, cell>>

\* try_acquire returned Some; the polling loop lists the registry once more.
Granted(t) ==
    /\ pc[t] = "granted"
    /\ \/ mode[t] = "retry" /\ List(t, "own")
       \/ mode[t] # "retry" /\ Goto(t, "own") /\ UNCHANGED <<at, back>>
    /\ mode' = [mode EXCEPT ![t] = "try"] /\ tries' = [tries EXCEPT ![t] = 0]
    /\ UNCHANGED <<registry, owners, chan, cell>>

KickGet(t) ==
    /\ pc[t] = "kick_get" /\ Reaches(t)
    /\ cell' = [cell EXCEPT ![t] = slots[chan[t]]]
    /\ \/ slots[chan[t]] = NoLease /\ List(t, "poll")
       \/ slots[chan[t]] # NoLease /\ Goto(t, "kick_signal") /\ UNCHANGED <<at, back>>
    /\ UNCHANGED <<registry, owners, call>>

KickSignal(t) ==
    /\ pc[t] = "kick_signal"
    /\ kicked' = kicked \cup {l \in {cell[t]} : Active(l)}
    /\ cell' = [cell EXCEPT ![t] = NoLease]
    /\ List(t, "announce")
    /\ UNCHANGED <<slots, entryLock, chanOf, owners, call>>

\* signal_kick returned true: acquire_with_takeover logs the registry.
Announce(t) ==
    /\ pc[t] = "announce"
    /\ List(t, "poll")
    /\ UNCHANGED <<registry, owners, call, cell>>

\* Mutants: one poll too many; no deadline at all.
PollOnceMore(t) ==
    /\ pc[t] = "poll" /\ tries[t] <= MaxTries
    /\ tries' = [tries EXCEPT ![t] = @ + 1] /\ mode' = [mode EXCEPT ![t] = "retry"]
    /\ Goto(t, "retain") /\ at' = [at EXCEPT ![t] = 1]
    /\ UNCHANGED <<registry, owners, chan, back, cell>>
PollForever(t) ==
    /\ pc[t] = "poll" /\ mode' = [mode EXCEPT ![t] = "retry"]
    /\ Goto(t, "retain") /\ at' = [at EXCEPT ![t] = 1]
    /\ UNCHANGED <<registry, owners, chan, tries, back, cell>>

\* Before the deadline: sleep and try again.
PollAgain(t) ==
    /\ pc[t] = "poll" /\ tries[t] < MaxTries
    /\ tries' = [tries EXCEPT ![t] = @ + 1]
    /\ mode' = [mode EXCEPT ![t] = "retry"]
    /\ Goto(t, "retain") /\ at' = [at EXCEPT ![t] = 1]
    /\ UNCHANGED <<registry, owners, chan, back, cell>>

\* The deadline has passed: the takeover is refused.
PollTimeout(t) ==
    /\ pc[t] = "poll"
    /\ List(t, "idle") /\ Over(t)
    /\ UNCHANGED <<registry, owners, cell>>

-----------------------------------------------------------------------------
\* Mutant: the guard forgets its older lease.
TakeOverOld(t) ==
    /\ pc[t] = "own" /\ Goto(t, "install")
    /\ UNCHANGED <<registry, owners, call, at, back, cell>>

\* PublishGuard::take_over: an older lease of this guard is released first.
TakeOver(t) ==
    /\ pc[t] = "own"
    /\ Goto(t, IF guard[t] = NoLease THEN "install" ELSE "remove_guard")
    /\ UNCHANGED <<registry, owners, call, at, back, cell>>

Install(t) ==
    /\ pc[t] = "install"
    /\ guard' = [guard EXCEPT ![t] = got[t]]
    /\ got' = [got EXCEPT ![t] = NoLease]
    /\ Goto(t, "idle") /\ Over(t)
    /\ UNCHANGED <<registry, at, back, cell>>

\* The packager failed to open: the publish is refused and the id released.
Refuse(t) ==
    /\ pc[t] = "own" /\ chan[t] \in FailingChannels
    /\ Goto(t, "remove_got")
    /\ UNCHANGED <<registry, owners, call, at, back, cell>>

\* The channel directory failed to open: the error is returned with `?` and
\* the AcquiredChannel is dropped, but its id stays in the map.
Forget(t) ==
    /\ pc[t] = "own" /\ chan[t] \in FailingChannels
    /\ got' = [got EXCEPT ![t] = NoLease]
    /\ Goto(t, "idle") /\ Over(t)
    /\ UNCHANGED <<registry, guard, at, back, cell>>

\* PublishGuard::clear or its Drop.
Clear(t) ==
    /\ pc[t] = "idle" /\ guard[t] # NoLease
    /\ Goto(t, "remove_guard")
    /\ UNCHANGED <<registry, owners, call, at, back, cell>>

\* release(id) of the guard's channel.
RemoveGuard(t) ==
    /\ pc[t] = "remove_guard" /\ Unlocked(ShardOf[chanOf[guard[t]]])
    /\ slots' = [slots EXCEPT ![chanOf[guard[t]]] = NoLease]
    /\ guard' = [guard EXCEPT ![t] = NoLease] /\ Dropped(guard[t])
    /\ List(t, IF got[t] = NoLease THEN "idle" ELSE "install")
    /\ UNCHANGED <<entryLock, got, call, cell>>

\* release(id) of a channel that never reached the guard.
RemoveGot(t) ==
    /\ pc[t] = "remove_got" /\ Reaches(t)
    /\ slots' = [slots EXCEPT ![chan[t]] = NoLease]
    /\ got' = [got EXCEPT ![t] = NoLease] /\ Dropped(got[t])
    /\ List(t, "idle") /\ Over(t)
    /\ UNCHANGED <<entryLock, guard, cell>>

\* An HTTP handler asks for the active channels.
ListActive(t) ==
    /\ pc[t] = "idle"
    /\ List(t, "idle")
    /\ UNCHANGED <<registry, owners, call, cell>>

-----------------------------------------------------------------------------
\* Every step of a call under way.
Step(t) ==
    \/ Retain(t) \/ Iter(t) \/ ContainsKey(t) \/ GetFlag(t)
    \/ EntryVacant(t) \/ EntryOccupied(t) \/ Denied(t) \/ Granted(t)
    \/ KickGet(t) \/ KickSignal(t) \/ Announce(t) \/ PollAgain(t) \/ PollTimeout(t)
    \/ TakeOver(t) \/ Install(t) \/ Refuse(t) \/ Forget(t)
    \/ RemoveGuard(t) \/ RemoveGot(t)

\* A new call.
Call(t) ==
    \/ \E c \in Wants[t], m \in {"try", "takeover"} : Start(t, c, m)
    \/ Clear(t)
    \/ ListActive(t)

Next == \E t \in Thread : Step(t) \/ Call(t)

Spec == Init /\ [][Next]_vars

\* The runtime schedules every runnable task.
FairSpec == Spec /\ \A t \in Thread : WF_vars(Step(t))

-----------------------------------------------------------------------------
\* One source per channel: no two threads hold a lease of the same channel,
\* and no thread holds two (manager.rs:10-11, "only one active publisher").
MutualExclusion ==
    \A t, u \in Thread : \A l, m \in Lease :
        Holds(t, l) /\ Holds(u, m) /\ chanOf[l] = chanOf[m] => t = u /\ l = m

\* A lease somebody holds is the one registered for its channel: neither the
\* retain sweeps of other threads nor a release by id of a successor or a
\* predecessor takes it out of the map under its holder.
HolderRegistered ==
    \A t \in Thread : \A l \in Lease : Holds(t, l) => slots[chanOf[l]] = l

\* A channel is taken with nobody holding its lease only after an error
\* between the acquisition and PublishGuard::take_over.
OrphansOnlyAfterError ==
    \A c \in Channel :
        slots[c] # NoLease /\ ~(\E t \in Thread : Holds(t, slots[c])) => c \in FailingChannels

\* A takeover request never kicks its own requester unless that thread asked
\* for a channel its guard already owns, and it never kicks a lease of
\* another channel: the cloned signal of a lease that is still alive belongs
\* to the channel asked for.
KickHitsTheChannel ==
    \A t \in Thread : cell[t] # NoLease /\ Active(cell[t]) =>
        /\ chanOf[cell[t]] = chan[t]
        /\ Holds(t, cell[t]) => cell[t] = guard[t]

\* manager.rs:149-150 asks that no shard lock is held across a retain: a
\* thread in list_active never waits for a lock it holds itself.
SelfWait(t) == pc[t] \in {"list_retain", "list_iter"} /\ entryLock[at[t]] = t
NoSelfWait == \A t \in Thread : ~SelfWait(t)

\* Every call on the registry returns, whatever the others do, unless one of
\* them waits for itself: no other order of the locks hangs the process.
EveryCallReturns ==
    \A t \in Thread : pc[t] # "idle" ~> pc[t] = "idle" \/ \E u \in Thread : SelfWait(u)

\* The registry implements the abstract one: the owner of a channel is the
\* thread that holds the lease registered for it.
Owner(c) ==
    IF slots[c] = NoLease THEN "free"
    ELSE IF \E t \in Thread : Holds(t, slots[c])
         THEN CHOOSE t \in Thread : Holds(t, slots[c])
         ELSE "lost"

Abstract == INSTANCE SingleSource
    WITH Source <- Thread, Free <- "free", Lost <- "lost",
         owner <- [c \in Channel |-> Owner(c)]

\* Every step of the registry is a claim, a hand back or a loss by the thread
\* concerned, or changes no owner.
ImplementsSingleSource == Abstract!Spec
====
