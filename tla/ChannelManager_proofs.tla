---- MODULE ChannelManager_proofs ----
(***************************************************************************)
(* For every set of threads, channels and leases, every number of shards   *)
(* and every placement of the channels: a channel has one holder, the map  *)
(* agrees with its holders, and a channel is orphaned only after an error. *)
(***************************************************************************)
EXTENDS ChannelManager, TLAPS

\* The label a thread runs next outside list_active.
Target(t) == IF pc[t] \in {"list_retain", "list_iter"} THEN back[t] ELSE pc[t]

\* Labels at which try_acquire has succeeded and the guard has not taken over.
Owning == {"granted", "own", "install", "remove_got"}

\* No lease is held twice.
Distinct ==
    /\ \A t, u \in Thread : guard[t] = guard[u] /\ guard[t] # NoLease => t = u
    /\ \A t, u \in Thread : got[t] = got[u] /\ got[t] # NoLease => t = u
    /\ \A t, u \in Thread : guard[t] = got[u] => guard[t] = NoLease

\* A registered lease was created for the channel it is registered for.
SlotsNamed == \A c \in Channel : slots[c] # NoLease => chanOf[slots[c]] = c

\* What a thread holds at each point of its call.
CallOwns ==
    \A t \in Thread :
        /\ Target(t) \in Owning => got[t] # NoLease
        /\ Target(t) \notin Owning \cup {"remove_guard"} => got[t] = NoLease
        /\ got[t] # NoLease => chanOf[got[t]] = chan[t]
        /\ pc[t] = "remove_guard" => guard[t] # NoLease
        /\ Target(t) = "install" => guard[t] = NoLease
        /\ pc[t] = "kick_signal" => cell[t] # NoLease

IInv == TypeOK /\ HolderRegistered /\ Distinct /\ SlotsNamed /\ CallOwns
-----------------------------------------------------------------------------
\* The sweep of retain removes nothing: the map's own reference keeps every
\* registered lease active.
LEMMA RetainRemovesNothing ==
    ASSUME TypeOK, NEW t \in Thread, Retain(t)
    PROVE  slots' = slots
PROOF
<1>1. \A c \in Channel : Active(slots[c])
    BY DEF Active
<1> QED
    BY <1>1 DEF Retain, NextShard, LastShard, TypeOK

\* A pass over the shards stays within them.
LEMMA PassStaysInShards ==
    ASSUME TypeOK, NEW t \in Thread, NextShard(t) \/ LastShard(t)
    PROVE  at' \in [Thread -> 1..Shards]
PROOF
<1>1. at[t] \in 1..Shards /\ Shards \in Nat \ {0}
    BY ShardAssumption DEF TypeOK
<1>2. CASE NextShard(t)
  <2>1. at[t] + 1 \in 1..Shards
    BY <1>1, <1>2 DEF NextShard
  <2> QED
    BY <2>1, <1>2 DEF NextShard, TypeOK
<1>3. CASE LastShard(t)
  <2>1. 1 \in 1..Shards
    BY <1>1
  <2> QED
    BY <2>1, <1>3 DEF LastShard, TypeOK
<1> QED
    BY <1>2, <1>3

\* A call of list_active starts at the first shard.
LEMMA ListStartsInShards ==
    ASSUME TypeOK, NEW t \in Thread, NEW l, List(t, l) \/ UNCHANGED at
    PROVE  at' \in [Thread -> 1..Shards]
PROOF
<1>1. 1 \in 1..Shards
    BY ShardAssumption
<1> QED
    BY <1>1 DEF List, TypeOK

\* There is a channel to stand for none.
LEMMA AnyChannelIsOne == AnyChannel \in Channel
BY CallerAssumption DEF AnyChannel

\* What a call that is over keeps for itself has its type.
LEMMA OverKeepsTypes ==
    ASSUME TypeOK, NEW t \in Thread, Over(t)
    PROVE  /\ chan' \in [Thread -> Channel] /\ tries' \in [Thread -> 0..MaxTries]
           /\ mode' \in [Thread -> {"try", "takeover", "retry"}]
PROOF
<1>1. 0 \in 0..MaxTries
    BY CallerAssumption
<1> QED
    BY <1>1, AnyChannelIsOne DEF Over, TypeOK

\* Nor do the leases lose theirs when one is dropped.
LEMMA DroppedKeepsTypes ==
    ASSUME TypeOK, NEW l \in Lease, Dropped(l)
    PROVE  chanOf' \in [Lease -> Channel] /\ kicked' \subseteq Lease
BY AnyChannelIsOne DEF Dropped, TypeOK

\* An empty registry with every thread idle satisfies the invariant.
LEMMA InitEstablishes == Init => IInv
PROOF
<1> SUFFICES ASSUME Init PROVE IInv
    OBVIOUS
<1> USE ShardAssumption, CallerAssumption
<1>1. AnyChannel \in Channel
    BY AnyChannelIsOne
<1>2. TypeOK
    BY <1>1 DEF Init, TypeOK, Leases, Labels, Returns
<1>3. HolderRegistered
    BY DEF Init, HolderRegistered, Holds
<1>4. Distinct /\ SlotsNamed
    BY DEF Init, Distinct, SlotsNamed
<1>5. CallOwns
    BY DEF Init, CallOwns, Target, Owning
<1> QED
    BY <1>2, <1>3, <1>4, <1>5 DEF IInv

-----------------------------------------------------------------------------
\* Every step keeps the invariant.  Under each action: the types, what the map
\* and the holders say of each other, and what the call owns where it stands.
LEMMA StepKeeps == ASSUME IInv, NEW t \in Thread, Step(t) PROVE IInv'
PROOF
<1> USE ShardAssumption, CallerAssumption DEF IInv
<1>1. ASSUME Retain(t) PROVE IInv'
  <2> USE <1>1
  <2>1. TypeOK'
    <3>1. at' \in [Thread -> 1..Shards]
        BY PassStaysInShards DEF Retain
    <3>2. pc' \in [Thread -> Labels]
        BY DEF Retain, NextShard, LastShard, TypeOK, Goto, Labels
    <3> QED
        BY <3>1, <3>2, RetainRemovesNothing DEF Retain, NextShard, LastShard, TypeOK, owners, call
  <2>2. HolderRegistered' /\ Distinct' /\ SlotsNamed'
    BY <2>1, RetainRemovesNothing DEF Retain, HolderRegistered, Distinct, SlotsNamed,
        Holds, owners, call, TypeOK
  <2>3. CallOwns'
    <3>1. CASE at[t] < Shards
        BY <3>1, <2>1 DEF Retain, NextShard, LastShard, TypeOK, CallOwns, Target, Owning, Returns, Labels,
            owners, call, Goto
    <3>2. CASE ~(at[t] < Shards)
        BY <3>2, <2>1 DEF Retain, NextShard, LastShard, TypeOK, CallOwns, Target, Owning, Returns, Labels,
            owners, call, Goto
    <3> QED BY <3>1, <3>2
  <2> QED BY <2>1, <2>2, <2>3
<1>2. ASSUME Iter(t) PROVE IInv'
  <2> USE <1>2
  <2>1. TypeOK'
    <3>1. at' \in [Thread -> 1..Shards]
        BY PassStaysInShards DEF Iter
    <3>2. pc' \in [Thread -> Labels] /\ back' \in [Thread -> Returns]
        BY DEF Iter, NextShard, LastShard, TypeOK, Goto, Labels, Returns
    <3> QED
        BY <3>1, <3>2 DEF Iter, NextShard, LastShard, TypeOK, registry, owners, call
  <2>2. HolderRegistered' /\ Distinct' /\ SlotsNamed'
    BY <2>1 DEF Iter, NextShard, LastShard, TypeOK, HolderRegistered, Distinct, SlotsNamed, CallOwns, Holds,
        Leases, Target, Owning, registry, owners, call, List, Goto
  <2>3. CallOwns'
    <3>1. Target(t)' = Target(t) /\ pc'[t] \in Returns \cup {"list_iter"}
        BY DEF Iter, Target, TypeOK, Goto, Returns
    <3>2. \A u \in Thread \ {t} : Target(u)' = Target(u) /\ pc'[u] = pc[u]
        BY DEF Iter, Target, TypeOK, Goto
    <3> QED
        BY <3>1, <3>2 DEF Iter, CallOwns, Returns, registry, owners, call
  <2> QED BY <2>1, <2>2, <2>3
<1>3. ASSUME ContainsKey(t) PROVE IInv'
  <2> USE <1>3
  <2>1. TypeOK'
    BY DEF ContainsKey, TypeOK, Leases, Labels, Returns, registry, owners, call, List, Goto
  <2>2. HolderRegistered' /\ Distinct' /\ SlotsNamed'
    BY <2>1 DEF ContainsKey, TypeOK, HolderRegistered, Distinct, SlotsNamed, CallOwns,
        Holds, Leases, Target, Owning, registry, owners, call, List, Goto
  <2>3. CallOwns'
    BY <2>1 DEF ContainsKey, TypeOK, CallOwns, Target, Owning, Returns, Leases, registry,
        owners, call, List, Goto
  <2> QED BY <2>1, <2>2, <2>3
<1>4. ASSUME GetFlag(t) PROVE IInv'
  <2> USE <1>4
  <2>1. TypeOK'
    BY DEF GetFlag, TypeOK, Leases, Labels, Returns, registry, owners, call, List, Goto
  <2>2. HolderRegistered' /\ Distinct' /\ SlotsNamed'
    BY <2>1 DEF GetFlag, TypeOK, HolderRegistered, Distinct, SlotsNamed, CallOwns, Holds,
        Leases, Target, Owning, registry, owners, call, List, Goto
  <2>3. CallOwns'
    BY <2>1 DEF GetFlag, TypeOK, CallOwns, Target, Owning, Returns, Leases, registry,
        owners, call, List, Goto
  <2> QED BY <2>1, <2>2, <2>3
<1>5. ASSUME EntryVacant(t) PROVE IInv'
  <2> USE <1>5
  <2>1. TypeOK'
    BY DEF EntryVacant, TypeOK, Leases, Labels, Returns, registry, owners, call, List, Goto
  <2>2. HolderRegistered' /\ Distinct' /\ SlotsNamed'
    BY <2>1 DEF EntryVacant, TypeOK, HolderRegistered, Distinct, SlotsNamed, CallOwns,
        Holds, Leases, Target, Owning, registry, owners, call, List, Goto, Unused, Active
  <2>3. CallOwns'
    BY <2>1 DEF EntryVacant, TypeOK, CallOwns, Target, Owning, Returns, Leases, registry,
        owners, call, List, Goto, Unused, Active, Holds, Distinct
  <2> QED BY <2>1, <2>2, <2>3
<1>6. ASSUME EntryOccupied(t) PROVE IInv'
  <2> USE <1>6
  <2>1. TypeOK'
    BY DEF EntryOccupied, TypeOK, Leases, Labels, Returns, registry, owners, call, List,
        Goto
  <2>2. HolderRegistered' /\ Distinct' /\ SlotsNamed'
    BY <2>1 DEF EntryOccupied, TypeOK, HolderRegistered, Distinct, SlotsNamed, CallOwns,
        Holds, Leases, Target, Owning, registry, owners, call, List, Goto
  <2>3. CallOwns'
    BY <2>1 DEF EntryOccupied, TypeOK, CallOwns, Target, Owning, Returns, Leases, registry,
        owners, call, List, Goto
  <2> QED BY <2>1, <2>2, <2>3
<1>7. ASSUME Denied(t) PROVE IInv'
  <2> USE <1>7
  <2>1. TypeOK'
    <3>1. /\ chan' \in [Thread -> Channel] /\ tries' \in [Thread -> 0..MaxTries]
          /\ mode' \in [Thread -> {"try", "takeover", "retry"}]
        BY OverKeepsTypes DEF Denied, TypeOK, call
    <3>2. \E l \in {"idle", "kick_get", "poll"} : Goto(t, l)
        BY DEF Denied
    <3>3. pc' \in [Thread -> Labels]
        BY <3>2 DEF TypeOK, Goto, Labels, Returns
    <3>4. entryLock' \in [1..Shards -> Thread \cup {NoThread}]
        BY DEF Denied, TypeOK
    <3> QED
        BY <3>1, <3>3, <3>4 DEF Denied, TypeOK, owners
  <2>2. HolderRegistered' /\ Distinct' /\ SlotsNamed'
    BY DEF Denied, HolderRegistered, Distinct, SlotsNamed, Holds, owners
  <2>3. CallOwns'
    <3>1. pc[t] = "denied" /\ pc'[t] \in {"idle", "kick_get", "poll"}
        BY DEF Denied, TypeOK, Goto
    <3>2. /\ \A u \in Thread \ {t} : pc'[u] = pc[u] /\ chan'[u] = chan[u]
          /\ UNCHANGED <<got, guard, chanOf, back, cell>>
        BY DEF Denied, TypeOK, Goto, Over, call, owners
    <3>3. got[t] = NoLease
        BY <3>1 DEF CallOwns, Target, Owning
    <3> QED
        BY <3>1, <3>2, <3>3 DEF CallOwns, Target, Owning
  <2> QED BY <2>1, <2>2, <2>3
<1>8. ASSUME Granted(t) PROVE IInv'
  <2> USE <1>8
  <2>1. TypeOK'
    <3>1. at' \in [Thread -> 1..Shards]
        BY ListStartsInShards DEF Granted
    <3>2. pc' \in [Thread -> Labels] /\ back' \in [Thread -> Returns]
        BY DEF Granted, TypeOK, List, Goto, Labels, Returns
    <3>3. mode' \in [Thread -> {"try", "takeover", "retry"}] /\ tries' \in [Thread -> 0..MaxTries]
        BY DEF Granted, TypeOK
    <3> QED
        BY <3>1, <3>2, <3>3 DEF Granted, TypeOK, registry, owners
  <2>2. HolderRegistered' /\ Distinct' /\ SlotsNamed'
    BY <2>1 DEF Granted, TypeOK, HolderRegistered, Distinct, SlotsNamed, CallOwns, Holds,
        Leases, Target, Owning, registry, owners, call, List, Goto
  <2>3. CallOwns'
    <3>1. Target(t)' = "own" /\ pc'[t] \in {"own", "list_retain"}
        BY DEF Granted, Target, TypeOK, List, Goto
    <3>2. \A u \in Thread \ {t} : Target(u)' = Target(u) /\ pc'[u] = pc[u]
        BY DEF Granted, Target, TypeOK, List, Goto
    <3>3. Target(t) = "granted"
        BY DEF Granted, Target
    <3> QED
        BY <3>1, <3>2, <3>3 DEF Granted, CallOwns, Owning, registry, owners
  <2> QED BY <2>1, <2>2, <2>3
<1>9. ASSUME KickGet(t) PROVE IInv'
  <2> USE <1>9
  <2>1. TypeOK'
    <3>1. at' \in [Thread -> 1..Shards]
        BY ListStartsInShards DEF KickGet
    <3>2. pc' \in [Thread -> Labels] /\ back' \in [Thread -> Returns]
        BY DEF KickGet, TypeOK, List, Goto, Labels, Returns
    <3>3. cell' \in [Thread -> Leases]
        BY DEF KickGet, TypeOK
    <3> QED
        BY <3>1, <3>2, <3>3 DEF KickGet, TypeOK, registry, owners, call
  <2>2. HolderRegistered' /\ Distinct' /\ SlotsNamed'
    BY <2>1 DEF KickGet, TypeOK, HolderRegistered, Distinct, SlotsNamed, CallOwns, Holds,
        Leases, Target, Owning, registry, owners, call, List, Goto
  <2>3. CallOwns'
    <3>1. /\ Target(t)' \in {"poll", "kick_signal"} /\ pc'[t] \in {"list_retain", "kick_signal"}
          /\ pc'[t] = "kick_signal" => cell'[t] # NoLease
        BY DEF KickGet, Target, TypeOK, List, Goto
    <3>2. \A u \in Thread \ {t} : Target(u)' = Target(u) /\ pc'[u] = pc[u] /\ cell'[u] = cell[u]
        BY DEF KickGet, Target, TypeOK, List, Goto
    <3>3. Target(t) = "kick_get"
        BY DEF KickGet, Target
    <3> QED
        BY <3>1, <3>2, <3>3 DEF KickGet, CallOwns, Owning, registry, owners, call
  <2> QED BY <2>1, <2>2, <2>3
<1>10. ASSUME KickSignal(t) PROVE IInv'
  <2> USE <1>10
  <2>1. TypeOK'
    <3>1. cell[t] \in Lease
        BY DEF KickSignal, TypeOK, Leases, CallOwns
    <3> QED
        BY <3>1 DEF KickSignal, TypeOK, Leases, Labels, Returns, owners, call, List, Goto
  <2>2. HolderRegistered' /\ Distinct' /\ SlotsNamed'
    BY <2>1 DEF KickSignal, TypeOK, HolderRegistered, Distinct, SlotsNamed, CallOwns,
        Holds, Leases, Target, Owning, registry, owners, call, List, Goto
  <2>3. CallOwns'
    BY <2>1 DEF KickSignal, TypeOK, CallOwns, Target, Owning, Returns, Leases, registry,
        owners, call, List, Goto
  <2> QED BY <2>1, <2>2, <2>3
<1>11. ASSUME Announce(t) PROVE IInv'
  <2> USE <1>11
  <2>1. TypeOK'
    BY DEF Announce, TypeOK, Leases, Labels, Returns, registry, owners, call, List, Goto
  <2>2. HolderRegistered' /\ Distinct' /\ SlotsNamed'
    BY <2>1 DEF Announce, TypeOK, HolderRegistered, Distinct, SlotsNamed, CallOwns, Holds,
        Leases, Target, Owning, registry, owners, call, List, Goto
  <2>3. CallOwns'
    BY <2>1 DEF Announce, TypeOK, CallOwns, Target, Owning, Returns, Leases, registry,
        owners, call, List, Goto
  <2> QED BY <2>1, <2>2, <2>3
<1>12. ASSUME PollAgain(t) PROVE IInv'
  <2> USE <1>12
  <2>1. TypeOK'
    BY DEF PollAgain, TypeOK, Leases, Labels, Returns, registry, owners, call, List, Goto
  <2>2. HolderRegistered' /\ Distinct' /\ SlotsNamed'
    BY <2>1 DEF PollAgain, TypeOK, HolderRegistered, Distinct, SlotsNamed, CallOwns, Holds,
        Leases, Target, Owning, registry, owners, call, List, Goto
  <2>3. CallOwns'
    BY <2>1 DEF PollAgain, TypeOK, CallOwns, Target, Owning, Returns, Leases, registry,
        owners, call, List, Goto
  <2> QED BY <2>1, <2>2, <2>3
<1>13. ASSUME PollTimeout(t) PROVE IInv'
  <2> USE <1>13
  <2>1. TypeOK'
    <3>1. /\ chan' \in [Thread -> Channel] /\ tries' \in [Thread -> 0..MaxTries]
          /\ mode' \in [Thread -> {"try", "takeover", "retry"}]
        BY OverKeepsTypes DEF PollTimeout
    <3>2. at' \in [Thread -> 1..Shards]
        BY ListStartsInShards DEF PollTimeout
    <3> QED
        BY <3>1, <3>2 DEF PollTimeout, TypeOK, Labels, Returns, registry, owners, List, Goto
  <2>2. HolderRegistered' /\ Distinct' /\ SlotsNamed'
    BY DEF PollTimeout, HolderRegistered, Distinct, SlotsNamed, Holds, registry, owners
  <2>3. CallOwns'
    <3>1. /\ pc[t] = "poll" /\ Target(t)' = "idle" /\ pc'[t] = "list_retain"
          /\ \A u \in Thread \ {t} : pc'[u] = pc[u] /\ Target(u)' = Target(u) /\ chan'[u] = chan[u]
        BY DEF PollTimeout, Target, TypeOK, List, Goto, Over
    <3>2. got[t] = NoLease
        BY <3>1 DEF CallOwns, Target, Owning
    <3> QED
        BY <3>1, <3>2 DEF PollTimeout, CallOwns, Owning, registry, owners
  <2> QED BY <2>1, <2>2, <2>3
<1>14. ASSUME TakeOver(t) PROVE IInv'
  <2> USE <1>14
  <2>1. TypeOK'
    BY DEF TakeOver, TypeOK, Leases, Labels, Returns, registry, owners, call, List, Goto
  <2>2. HolderRegistered' /\ Distinct' /\ SlotsNamed'
    BY <2>1 DEF TakeOver, TypeOK, HolderRegistered, Distinct, SlotsNamed, CallOwns, Holds,
        Leases, Target, Owning, registry, owners, call, List, Goto
  <2>3. CallOwns'
    BY <2>1 DEF TakeOver, TypeOK, CallOwns, Target, Owning, Returns, Leases, registry,
        owners, call, List, Goto
  <2> QED BY <2>1, <2>2, <2>3
<1>15. ASSUME Install(t) PROVE IInv'
  <2> USE <1>15
  <2>1. TypeOK'
    <3>1. /\ chan' \in [Thread -> Channel] /\ tries' \in [Thread -> 0..MaxTries]
          /\ mode' \in [Thread -> {"try", "takeover", "retry"}]
        BY OverKeepsTypes DEF Install
    <3> QED
        BY <3>1 DEF Install, TypeOK, Leases, Labels, Returns, registry, Goto
  <2>2. HolderRegistered' /\ Distinct' /\ SlotsNamed'
    BY <2>1 DEF Install, TypeOK, HolderRegistered, Distinct, SlotsNamed, Holds, Leases, registry
  <2>3. CallOwns'
    <3>1. /\ pc[t] = "install" /\ pc'[t] = "idle"
          /\ \A u \in Thread \ {t} : pc'[u] = pc[u] /\ Target(u)' = Target(u) /\ chan'[u] = chan[u]
        BY DEF Install, Target, TypeOK, Goto, Over
    <3>2. got'[t] = NoLease /\ \A u \in Thread \ {t} : got'[u] = got[u] /\ guard'[u] = guard[u]
        BY DEF Install, TypeOK
    <3> QED
        BY <3>1, <3>2 DEF Install, CallOwns, Target, Owning, registry
  <2> QED BY <2>1, <2>2, <2>3
<1>16. ASSUME Refuse(t) PROVE IInv'
  <2> USE <1>16
  <2>1. TypeOK'
    BY DEF Refuse, TypeOK, Leases, Labels, Returns, registry, owners, call, List, Goto
  <2>2. HolderRegistered' /\ Distinct' /\ SlotsNamed'
    BY <2>1 DEF Refuse, TypeOK, HolderRegistered, Distinct, SlotsNamed, CallOwns, Holds,
        Leases, Target, Owning, registry, owners, call, List, Goto
  <2>3. CallOwns'
    BY <2>1 DEF Refuse, TypeOK, CallOwns, Target, Owning, Returns, Leases, registry,
        owners, call, List, Goto
  <2> QED BY <2>1, <2>2, <2>3
<1>17. ASSUME Forget(t) PROVE IInv'
  <2> USE <1>17
  <2>1. TypeOK'
    <3>1. /\ chan' \in [Thread -> Channel] /\ tries' \in [Thread -> 0..MaxTries]
          /\ mode' \in [Thread -> {"try", "takeover", "retry"}]
        BY OverKeepsTypes DEF Forget
    <3> QED
        BY <3>1 DEF Forget, TypeOK, Leases, Labels, Returns, registry, Goto
  <2>2. HolderRegistered' /\ Distinct' /\ SlotsNamed'
    BY <2>1 DEF Forget, TypeOK, HolderRegistered, Distinct, SlotsNamed, Holds, Leases, registry
  <2>3. CallOwns'
    <3>1. /\ pc'[t] = "idle"
          /\ \A u \in Thread \ {t} : pc'[u] = pc[u] /\ Target(u)' = Target(u) /\ chan'[u] = chan[u]
        BY DEF Forget, Target, TypeOK, Goto, Over
    <3>2. got'[t] = NoLease /\ \A u \in Thread \ {t} : got'[u] = got[u]
        BY DEF Forget, TypeOK
    <3> QED
        BY <3>1, <3>2 DEF Forget, CallOwns, Target, Owning, registry
  <2> QED BY <2>1, <2>2, <2>3
<1>18. ASSUME RemoveGuard(t) PROVE IInv'
  <2> USE <1>18
  <2>0. guard[t] \in Lease /\ chanOf[guard[t]] \in Channel
    BY DEF RemoveGuard, TypeOK, Leases, CallOwns
  <2>1. TypeOK'
    <3>1. chanOf' \in [Lease -> Channel] /\ kicked' \subseteq Lease
        BY <2>0, DroppedKeepsTypes DEF RemoveGuard
    <3>2. slots' \in [Channel -> Leases] /\ guard' \in [Thread -> Leases]
        BY <2>0 DEF RemoveGuard, TypeOK, Leases
    <3>3. at' \in [Thread -> 1..Shards]
        BY ListStartsInShards DEF RemoveGuard
    <3>4. pc' \in [Thread -> Labels] /\ back' \in [Thread -> Returns]
        BY DEF RemoveGuard, TypeOK, List, Goto, Labels, Returns
    <3> QED
        BY <3>1, <3>2, <3>3, <3>4 DEF RemoveGuard, TypeOK, call
  <2>2. /\ \A l \in Lease \ {guard[t]} : chanOf'[l] = chanOf[l]
        /\ \A u \in Thread : guard'[u] = IF u = t THEN NoLease ELSE guard[u]
        /\ \A c \in Channel : slots'[c] = IF c = chanOf[guard[t]] THEN NoLease ELSE slots[c]
        /\ got' = got
    BY DEF RemoveGuard, Dropped, TypeOK
  <2>3. /\ \A u \in Thread : got[u] # guard[t] /\ (u # t => guard[u] # guard[t])
        /\ \A c \in Channel : c # chanOf[guard[t]] => slots[c] # guard[t]
    BY <2>0, CallerAssumption DEF Distinct, SlotsNamed
  <2>4. HolderRegistered'
    <3> SUFFICES ASSUME NEW u \in Thread, NEW l \in Lease, Holds(u, l)' PROVE slots'[chanOf'[l]] = l
        BY DEF HolderRegistered
    <3>1. Holds(u, l) /\ l # guard[t]
        BY <2>2, <2>3, CallerAssumption DEF Holds
    <3>2. slots[chanOf[l]] = l /\ chanOf'[l] = chanOf[l] /\ chanOf[l] \in Channel
        BY <3>1, <2>2 DEF HolderRegistered, TypeOK
    <3>3. slots[chanOf[guard[t]]] = guard[t]
        BY <2>0, CallerAssumption DEF HolderRegistered, Holds
    <3> QED
        BY <3>1, <3>2, <3>3, <2>2
  <2>5. Distinct'
    BY <2>2 DEF Distinct
  <2>6. SlotsNamed'
    BY <2>0, <2>2, <2>3 DEF SlotsNamed, TypeOK, Leases
  <2>7. CallOwns'
    <3>1. /\ pc[t] = "remove_guard" /\ pc'[t] = "list_retain"
          /\ Target(t)' = (IF got[t] = NoLease THEN "idle" ELSE "install")
          /\ \A u \in Thread \ {t} : pc'[u] = pc[u] /\ Target(u)' = Target(u)
          /\ UNCHANGED <<chan, cell>>
        BY DEF RemoveGuard, Target, TypeOK, List, Goto, call
    <3>2. \A u \in Thread : got[u] # NoLease => chanOf'[got[u]] = chan[u]
        BY <2>2, <2>3 DEF CallOwns, TypeOK, Leases
    <3> QED
        BY <3>1, <3>2, <2>2 DEF CallOwns, Owning
  <2> QED BY <2>1, <2>4, <2>5, <2>6, <2>7
<1>19. ASSUME RemoveGot(t) PROVE IInv'
  <2> USE <1>19
  <2>0. got[t] \in Lease /\ chanOf[got[t]] = chan[t] /\ chan[t] \in Channel
    <3>1. Target(t) = "remove_got"
        BY DEF RemoveGot, Target
    <3> QED
        BY <3>1 DEF CallOwns, Owning, TypeOK, Leases
  <2>1. TypeOK'
    <3>1. chanOf' \in [Lease -> Channel] /\ kicked' \subseteq Lease
        BY <2>0, DroppedKeepsTypes DEF RemoveGot
    <3>2. /\ chan' \in [Thread -> Channel] /\ tries' \in [Thread -> 0..MaxTries]
          /\ mode' \in [Thread -> {"try", "takeover", "retry"}]
        BY OverKeepsTypes DEF RemoveGot
    <3>3. at' \in [Thread -> 1..Shards]
        BY ListStartsInShards DEF RemoveGot
    <3>4. pc' \in [Thread -> Labels] /\ back' \in [Thread -> Returns]
        BY DEF RemoveGot, TypeOK, List, Goto, Labels, Returns
    <3>5. slots' \in [Channel -> Leases] /\ got' \in [Thread -> Leases]
        BY DEF RemoveGot, TypeOK, Leases
    <3> QED
        BY <3>1, <3>2, <3>3, <3>4, <3>5 DEF RemoveGot, TypeOK
  <2>2. /\ \A l \in Lease \ {got[t]} : chanOf'[l] = chanOf[l]
        /\ \A u \in Thread : got'[u] = IF u = t THEN NoLease ELSE got[u]
        /\ \A c \in Channel : slots'[c] = IF c = chan[t] THEN NoLease ELSE slots[c]
        /\ guard' = guard
    BY DEF RemoveGot, Dropped, TypeOK
  <2>3. /\ \A u \in Thread : guard[u] # got[t] /\ (u # t => got[u] # got[t])
        /\ \A c \in Channel : c # chan[t] => slots[c] # got[t]
    BY <2>0, CallerAssumption DEF Distinct, SlotsNamed
  <2>4. HolderRegistered'
    <3> SUFFICES ASSUME NEW u \in Thread, NEW l \in Lease, Holds(u, l)' PROVE slots'[chanOf'[l]] = l
        BY DEF HolderRegistered
    <3>1. Holds(u, l) /\ l # got[t]
        BY <2>2, <2>3, CallerAssumption DEF Holds
    <3>2. slots[chanOf[l]] = l /\ chanOf'[l] = chanOf[l] /\ chanOf[l] \in Channel
        BY <3>1, <2>2 DEF HolderRegistered, TypeOK
    <3>3. slots[chan[t]] = got[t]
        BY <2>0, CallerAssumption DEF HolderRegistered, Holds
    <3> QED
        BY <3>1, <3>2, <3>3, <2>2
  <2>5. Distinct'
    BY <2>2 DEF Distinct
  <2>6. SlotsNamed'
    BY <2>0, <2>2, <2>3 DEF SlotsNamed, TypeOK, Leases
  <2>7. CallOwns'
    <3>1. /\ pc'[t] = "list_retain" /\ Target(t)' = "idle"
          /\ \A u \in Thread \ {t} : pc'[u] = pc[u] /\ Target(u)' = Target(u) /\ chan'[u] = chan[u]
          /\ UNCHANGED cell
        BY DEF RemoveGot, Target, TypeOK, List, Goto, Over
    <3>2. \A u \in Thread \ {t} : got[u] # NoLease => chanOf'[got[u]] = chan[u]
        BY <2>2, <2>3 DEF CallOwns, TypeOK, Leases
    <3> QED
        BY <3>1, <3>2, <2>2 DEF CallOwns, Owning
  <2> QED BY <2>1, <2>4, <2>5, <2>6, <2>7
<1> QED
    BY <1>1, <1>2, <1>3, <1>4, <1>5, <1>6, <1>7, <1>8, <1>9, <1>10, <1>11, <1>12, <1>13, <1>14, <1>15, <1>16, <1>17, <1>18, <1>19 DEF Step

\* A new call keeps it too: it starts with nothing of its own.
LEMMA CallKeeps == ASSUME IInv, NEW t \in Thread, Call(t) PROVE IInv'
PROOF
<1> USE ShardAssumption, CallerAssumption DEF IInv
<1>1. ASSUME NEW c \in Wants[t], NEW m \in {"try", "takeover"}, Start(t, c, m) PROVE IInv'
  <2> USE <1>1
  <2>0. c \in Channel
    OBVIOUS
  <2>1. TypeOK'
    BY <2>0 DEF Start, TypeOK, Leases, Labels, Returns, registry, owners, Goto
  <2>2. HolderRegistered' /\ Distinct' /\ SlotsNamed'
    BY DEF Start, HolderRegistered, Distinct, SlotsNamed, Holds, registry, owners
  <2>3. CallOwns'
    BY <2>1 DEF Start, TypeOK, CallOwns, Target, Owning, registry, owners, Goto
  <2> QED BY <2>1, <2>2, <2>3
<1>2. ASSUME Clear(t) PROVE IInv'
  <2> USE <1>2
  <2>1. TypeOK'
    BY DEF Clear, TypeOK, Leases, Labels, Returns, registry, owners, call, List, Goto
  <2>2. HolderRegistered' /\ Distinct' /\ SlotsNamed'
    BY <2>1 DEF Clear, TypeOK, HolderRegistered, Distinct, SlotsNamed, CallOwns, Holds,
        Leases, Target, Owning, registry, owners, call, List, Goto
  <2>3. CallOwns'
    BY <2>1 DEF Clear, TypeOK, CallOwns, Target, Owning, Returns, Leases, registry, owners,
        call, List, Goto
  <2> QED BY <2>1, <2>2, <2>3
<1>3. ASSUME ListActive(t) PROVE IInv'
  <2> USE <1>3
  <2>1. TypeOK'
    BY DEF ListActive, TypeOK, Leases, Labels, Returns, registry, owners, call, List, Goto
  <2>2. HolderRegistered' /\ Distinct' /\ SlotsNamed'
    BY <2>1 DEF ListActive, TypeOK, HolderRegistered, Distinct, SlotsNamed, CallOwns,
        Holds, Leases, Target, Owning, registry, owners, call, List, Goto
  <2>3. CallOwns'
    BY <2>1 DEF ListActive, TypeOK, CallOwns, Target, Owning, Returns, Leases, registry,
        owners, call, List, Goto
  <2> QED BY <2>1, <2>2, <2>3
<1> QED
    BY <1>1, <1>2, <1>3 DEF Call

\* The invariant is kept by whatever thread takes a step.
LEMMA Inductive == IInv /\ [Next]_vars => IInv'
PROOF
<1> SUFFICES ASSUME IInv, [Next]_vars PROVE IInv'
    OBVIOUS
<1>1. CASE UNCHANGED vars
    BY <1>1 DEF IInv, TypeOK, HolderRegistered, Distinct, SlotsNamed, CallOwns, Holds,
        Target, vars, registry, owners, call
<1>2. CASE Next
    BY <1>2, StepKeeps, CallKeeps DEF Next
<1> QED
    BY <1>1, <1>2

\* Holders are registered and one thread never holds two leases of a channel,
\* so two holders of a channel are one.
LEMMA IInvExcludes == IInv => MutualExclusion
PROOF BY DEF IInv, HolderRegistered, Distinct, MutualExclusion, Holds

\* The types, the exclusive lease and the agreement of map and holders.
THEOREM Invariant == Spec => []IInv
PROOF
    BY InitEstablishes, Inductive, PTL DEF Spec

\* The state of the registry keeps its types.
THEOREM TypeCorrect == Spec => []TypeOK
PROOF
<1>1. IInv => TypeOK
    BY DEF IInv
<1> QED
    BY <1>1, Invariant, PTL

\* No channel ever has two holders (manager.rs, "only one active publisher").
THEOREM Exclusive == Spec => []MutualExclusion
PROOF
    BY IInvExcludes, Invariant, PTL

\* The map never loses the lease of a holder.
THEOREM Registered == Spec => []HolderRegistered
PROOF
<1>1. IInv => HolderRegistered
    BY DEF IInv
<1> QED
    BY <1>1, Invariant, PTL

-----------------------------------------------------------------------------
\* A channel is lost only by Forget, which needs a channel that may fail.
LEMMA OrphanStep ==
    ASSUME IInv, OrphansOnlyAfterError, [Next]_vars
    PROVE  OrphansOnlyAfterError'
PROOF
<1> USE CallerAssumption DEF OrphansOnlyAfterError, Holds
<1>1. CASE UNCHANGED <<slots, guard, got>>
    BY <1>1
<1>2. ASSUME NEW t \in Thread, EntryVacant(t) PROVE OrphansOnlyAfterError'
  <2>1. got[t] = NoLease
    BY <1>2 DEF EntryVacant, IInv, CallOwns, Target, Owning
  <2> QED
    BY <1>2, <2>1 DEF EntryVacant, IInv, TypeOK, Leases
<1>3. ASSUME NEW t \in Thread, Install(t) PROVE OrphansOnlyAfterError'
  <2>1. guard[t] = NoLease
    BY <1>3 DEF Install, IInv, CallOwns, Target
  <2> QED
    BY <1>3, <2>1 DEF Install, IInv, TypeOK, registry
<1>4. ASSUME NEW t \in Thread, Forget(t) PROVE OrphansOnlyAfterError'
  <2>1. got[t] # NoLease => chanOf[got[t]] = chan[t]
    BY DEF IInv, CallOwns
  <2>2. \A c \in Channel : slots[c] # NoLease => chanOf[slots[c]] = c
    BY DEF IInv, SlotsNamed
  <2> QED
    BY <1>4, <2>1, <2>2 DEF Forget, IInv, TypeOK, registry
<1>5. ASSUME NEW t \in Thread, RemoveGuard(t) PROVE OrphansOnlyAfterError'
  <2>1. \A c \in Channel : slots[c] # NoLease => chanOf[slots[c]] = c
    BY DEF IInv, SlotsNamed
  <2> QED
    BY <1>5, <2>1 DEF RemoveGuard, IInv, TypeOK
<1>6. ASSUME NEW t \in Thread, RemoveGot(t) PROVE OrphansOnlyAfterError'
  <2>1. got[t] # NoLease => chanOf[got[t]] = chan[t]
    BY DEF IInv, CallOwns
  <2>2. \A c \in Channel : slots[c] # NoLease => chanOf[slots[c]] = c
    BY DEF IInv, SlotsNamed
  <2> QED
    BY <1>6, <2>1, <2>2 DEF RemoveGot, IInv, TypeOK
<1>7. ASSUME NEW t \in Thread, Retain(t) PROVE UNCHANGED <<slots, guard, got>>
    BY <1>7, RetainRemovesNothing DEF Retain, IInv, owners
<1> QED
  <2>1. CASE UNCHANGED vars
    BY <2>1, <1>1 DEF vars, registry, owners
  <2>2. ASSUME NEW t \in Thread, Step(t) PROVE OrphansOnlyAfterError'
    BY <2>2, <1>1, <1>2, <1>3, <1>4, <1>5, <1>6, <1>7
    DEF Step, Iter, ContainsKey, GetFlag, EntryOccupied, Denied, Granted, KickGet, KickSignal,
        Announce, PollAgain, PollTimeout, TakeOver, Refuse, registry, owners
  <2>3. ASSUME NEW t \in Thread, Call(t) PROVE OrphansOnlyAfterError'
    BY <2>3, <1>1 DEF Call, Start, Clear, ListActive, registry, owners
  <2> QED
    BY <2>1, <2>2, <2>3 DEF Next

\* A channel is taken with nobody holding its lease only after an error
\* between the acquisition and PublishGuard::take_over.
THEOREM OrphansNeedAnError == Spec => []OrphansOnlyAfterError
PROOF
<1>1. Init => OrphansOnlyAfterError
    BY DEF Init, OrphansOnlyAfterError
<1> QED
    BY <1>1, OrphanStep, Invariant, PTL DEF Spec

-----------------------------------------------------------------------------
\* A signal that has been cloned is of the channel asked for, as long as its
\* lease is alive.
Cloned(t) == cell[t] # NoLease => pc[t] = "kick_signal" /\ (Active(cell[t]) => chanOf[cell[t]] = chan[t])
KInv == IInv /\ \A t \in Thread : Cloned(t)

\* While somebody has its signal, a lease is not made again, and its channel only
\* changes when it is dropped for good.
LEMMA ClonedStaysDead ==
    ASSUME IInv, NEW u \in Thread, Step(u), NEW l \in Lease, NEW t \in Thread, cell[t] = l, Active(l)'
    PROVE  Active(l) /\ chanOf'[l] = chanOf[l]
<1>. USE CallerAssumption DEF Active, Holds
<1>1. CASE UNCHANGED <<slots, guard, got, chanOf>> BY <1>1
<1>2. CASE Retain(u)
  <2>1. slots' = slots BY <1>2, RetainRemovesNothing DEF IInv
  <2>. QED BY <1>2, <2>1 DEF Retain, owners
<1>3. CASE EntryVacant(u)
  <2>1. PICK m \in Lease : /\ Unused(m) /\ slots' = [slots EXCEPT ![chan[u]] = m]
                           /\ chanOf' = [chanOf EXCEPT ![m] = chan[u]] /\ got' = [got EXCEPT ![u] = m]
                           /\ guard' = guard
    BY <1>3 DEF EntryVacant
  <2>2. m # l BY <2>1 DEF Unused
  <2>. QED BY <2>1, <2>2 DEF IInv, TypeOK
<1>4. CASE Install(u) BY <1>4 DEF Install, IInv, TypeOK, registry
<1>5. CASE Forget(u) BY <1>5 DEF Forget, IInv, TypeOK, registry
<1>6. CASE RemoveGuard(u)
  <2>1. guard[u] \in Lease /\ slots' = [slots EXCEPT ![chanOf[guard[u]]] = NoLease]
        /\ guard' = [guard EXCEPT ![u] = NoLease] /\ got' = got
        /\ chanOf' = [chanOf EXCEPT ![guard[u]] = AnyChannel]
    BY <1>6 DEF RemoveGuard, Dropped, IInv, TypeOK, CallOwns, Leases
  <2>2. \A c \in Channel : slots[c] = guard[u] => c = chanOf[guard[u]]
    BY <2>1 DEF IInv, SlotsNamed
  <2>3. guard[u] # l
    <3>. SUFFICES ASSUME guard[u] = l PROVE FALSE OBVIOUS
    <3>1. \A c \in Channel : slots'[c] # l BY <2>1, <2>2 DEF IInv, TypeOK
    <3>2. \A v \in Thread : guard'[v] # l /\ got'[v] # l BY <2>1 DEF IInv, TypeOK, Distinct
    <3>. QED BY <3>1, <3>2
  <2>. QED BY <2>1, <2>3 DEF IInv, TypeOK
<1>7. CASE RemoveGot(u)
  <2>1. got[u] \in Lease /\ slots' = [slots EXCEPT ![chan[u]] = NoLease]
        /\ got' = [got EXCEPT ![u] = NoLease] /\ guard' = guard /\ chanOf[got[u]] = chan[u]
        /\ chanOf' = [chanOf EXCEPT ![got[u]] = AnyChannel]
    BY <1>7 DEF RemoveGot, Dropped, IInv, TypeOK, CallOwns, Leases, Target, Owning
  <2>2. \A c \in Channel : slots[c] = got[u] => c = chan[u]
    BY <2>1 DEF IInv, SlotsNamed
  <2>3. got[u] # l
    <3>. SUFFICES ASSUME got[u] = l PROVE FALSE OBVIOUS
    <3>1. \A c \in Channel : slots'[c] # l BY <2>1, <2>2 DEF IInv, TypeOK
    <3>2. \A v \in Thread : guard'[v] # l /\ got'[v] # l BY <2>1 DEF IInv, TypeOK, Distinct
    <3>. QED BY <3>1, <3>2
  <2>. QED BY <2>1, <2>3 DEF IInv, TypeOK
<1>. QED BY <1>1, <1>2, <1>3, <1>4, <1>5, <1>6, <1>7
     DEF Step, Iter, ContainsKey, GetFlag, EntryOccupied, Denied, Granted, KickGet, KickSignal,
         Announce, PollAgain, PollTimeout, TakeOver, Refuse, registry, owners

\* Only KickGet clones a signal, of the lease that is registered.
LEMMA ClonedKept == KInv /\ [Next]_vars => KInv'
<1>. SUFFICES ASSUME KInv, [Next]_vars PROVE KInv' OBVIOUS
<1>1. IInv /\ IInv' BY Inductive DEF KInv
<1>2. ASSUME NEW u \in Thread, Step(u), NEW t \in Thread PROVE Cloned(t)'
  <2>1. CASE t # u
    <3>1. cell'[t] = cell[t] /\ pc'[t] = pc[t] /\ chan'[t] = chan[t]
      BY <1>1, <1>2, <2>1
      DEF Step, Retain, Iter, ContainsKey, GetFlag, EntryVacant, EntryOccupied, Denied, Granted,
          KickGet, KickSignal, Announce, PollAgain, PollTimeout, TakeOver, Install, Refuse, Forget,
          RemoveGuard, RemoveGot, List, Goto, Over, call, IInv, TypeOK
    <3>2. Cloned(t) /\ cell[t] \in Leases BY <1>1 DEF KInv, IInv, TypeOK
    <3>3. CASE cell[t] = NoLease BY <3>1, <3>3 DEF Cloned
    <3>4. CASE cell[t] # NoLease
      <4>1. PICK l \in Lease : l = cell[t] BY <3>2, <3>4 DEF Leases
      <4>2. Active(l)' => Active(l) /\ chanOf'[l] = chanOf[l] BY <1>1, <1>2, <4>1, ClonedStaysDead
      <4>3. Active(cell[t])' <=> Active(l)' BY <3>1, <4>1 DEF Active, Holds
      <4>. QED BY <3>1, <3>2, <4>1, <4>2, <4>3 DEF Cloned
    <3>. QED BY <3>3, <3>4
  <2>2. CASE t = u
    <3>1. CASE KickGet(u)
      <4>1. cell'[u] = slots[chan[u]] /\ UNCHANGED <<slots, chanOf, chan>>
        BY <1>1, <3>1 DEF KickGet, registry, call, IInv, TypeOK
      <4>2. slots[chan[u]] # NoLease => pc'[u] = "kick_signal"
        BY <1>1, <3>1 DEF KickGet, Goto, IInv, TypeOK
      <4>3. chan[u] \in Channel BY <1>1 DEF IInv, TypeOK
      <4>. QED BY <1>1, <2>2, <4>1, <4>2, <4>3 DEF Cloned, IInv, SlotsNamed
    <3>2. CASE KickSignal(u) BY <1>1, <2>2, <3>2 DEF KickSignal, Cloned, IInv, TypeOK
    <3>3. CASE ~KickGet(u) /\ ~KickSignal(u)
      <4>1. pc[u] # "kick_signal" /\ cell' = cell
        BY <1>2, <3>3
        DEF Step, Retain, Iter, ContainsKey, GetFlag, EntryVacant, EntryOccupied, Denied, Granted,
            Announce, PollAgain, PollTimeout, TakeOver, Install, Refuse, Forget, RemoveGuard, RemoveGot
      <4>2. cell[u] = NoLease BY <4>1 DEF KInv, Cloned
      <4>. QED BY <2>2, <4>1, <4>2 DEF Cloned
    <3>. QED BY <3>1, <3>2, <3>3
  <2>. QED BY <2>1, <2>2
<1>3. ASSUME NEW u \in Thread, Call(u), NEW t \in Thread PROVE Cloned(t)'
  <2>1. pc[u] = "idle" /\ UNCHANGED <<slots, guard, got, chanOf, cell>>
        /\ \A v \in Thread \ {u} : pc'[v] = pc[v] /\ chan'[v] = chan[v]
    BY <1>1, <1>3 DEF Call, Start, Clear, ListActive, List, Goto, registry, owners, call, IInv, TypeOK
  <2>2. CASE t = u BY <2>1, <2>2 DEF KInv, Cloned
  <2>3. CASE t # u BY <2>1, <2>3 DEF KInv, Cloned, Active, Holds
  <2>. QED BY <2>2, <2>3
<1>4. CASE UNCHANGED vars
  BY <1>1, <1>4 DEF KInv, Cloned, Active, Holds, vars, registry, owners, call
<1>. QED BY <1>1, <1>2, <1>3, <1>4 DEF KInv, Next

\* A kick goes to the channel that was asked for, or to nobody (manager.rs:113-146):
\* a signal cloned before its lease was dropped never reaches a later one.
THEOREM KicksHit == Spec => []KickHitsTheChannel
<1>1. Init => KInv BY InitEstablishes DEF Init, KInv, Cloned
<1>2. KInv => KickHitsTheChannel
  BY DEF KInv, Cloned, IInv, CallOwns, Target, Owning, Holds, KickHitsTheChannel
<1>. QED BY <1>1, <1>2, ClonedKept, PTL DEF Spec

-----------------------------------------------------------------------------
\* The owner of a channel, without the choice.
LEMMA OwnerIs ==
    ASSUME TypeOK, Distinct, SlotsNamed, NEW c \in Channel
    PROVE  /\ slots[c] = NoLease => Owner(c) = "free"
           /\ \A t \in Thread : Holds(t, slots[c]) => Owner(c) = t
           /\ slots[c] # NoLease /\ ~(\E t \in Thread : Holds(t, slots[c])) => Owner(c) = "lost"
PROOF
<1>1. slots[c] = NoLease => Owner(c) = "free"
    BY DEF Owner
<1>2. ASSUME NEW t \in Thread, Holds(t, slots[c]) PROVE Owner(c) = t
  <2>1. \A u \in Thread : Holds(u, slots[c]) => u = t
    BY <1>2 DEF Distinct, Holds
  <2>2. slots[c] # NoLease
    BY <1>2 DEF Holds
  <2> QED
    BY <1>2, <2>1, <2>2 DEF Owner
<1>3. slots[c] # NoLease /\ ~(\E t \in Thread : Holds(t, slots[c])) => Owner(c) = "lost"
    BY DEF Owner
<1> QED
    BY <1>1, <1>2, <1>3

\* The same of the state a step leads to.
LEMMA OwnerWillBe ==
    ASSUME TypeOK', Distinct', SlotsNamed', NEW c \in Channel
    PROVE  /\ slots'[c] = NoLease => Owner(c)' = "free"
           /\ \A t \in Thread : Holds(t, slots[c])' => Owner(c)' = t
           /\ slots'[c] # NoLease /\ ~(\E t \in Thread : Holds(t, slots[c])') => Owner(c)' = "lost"
PROOF
<1>1. slots'[c] = NoLease => Owner(c)' = "free"
    BY DEF Owner
<1>2. ASSUME NEW t \in Thread, Holds(t, slots[c])' PROVE Owner(c)' = t
  <2>1. \A u \in Thread : Holds(u, slots[c])' => u = t
    BY <1>2 DEF Distinct, Holds
  <2>2. slots'[c] # NoLease
    BY <1>2 DEF Holds
  <2> QED
    BY <1>2, <2>1, <2>2 DEF Owner
<1>3. slots'[c] # NoLease /\ ~(\E t \in Thread : Holds(t, slots[c])') => Owner(c)' = "lost"
    BY DEF Owner
<1> QED
    BY <1>1, <1>2, <1>3

\* A step that changes no slot and no holder changes no owner.
LEMMA SameOwners ==
    ASSUME IInv, IInv', slots' = slots,
           \A u \in Thread : \A l \in Lease : Holds(u, l)' <=> Holds(u, l)
    PROVE  [c \in Channel |-> Owner(c)]' = [c \in Channel |-> Owner(c)]
PROOF
<1>1. ASSUME NEW c \in Channel PROVE Owner(c)' = Owner(c)
  <2>1. slots[c] \in Lease \cup {NoLease}
    BY DEF IInv, TypeOK, Leases
  <2>2. \A u \in Thread : Holds(u, slots[c])' <=> Holds(u, slots[c])
    BY <2>1 DEF Holds
  <2> QED
    BY <2>2, OwnerIs, OwnerWillBe DEF IInv
<1> QED
    BY <1>1

\* The owners of all channels, as the abstract registry sees them.
Owners == [c \in Channel |-> Owner(c)]

\* A step that gives channel d a new owner o and changes no other channel.
LEMMA OneOwnerChanges ==
    ASSUME IInv, IInv', NEW d \in Channel, NEW o, Owner(d)' = o,
           \A c \in Channel \ {d} : slots'[c] = slots[c],
           \A c \in Channel \ {d} : \A u \in Thread : Holds(u, slots[c])' <=> Holds(u, slots[c])
    PROVE  Owners' = [Owners EXCEPT ![d] = o]
PROOF
<1>1. ASSUME NEW c \in Channel \ {d} PROVE Owner(c)' = Owner(c)
    BY <1>1, OwnerIs, OwnerWillBe DEF IInv
<1> QED
    BY <1>1 DEF Owners

\* Each step of the registry is one step of the abstract one, or none.
LEMMA StepRefines ==
    ASSUME IInv, IInv', [Next]_vars
    PROVE  [Abstract!Next]_Owners
PROOF
<1> USE DEF Abstract!Next, Abstract!Claim, Abstract!GiveBack, Abstract!Lose
<1>0. \A c \in Channel : slots[c] # NoLease => slots[c] \in Lease /\ chanOf[slots[c]] = c
    BY DEF IInv, TypeOK, Leases, SlotsNamed
<1>1. CASE UNCHANGED <<slots, guard, got>>
  <2>1. Owners' = Owners
    BY <1>1, SameOwners DEF Holds, Owners
  <2> QED BY <2>1
<1>2. ASSUME NEW t \in Thread, EntryVacant(t) PROVE Abstract!Next
  <2>0. PICK d \in Channel : d = chan[t]
    BY DEF IInv, TypeOK
  <2>1. d \in Channel /\ slots[d] = NoLease /\ Owner(d) = "free"
    BY <1>2, <2>0, OwnerIs DEF EntryVacant, IInv, TypeOK
  <2>2. PICK l \in Lease : /\ ~Active(l) /\ slots' = [slots EXCEPT ![d] = l]
                           /\ got' = [got EXCEPT ![t] = l] /\ guard' = guard
    BY <1>2, <2>0 DEF EntryVacant, Unused
  <2>3. slots'[d] = l /\ Holds(t, slots[d])'
    BY <2>1, <2>2, CallerAssumption DEF IInv, TypeOK, Holds
  <2>4. Owner(d)' = t
    BY <2>1, <2>3, OwnerWillBe DEF IInv
  <2>5. \A c \in Channel \ {d} : slots'[c] = slots[c]
    BY <2>2 DEF IInv, TypeOK
  <2>6. got[t] = NoLease
    BY <1>2 DEF EntryVacant, IInv, CallOwns, Target, Owning
  <2>7. \A c \in Channel \ {d} : slots[c] # l
    BY <2>2 DEF Active
  <2>8. \A c \in Channel \ {d} : \A u \in Thread : Holds(u, slots[c])' <=> Holds(u, slots[c])
    BY <2>2, <2>5, <2>6, <2>7 DEF IInv, TypeOK, Holds
  <2>9. Owners' = [Owners EXCEPT ![d] = t]
    BY <2>1, <2>4, <2>5, <2>8, OneOwnerChanges
  <2> QED
    BY <2>1, <2>9 DEF Owners
<1>3. ASSUME NEW t \in Thread, Install(t) PROVE Owners' = Owners
  <2>1. guard[t] = NoLease
    BY <1>3 DEF Install, IInv, CallOwns, Target
  <2>2. slots' = slots
    BY <1>3 DEF Install, registry
  <2>3. \A u \in Thread : \A l \in Lease : Holds(u, l)' <=> Holds(u, l)
    BY <1>3, <2>1, CallerAssumption DEF Install, Holds, IInv, TypeOK
  <2> QED
    BY <2>2, <2>3, SameOwners DEF Owners
<1>4. ASSUME NEW t \in Thread, Forget(t) PROVE Abstract!Next
  <2>0. PICK d \in Channel : d = chan[t]
    BY DEF IInv, TypeOK
  <2>1. d \in Channel /\ got[t] \in Lease /\ got[t] # NoLease /\ chanOf[got[t]] = d
    <3>1. Target(t) \in Owning
        BY <1>4 DEF Forget, Target, Owning
    <3> QED
        BY <2>0, <3>1, CallerAssumption DEF IInv, CallOwns, TypeOK, Leases
  <2>2. slots[d] = got[t]
    BY <2>1 DEF IInv, HolderRegistered, Holds
  <2>3. Owner(d) = t
    BY <2>1, <2>2, OwnerIs DEF IInv, Holds
  <2>4. slots' = slots /\ guard' = guard /\ got' = [got EXCEPT ![t] = NoLease]
    BY <1>4 DEF Forget, registry
  <2>5. ~(\E u \in Thread : Holds(u, slots[d])')
    BY <2>1, <2>2, <2>4 DEF Holds, IInv, TypeOK, Distinct
  <2>6. Owner(d)' = "lost"
    BY <2>1, <2>2, <2>4, <2>5, OwnerWillBe DEF IInv
  <2>7. \A c \in Channel \ {d} : slots[c] # got[t]
    BY <1>0, <2>1
  <2>8. \A c \in Channel \ {d} : \A u \in Thread : Holds(u, slots[c])' <=> Holds(u, slots[c])
    BY <2>4, <2>7 DEF IInv, TypeOK, Holds
  <2>9. Owners' = [Owners EXCEPT ![d] = "lost"]
    BY <2>1, <2>4, <2>6, <2>8, OneOwnerChanges
  <2> QED
    BY <2>1, <2>3, <2>9 DEF Owners
<1>5. ASSUME NEW t \in Thread, RemoveGuard(t) PROVE Abstract!Next
  <2>0. guard[t] \in Lease /\ guard[t] # NoLease
    BY <1>5, CallerAssumption DEF RemoveGuard, IInv, CallOwns, TypeOK, Leases
  <2>1. PICK d \in Channel : d = chanOf[guard[t]]
    BY <2>0 DEF IInv, TypeOK
  <2>2. slots[d] = guard[t]
    BY <2>0, <2>1 DEF IInv, HolderRegistered, Holds
  <2>3. Owner(d) = t
    BY <2>0, <2>1, <2>2, OwnerIs DEF IInv, Holds
  <2>4. /\ slots' = [slots EXCEPT ![d] = NoLease] /\ got' = got
        /\ guard' = [guard EXCEPT ![t] = NoLease]
    BY <1>5, <2>1 DEF RemoveGuard
  <2>5. slots'[d] = NoLease
    BY <2>1, <2>4 DEF IInv, TypeOK
  <2>6. Owner(d)' = "free"
    BY <2>1, <2>5, OwnerWillBe DEF IInv
  <2>7. \A c \in Channel \ {d} : slots[c] # guard[t] /\ slots'[c] = slots[c]
    BY <1>0, <2>0, <2>1, <2>4 DEF IInv, TypeOK
  <2>8. \A c \in Channel \ {d} : \A u \in Thread : Holds(u, slots[c])' <=> Holds(u, slots[c])
    BY <2>4, <2>7 DEF IInv, TypeOK, Holds
  <2>9. Owners' = [Owners EXCEPT ![d] = "free"]
    BY <2>1, <2>6, <2>7, <2>8, OneOwnerChanges
  <2> QED
    BY <2>1, <2>3, <2>9 DEF Owners
<1>6. ASSUME NEW t \in Thread, RemoveGot(t) PROVE Abstract!Next
  <2>0. PICK d \in Channel : d = chan[t]
    BY DEF IInv, TypeOK
  <2>1. d \in Channel /\ got[t] \in Lease /\ got[t] # NoLease /\ chanOf[got[t]] = d
    <3>1. Target(t) \in Owning
        BY <1>6 DEF RemoveGot, Target, Owning
    <3> QED
        BY <2>0, <3>1, CallerAssumption DEF IInv, CallOwns, TypeOK, Leases
  <2>2. slots[d] = got[t]
    BY <2>1 DEF IInv, HolderRegistered, Holds
  <2>3. Owner(d) = t
    BY <2>1, <2>2, OwnerIs DEF IInv, Holds
  <2>4. /\ slots' = [slots EXCEPT ![d] = NoLease] /\ guard' = guard
        /\ got' = [got EXCEPT ![t] = NoLease]
    BY <1>6, <2>0 DEF RemoveGot
  <2>5. slots'[d] = NoLease
    BY <2>1, <2>4 DEF IInv, TypeOK
  <2>6. Owner(d)' = "free"
    BY <2>1, <2>5, OwnerWillBe DEF IInv
  <2>7. \A c \in Channel \ {d} : slots[c] # got[t] /\ slots'[c] = slots[c]
    BY <1>0, <2>1, <2>4 DEF IInv, TypeOK
  <2>8. \A c \in Channel \ {d} : \A u \in Thread : Holds(u, slots[c])' <=> Holds(u, slots[c])
    BY <2>4, <2>7 DEF IInv, TypeOK, Holds
  <2>9. Owners' = [Owners EXCEPT ![d] = "free"]
    BY <2>1, <2>6, <2>7, <2>8, OneOwnerChanges
  <2> QED
    BY <2>1, <2>3, <2>9 DEF Owners
<1>7. ASSUME NEW t \in Thread, Retain(t) PROVE UNCHANGED <<slots, guard, got>>
    BY <1>7, RetainRemovesNothing DEF Retain, IInv, owners
<1> QED
  <2>1. CASE UNCHANGED vars
    BY <2>1, <1>1 DEF vars, registry, owners
  <2>2. ASSUME NEW t \in Thread, Step(t) PROVE [Abstract!Next]_Owners
    BY <2>2, <1>1, <1>2, <1>3, <1>4, <1>5, <1>6, <1>7
    DEF Step, Iter, ContainsKey, GetFlag, EntryOccupied, Denied, Granted, KickGet, KickSignal,
        Announce, PollAgain, PollTimeout, TakeOver, Refuse, registry, owners
  <2>3. ASSUME NEW t \in Thread, Call(t) PROVE [Abstract!Next]_Owners
    BY <2>3, <1>1 DEF Call, Start, Clear, ListActive, registry, owners
  <2> QED
    BY <2>1, <2>2, <2>3 DEF Next

\* The registry implements "one source per channel": seen from outside, its
\* channels are only claimed when free and only given back by their owner.
THEOREM Implements == Spec => ImplementsSingleSource
PROOF
<1>1. Init => Abstract!Init
  <2> SUFFICES ASSUME Init PROVE Owners = [c \in Channel |-> "free"]
    BY DEF Abstract!Init, Owners
  <2> QED
    BY DEF Init, Owners, Owner
<1>2. IInv /\ IInv' /\ [Next]_vars => [Abstract!Next]_Owners
    BY StepRefines
<1> QED
    BY <1>1, <1>2, Invariant, PTL DEF Spec, ImplementsSingleSource, Abstract!Spec, Owners
====
