---- MODULE SingleSource ----
(***************************************************************************)
(* What the channel registry promises: a channel id is free, owned by one  *)
(* source, or lost (taken, with nobody left who would ever give it back).  *)
(* ChannelManager implements this specification.                           *)
(***************************************************************************)
CONSTANTS Source, Channel,
          Free, Lost      \* two values that are no source: a channel without owner

VARIABLE owner

Init == owner = [c \in Channel |-> Free]

\* A source becomes the only one of a free channel.
Claim(s, c) == owner[c] = Free /\ owner' = [owner EXCEPT ![c] = s]

\* Only the owner gives the channel back.
GiveBack(s, c) == owner[c] = s /\ owner' = [owner EXCEPT ![c] = Free]

\* The owner goes away without giving the channel back.
Lose(s, c) == owner[c] = s /\ owner' = [owner EXCEPT ![c] = Lost]

Next == \E s \in Source, c \in Channel : Claim(s, c) \/ GiveBack(s, c) \/ Lose(s, c)

Spec == Init /\ [][Next]_owner
====
