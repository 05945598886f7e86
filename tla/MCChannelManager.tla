---- MODULE MCChannelManager ----
(***************************************************************************)
(* Instances of ChannelManager for TLC.                                    *)
(***************************************************************************)
EXTENDS ChannelManager, TLC

CONSTANTS c1, c2, t1, t2

\* Channels spread over the shards or sharing one.
OneShard  == [c \in Channel |-> 1]
TwoShards == [c \in Channel |-> IF c = c1 THEN 1 ELSE 2]

\* Every thread may ask for every channel.
Contended == [t \in Thread |-> Channel]
\* One thread moves between two channels, the other contends for the first.
Overlapping == [t \in Thread |-> IF t = t1 THEN Channel ELSE {c1}]
====
