---- MODULE MCSources ----
(***************************************************************************)
(* Instances of Sources for TLC.                                           *)
(***************************************************************************)
EXTENDS Sources, TLC

CONSTANTS c1, c2, s1

\* Every worker has the first channel.
FirstChannel == [w \in Worker |-> c1]

\* The peer of s1 asks for any channel, twice in a read, and ends publications;
\* the others ask once in a read, for the first channel.
TheKeys    == [s \in Session |-> IF s = s1 THEN Channel ELSE {c1}]
TheMaxAsks == [s \in Session |-> IF s = s1 THEN 2 ELSE 1]
TheMaxEnds == [s \in Session |-> IF s = s1 THEN 1 ELSE 0]
====
