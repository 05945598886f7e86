---- MODULE MCCache ----
(***************************************************************************)
(* Instances of Cache for TLC.                                             *)
(***************************************************************************)
EXTENDS Cache, TLC

\* A first generation whose window slides, and the first segment of its successor.
SuccessorBegins == [g \in 1..MaxGen |-> IF g = 1 THEN MaxSeg ELSE 1]
====
