---- MODULE MCPackagerWriter ----
(***************************************************************************)
(* Instances of PackagerWriter for TLC.                                    *)
(***************************************************************************)
EXTENDS PackagerWriter, TLC
====
