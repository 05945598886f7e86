---- MODULE MCTakeover ----
(***************************************************************************)
(* Instances of Takeover for TLC.                                          *)
(***************************************************************************)
EXTENDS Takeover, TLC
====
