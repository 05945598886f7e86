---- MODULE MCFlvDemux ----
(***************************************************************************)
(* Instances of FlvDemux for TLC.                                          *)
(***************************************************************************)
EXTENDS FlvDemux, TLC
====
