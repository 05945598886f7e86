---- MODULE MCDashPackager ----
(***************************************************************************)
(* Instances of DashPackager for TLC.                                      *)
(***************************************************************************)
EXTENDS DashPackager, TLC
====
