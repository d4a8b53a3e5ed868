----------------------------- MODULE MCRetained -----------------------------
(***************************************************************************)
(* Instances of Retained for TLC.                                          *)
(*   Retained          overlapping filters, three topics for two slots     *)
(*   RetainedCancels   two filters that do not overlap: ReplayCompletes    *)
(***************************************************************************)
EXTENDS Retained

====
