---------------------------- MODULE MCLifecycle ----------------------------
(***************************************************************************)
(* Lifecycle for TLC.  The configurations give the sizes:                  *)
(*   LifecycleWide     a session slot per connection, wills, and that      *)
(*                     every call returns                                  *)
(*   LifecycleNarrow   fewer session slots than connections, two clients   *)
(*                     whose sessions are evicted, tickets that wrap       *)
(* Client ids are interchangeable, which LifecycleNarrow uses.             *)
(***************************************************************************)
EXTENDS Lifecycle, TLC

ClientSymmetry == Permutations(ClientIds)
====
