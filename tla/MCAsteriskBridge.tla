-------------------------- MODULE MCAsteriskBridge --------------------------
(* An instance of AsteriskBridge for TLC. *)
EXTENDS AsteriskBridge, TLC

CONSTANTS p1, p2

\* Nothing tells one port of the range from another.
Alike == Permutations({p1, p2})
=============================================================================
