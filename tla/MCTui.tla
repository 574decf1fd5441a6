------------------------------- MODULE MCTui -------------------------------
(* Small instances of Tui: two patterns, of which the first has a match in   *)
(* the first of two tiles, and one session name.                             *)
EXTENDS Tui, TLC

CONSTANTS P, Q, N

MCHits == [p \in Patterns |-> IF p = P THEN {1} ELSE {}]
MCCkptOf == (N :> "ckpt")
=============================================================================
