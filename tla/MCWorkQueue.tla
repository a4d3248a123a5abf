---------------------------- MODULE MCWorkQueue ----------------------------
(* A small instance of WorkQueue: an operation with two target rows (like    *)
(* turn_derivation) and one with a single row.                               *)
EXTENDS WorkQueue, TLC

CONSTANTS d1, d2, c1, turn, brief, rendering, assembly, summary

MCTargets == (turn :> {rendering, assembly}) @@ (brief :> {summary})
MCRank == (turn :> 1) @@ (brief :> 2)
=============================================================================
