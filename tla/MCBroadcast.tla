----------------------------- MODULE MCBroadcast -----------------------------
(* Broadcast with two payments that may say the same. *)
EXTENDS Broadcast, TLC

CONSTANTS p1, p2
=============================================================================
