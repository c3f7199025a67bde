----------------------------- MODULE MCLimiter -----------------------------
(***************************************************************************)
(* Limiter for TLC: two workers.                                           *)
(***************************************************************************)
EXTENDS Limiter

CONSTANTS w1, w2
=============================================================================
