----------------------------- MODULE MCRateLimiter -----------------------------
(* Instances of RateLimiter for TLC: two tasks on one slot, with two base delays. *)
EXTENDS RateLimiter
OneSlot == [pacing : {1, 3}, concurrent : {1}]
==============================================================================
