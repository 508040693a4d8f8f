---------------------------- MODULE MCRateLimiter ----------------------------
(* A small instance of RateLimiter: one listed write operation. *)
EXTENDS RateLimiter

MCListedLimits == [k \in {"device-udf-set"} |-> 2]
=============================================================================
