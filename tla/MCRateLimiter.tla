--------------------------- MODULE MCRateLimiter ---------------------------
(***************************************************************************)
(* Instances of RateLimiter for TLC; calls and addresses are               *)
(* interchangeable.                                                        *)
(***************************************************************************)
EXTENDS RateLimiter, TLC

Interchangeable == Permutations(Calls) \cup Permutations(Clients)
=============================================================================
