---------------------------- MODULE MCRateLimiter ----------------------------
(* Windows of three readings, two to the second; one key's calls and one of  *)
(* another key.                                                              *)
EXTENDS RateLimiter, TLC
CONSTANTS a, b, c, d, k, l
MCKeyOf(x) == IF x = d THEN l ELSE k
Same == Permutations({a, b, c})
=============================================================================
