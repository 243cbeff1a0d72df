---------------------------- MODULE MCRateLimiter ----------------------------
(* RateLimiter for TLC: connections are alike, and so are the addresses that  *)
(* nobody watches.                                                            *)
EXTENDS RateLimiter, TLC

Alike == Permutations(Conns) \cup Permutations(Ips \ {Watched})
=============================================================================
