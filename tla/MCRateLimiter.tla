--------------------------- MODULE MCRateLimiter ---------------------------
(* A small instance of RateLimiter for TLC. *)
EXTENDS RateLimiter, TLC

CONSTANTS standard, wide

\* rateLimitMiddleware, and a custom limiter with a longer window
TwoLimiters == {standard, wide}
Limits == (standard :> 2) @@ (wide :> 0)
Windows == (standard :> 2) @@ (wide :> 3)

\* Clients are interchangeable.
Symmetry == Permutations(Clients)
=============================================================================
