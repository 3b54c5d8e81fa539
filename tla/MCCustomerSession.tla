------------------------- MODULE MCCustomerSession -------------------------
(* A small instance of CustomerSession for TLC. *)
EXTENDS CustomerSession, TLC

\* Customers, sessions and workers are interchangeable.
Symmetry == Permutations(Customers) \cup Permutations(SessionIds)
              \cup Permutations(Logins) \cup Permutations(Requests)
=============================================================================
