---------------------------- MODULE MCOpenBanking ----------------------------
(* A small instance of OpenBanking for TLC. *)
EXTENDS OpenBanking, TLC

CONSTANTS s1, s2, accounts, transactions, balance, other

\* Every client registered every redirect URI and may use the scope s1 alone.
OneScopeAllowed == [client \in Clients |-> {s1}]
AllUrisRegistered == [client \in Clients |-> Uris]

\* An endpoint that takes the scope, one that takes another, one that takes
\* either, and one that is not in the map
RequiredScopes ==
  [e \in Endpoints |-> CASE e = accounts -> <<s1>>
                         [] e = transactions -> <<s2>>
                         [] e = balance -> <<s2, s1>>
                         [] e = other -> <<>>]

\* Workers and identifiers are interchangeable.
Symmetry == Permutations(Deciders) \cup Permutations(RequestIds)
              \cup Permutations(ConsentIds) \cup Permutations(CodeIds)
              \cup Permutations(TokenIds) \cup Permutations(Exchangers)
              \cup Permutations(Requests)
=============================================================================
