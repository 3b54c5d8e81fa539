---------------------------- MODULE MCAuthServer ----------------------------
(* A small instance of AuthServer for TLC. *)
EXTENDS AuthServer, TLC

\* Every client may use every scope and registered every redirect URI.
AllScopesAllowed == [client \in Clients |-> Scopes]
AllUrisRegistered == [client \in Clients |-> Uris]

\* Workers, clients and identifiers are interchangeable.
Symmetry == Permutations(Deciders) \cup Permutations(RequestIds)
              \cup Permutations(ConsentIds) \cup Permutations(CodeIds)
              \cup Permutations(TokenIds) \cup Permutations(Exchangers)
              \cup Permutations(Clients)
=============================================================================
