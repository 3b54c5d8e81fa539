---------------------------- MODULE MCConsentFlow ----------------------------
(* A small instance of ConsentFlow for TLC. *)
EXTENDS ConsentFlow, TLC

\* Every client may use every scope and registered every redirect URI.
AllScopesAllowed == [client \in Clients |-> Scopes]
AllUrisRegistered == [client \in Clients |-> Uris]

\* Workers, scopes and identifiers are interchangeable.
Symmetry == Permutations(Deciders) \cup Permutations(Scopes)
              \cup Permutations(ConsentIds)
=============================================================================
