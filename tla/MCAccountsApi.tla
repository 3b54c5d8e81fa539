--------------------------- MODULE MCAccountsApi ---------------------------
(* A small instance of AccountsApi for TLC. *)
EXTENDS AccountsApi, TLC

CONSTANTS ann, bob, current, savings

\* Ann has two accounts; Bob has none and asks for hers.
TwoCustomers == {ann, bob}
TwoAccounts == {current, savings}
Owners == (current :> ann) @@ (savings :> ann)
TwoDates == {1, 2}

\* No parameter, the values that mean something else, and a page of one row
Params == {None, -1, 0, 1}
=============================================================================
