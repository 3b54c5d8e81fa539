-------------------------- MODULE ConsentLifecycle --------------------------
(***************************************************************************)
(* What the consents table promises whoever reads it: the life of a        *)
(* consent, seen from its status column alone.  docs/consent-model.md      *)
(* (lines 40-48) draws the same diagram, in which revoked and expired are  *)
(* terminal; the code lets one overwrite the other, because a revocation   *)
(* and an expiry each read the status in one statement and write it in a   *)
(* later one.  What survives, and what everything downstream relies on, is *)
(* that approval is given once and never comes back.                       *)
(***************************************************************************)
EXTENDS Naturals

CONSTANT ConsentIds

VARIABLE status   \* consent -> its status, "absent" before it is created

TypeOK == status \in [ConsentIds ->
            {"absent", "pending", "approved", "denied", "revoked", "expired"}]

Init == status = [c \in ConsentIds |-> "absent"]

Move(c, from, to) == /\ status[c] \in from
                     /\ status' = [status EXCEPT ![c] = to]

Create(c)  == Move(c, {"absent"}, "pending")
Approve(c) == Move(c, {"pending"}, "approved")
Deny(c)    == Move(c, {"pending"}, "denied")
Revoke(c)  == Move(c, {"approved", "expired"}, "revoked")

\* One consent whose time a request or a decision found to be up
Expire(c) == Move(c, {"pending", "approved", "revoked"}, "expired")

\* The batch job expires any number of approved consents at once.
ExpireBatch(S) ==
  /\ \A c \in S : status[c] = "approved"
  /\ status' = [c \in ConsentIds |-> IF c \in S THEN "expired" ELSE status[c]]

Next == \/ \E c \in ConsentIds :
             Create(c) \/ Approve(c) \/ Deny(c) \/ Revoke(c) \/ Expire(c)
        \/ \E S \in SUBSET ConsentIds : ExpireBatch(S)

Spec == Init /\ [][Next]_status
=============================================================================
