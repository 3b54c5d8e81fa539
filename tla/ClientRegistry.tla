--------------------------- MODULE ClientRegistry ---------------------------
(***************************************************************************)
(* The registered applications and their secrets:                          *)
(*   auth/oauth/client-registration.js  registerClient and                 *)
(*       verifyClientCredentials over the table oauth_clients,             *)
(*   auth/oauth/vault-integration.js    the credentials kept in a          *)
(*       HashiCorp vault, stored, read, rotated and deleted over HTTP,     *)
(*   apps/developer-portal/portal-api.js  POST /register.                  *)
(*                                                                         *)
(* A call is a worker that yields at every query and every HTTP request.   *)
(* A secret is the number of the draw that generated it; its bcrypt hash   *)
(* is told apart from others just as well.  last_used_at is left out: no   *)
(* code reads it.  Nothing in the repository calls vault-integration.js,   *)
(* so its callers are whoever runs the service.                            *)
(***************************************************************************)
EXTENDS Naturals

CONSTANTS
  Clients,      \* client identifiers that generateClientId may draw
  Workers,      \* concurrent calls
  MaxTime,      \* bound on the clock
  MaxSecrets,   \* bound on the secrets drawn
  Faults,       \* may a query or an HTTP request fail, or its answer get lost?
  None          \* no row, no credentials, no call, no such column

VARIABLES
  now,          \* the clock
  drawn,        \* the number of secrets drawn so far
  rows,         \* table oauth_clients: client -> row, or None
  vault,        \* the vault (external): client -> credentials, or None
  calls,        \* worker -> its call in flight, or None
  handed,       \* history: client -> the secrets its developer was given
  accepted      \* history: the pairs of client and secret found valid

registryVars == <<now, drawn, rows, vault, calls, handed, accepted>>

Secrets == 1 .. MaxSecrets

\* oauth_clients.status; nothing in the repository changes it.
ClientStatuses == {"active", "suspended", "revoked"}

Client == [secret : Secrets, status : ClientStatuses]

\* What the vault holds.  The last three are history: when the first
\* credentials of this client were stored, when those that these replaced had
\* been written, and whether the rotation had read just those.
Credentials ==
  [secret : Secrets, created_at : Nat, rotated_at : Nat \cup {None},
   previous_rotation : Nat \cup {None},
   born : Nat, former : Nat \cup {None}, clean : BOOLEAN]

Call == [pc : {"insert", "touch", "write"}, client : Clients, secret : Secrets,
         at : Nat, read : Credentials \cup {None}]

ASSUME RegistryAssumption ==
  /\ {MaxTime, MaxSecrets} \subseteq Nat
  /\ Faults \in BOOLEAN
  /\ None \notin Nat
  /\ None \notin Client /\ None \notin Credentials /\ None \notin Call

RegistryTypeOK ==
  /\ now \in Nat
  /\ drawn \in 0 .. MaxSecrets
  /\ rows \in [Clients -> Client \cup {None}]
  /\ vault \in [Clients -> Credentials \cup {None}]
  /\ calls \in [Workers -> Call \cup {None}]
  /\ handed \in [Clients -> SUBSET Secrets]
  /\ accepted \subseteq Clients \X Secrets

RegistryInit ==
  /\ now = 0
  /\ drawn = 0
  /\ rows = [c \in Clients |-> None]
  /\ vault = [c \in Clients |-> None]
  /\ calls = [w \in Workers |-> None]
  /\ handed = [c \in Clients |-> {}]
  /\ accepted = {}

InCall(w, pc) == calls[w] # None /\ calls[w].pc = pc

EndCall(w) == calls' = [calls EXCEPT ![w] = None]

-----------------------------------------------------------------------------
(* registerClient                                                          *)

\* A valid registration, from the portal or from elsewhere: the identifier
\* and the secret are drawn, and the call waits for the hash.
BeginRegistration(w, c) ==
  /\ calls[w] = None
  /\ rows[c] = None
  /\ \A v \in Workers : InCall(v, "insert") => calls[v].client # c
  /\ drawn < MaxSecrets
  /\ drawn' = drawn + 1
  /\ calls' = [calls EXCEPT ![w] = [pc |-> "insert", client |-> c,
                                    secret |-> drawn + 1, at |-> now, read |-> None]]
  /\ UNCHANGED <<now, rows, vault, handed, accepted>>

\* The row with the hash of the secret
Inserted(call) ==
  [rows EXCEPT ![call.client] = [secret |-> call.secret, status |-> "active"]]

\* INSERT INTO oauth_clients, and the one answer that carries the secret
InsertClient(w) ==
  LET call == calls[w] IN
  /\ InCall(w, "insert")
  /\ rows' = Inserted(call)
  /\ handed' = [handed EXCEPT ![call.client] = @ \cup {call.secret}]
  /\ EndCall(w)
  /\ UNCHANGED <<now, drawn, vault, accepted>>

\* The INSERT throws, or takes effect and its answer or the response is lost.
FailRegistration(w) ==
  /\ Faults
  /\ InCall(w, "insert")
  /\ rows' \in {rows, Inserted(calls[w])}
  /\ EndCall(w)
  /\ UNCHANGED <<now, drawn, vault, handed, accepted>>

-----------------------------------------------------------------------------
(* verifyClientCredentials                                                 *)

\* A slip: bcrypt.compare without await, and a promise is true
AnySecret(row, secret) == row # None /\ row.status = "active"

\* The tests after the SELECT
Accepts(row, secret) == row # None /\ row.status = "active" /\ row.secret = secret

\* Somebody presents a secret that some developer was given; one that is not
\* accepted changes nothing.
Verify(w, c, secret) ==
  /\ calls[w] = None
  /\ \E d \in Clients : secret \in handed[d]
  /\ Accepts(rows[c], secret)
  /\ calls' = [calls EXCEPT ![w] = [pc |-> "touch", client |-> c, secret |-> secret,
                                    at |-> now, read |-> None]]
  /\ UNCHANGED <<now, drawn, rows, vault, handed, accepted>>

\* UPDATE last_used_at, and the answer
TouchClient(w) ==
  /\ InCall(w, "touch")
  /\ accepted' = accepted \cup {<<calls[w].client, calls[w].secret>>}
  /\ EndCall(w)
  /\ UNCHANGED <<now, drawn, rows, vault, handed>>

\* An error of the UPDATE makes a secret that matched invalid.
FailVerify(w) ==
  /\ Faults
  /\ InCall(w, "touch")
  /\ EndCall(w)
  /\ UNCHANGED <<now, drawn, rows, vault, handed, accepted>>

\* An operator changes the status of a client in the database.
SetStatus(c, status) ==
  /\ rows[c] # None
  /\ rows' = [rows EXCEPT ![c].status = status]
  /\ UNCHANGED <<now, drawn, vault, calls, handed, accepted>>

-----------------------------------------------------------------------------
(* vault-integration.js                                                    *)

\* When the credentials were written: rotated_at || created_at
WrittenAt(cred) == IF cred.rotated_at = None THEN cred.created_at ELSE cred.rotated_at

\* storeClientCredentials with the secret a registration handed out
Store(c, secret) ==
  /\ secret \in handed[c]
  /\ vault' = [vault EXCEPT ![c] =
       [secret |-> secret, created_at |-> now, rotated_at |-> None,
        previous_rotation |-> None,
        born |-> now, former |-> None, clean |-> TRUE]]
  /\ UNCHANGED <<now, drawn, rows, calls, handed, accepted>>

\* rotateClientSecret has its answer from retrieveClientCredentials; without
\* credentials it ends there.
BeginRotation(w, c) ==
  /\ calls[w] = None
  /\ vault[c] # None
  /\ drawn < MaxSecrets
  /\ drawn' = drawn + 1
  /\ calls' = [calls EXCEPT ![w] = [pc |-> "write", client |-> c, secret |-> drawn + 1,
                                    at |-> now, read |-> vault[c]]]
  /\ UNCHANGED <<now, rows, vault, handed, accepted>>

\* A slip: ...metadata before created_at, whose new value then wins
CreatedAnew(call) == now

\* ...metadata comes last in storeClientCredentials: created_at is kept.
CreatedAt(call) == call.read.created_at

\* What the POST of storeClientCredentials leaves, whatever the vault held
Rotated(call) ==
  LET held == vault[call.client]
      clean == held # None /\ held.clean /\ held = call.read
  IN  [vault EXCEPT ![call.client] =
         [secret |-> call.secret, created_at |-> CreatedAt(call), rotated_at |-> call.at,
          previous_rotation |-> WrittenAt(call.read),
          born |-> IF clean THEN held.born ELSE now,
          former |-> IF clean THEN WrittenAt(held) ELSE None, clean |-> clean]]

WriteRotation(w) ==
  LET call == calls[w] IN
  /\ InCall(w, "write")
  /\ vault' = Rotated(call)
  /\ handed' = [handed EXCEPT ![call.client] = @ \cup {call.secret}]
  /\ EndCall(w)
  /\ UNCHANGED <<now, drawn, rows, accepted>>

\* The request or its answer is lost; the caller takes it for not rotated.
FailRotation(w) ==
  /\ Faults
  /\ InCall(w, "write")
  /\ vault' \in {vault, Rotated(calls[w])}
  /\ EndCall(w)
  /\ UNCHANGED <<now, drawn, rows, handed, accepted>>

\* deleteClientCredentials removes every version.
Delete(c) ==
  /\ vault' = [vault EXCEPT ![c] = None]
  /\ UNCHANGED <<now, drawn, rows, calls, handed, accepted>>

-----------------------------------------------------------------------------
Tick ==
  /\ now < MaxTime
  /\ now' = now + 1
  /\ UNCHANGED <<drawn, rows, vault, calls, handed, accepted>>

CallStep(w) == InsertClient(w) \/ FailRegistration(w) \/ TouchClient(w)
                 \/ FailVerify(w) \/ WriteRotation(w) \/ FailRotation(w)

RegistryNext ==
  \/ \E w \in Workers, c \in Clients : BeginRegistration(w, c) \/ BeginRotation(w, c)
  \/ \E w \in Workers, c \in Clients, secret \in Secrets : Verify(w, c, secret)
  \/ \E w \in Workers : CallStep(w)
  \/ \E c \in Clients, status \in ClientStatuses : SetStatus(c, status)
  \/ \E c \in Clients, secret \in Secrets : Store(c, secret)
  \/ \E c \in Clients : Delete(c)
  \/ Tick

RegistrySpec == RegistryInit /\ [][RegistryNext]_registryVars

-----------------------------------------------------------------------------
(* Properties                                                              *)

\* A client only ever gets in with a secret that its own developer was given,
\* by its registration or by a rotation: never with another client's, and never
\* with one whose only answer was lost.  That a secret handed out by a rotation
\* does get in (auth/oauth/CLIENT_REGISTRATION.md:247-255) is more than the code
\* keeps: verifyClientCredentials asks the hash stored at registration
\* (vault-integration.js:201-220), so the property promises nothing of it.
OwnSecretsOnly ==
  \A p \in accepted :
    LET c == p[1]  secret == p[2] IN
    /\ secret \in handed[c]
    /\ \A d \in Clients \ {c} : secret \notin handed[d]

\* Through any number of rotations created_at stays the time the client's
\* first credentials were stored, and previous_rotation is the time the ones
\* just replaced were written, as long as no rotation wrote over something
\* it had not read (rotateClientSecret reads and writes in two requests, so
\* that it may undo another rotation, or a deletion).
RotationTrail ==
  \A c \in Clients :
    LET cred == vault[c] IN
    cred # None /\ cred.clean =>
      /\ cred.created_at = cred.born
      /\ cred.previous_rotation = cred.former
      /\ cred.rotated_at # None => cred.former <= cred.rotated_at

\* Everybody who knows a secret: the rows, the calls and the developers
KnownBy(c) ==
  handed[c] \cup {rows[d].secret : d \in {d \in {c} : rows[d] # None}}
    \cup {calls[w].secret : w \in {w \in Workers : calls[w] # None
                                      /\ calls[w].pc # "touch" /\ calls[w].client = c}}

\* Every secret was drawn, and two clients never know the same one.
SecretsApart ==
  /\ \A c \in Clients : KnownBy(c) \subseteq 1 .. drawn
  /\ \A c, d \in Clients : c # d => KnownBy(c) \cap KnownBy(d) = {}

\* A registration in flight is the only one with its identifier, and its row
\* is not there yet.
InsertsFresh ==
  \A w \in Workers : InCall(w, "insert") =>
    /\ rows[calls[w].client] = None
    /\ \A v \in Workers : InCall(v, "insert") /\ calls[v].client = calls[w].client => v = w

\* A secret about to be found valid is the one in the row.
TouchesRight ==
  \A w \in Workers : InCall(w, "touch") =>
    LET c == calls[w].client IN
    /\ rows[c] # None /\ rows[c].secret = calls[w].secret
    /\ calls[w].secret \in handed[c]

\* A rotation in flight goes on from credentials written before it read them.
WritesDated ==
  /\ \A w \in Workers : InCall(w, "write") =>
       calls[w].read # None /\ WrittenAt(calls[w].read) <= calls[w].at /\ calls[w].at <= now
  /\ \A c \in Clients : vault[c] # None => WrittenAt(vault[c]) <= now

\* Type correctness, and what keeps the two properties above: every secret
\* was drawn for one client, and the calls in flight rest on what they have read.
RegistryInv ==
  /\ RegistryTypeOK
  /\ SecretsApart
  /\ InsertsFresh
  /\ TouchesRight
  /\ WritesDated
=============================================================================
