----------------------- MODULE ClientRegistry_proofs -----------------------
(***************************************************************************)
(* Proofs about ClientRegistry: for any number of clients and calls, with  *)
(* any queries and HTTP requests failing, a client only gets in with a     *)
(* secret its own developer was given, and the credentials in the vault    *)
(* keep a true record of their rotations.                                  *)
(***************************************************************************)
EXTENDS ClientRegistry, TLAPS

-----------------------------------------------------------------------------
(* Types                                                                   *)

\* A call in flight is a record of its worker.
LEMMA CallTyped ==
  ASSUME RegistryTypeOK, NEW w \in Workers, calls[w] # None
  PROVE  calls[w] \in Call
BY DEF RegistryTypeOK

\* The time credentials were written is a time.
LEMMA WrittenTyped ==
  ASSUME NEW cred \in Credentials
  PROVE  WrittenAt(cred) \in Nat
BY DEF Credentials, WrittenAt

\* A registration that succeeds leaves rows of the right type.
LEMMA InsertedTyped ==
  ASSUME RegistryTypeOK, NEW w \in Workers, InCall(w, "insert")
  PROVE  Inserted(calls[w]) \in [Clients -> Client \cup {None}]
<1>1. calls[w] \in Call BY CallTyped DEF InCall
<1>2. [secret |-> calls[w].secret, status |-> "active"] \in Client
  BY <1>1 DEF Call, Client, ClientStatuses
<1>3. QED BY <1>1, <1>2 DEF RegistryTypeOK, Inserted

\* The credentials that a rotation writes
RotatedTo(call) ==
  LET held == vault[call.client]
      clean == held # None /\ held.clean /\ held = call.read
  IN  [secret |-> call.secret, created_at |-> CreatedAt(call), rotated_at |-> call.at,
       previous_rotation |-> WrittenAt(call.read),
       born |-> IF clean THEN held.born ELSE now,
       former |-> IF clean THEN WrittenAt(held) ELSE None, clean |-> clean]

\* A rotation that succeeds leaves such credentials and the others as they were.
LEMMA RotatedIs ==
  ASSUME NEW call
  PROVE  Rotated(call) = [vault EXCEPT ![call.client] = RotatedTo(call)]
BY DEF Rotated, RotatedTo

\* A rotation that has read credentials writes credentials.
LEMMA RotatedToTyped ==
  ASSUME RegistryTypeOK, WritesDated, NEW w \in Workers, InCall(w, "write")
  PROVE  /\ calls[w].client \in Clients
         /\ RotatedTo(calls[w]) \in Credentials
         /\ RotatedTo(calls[w]).rotated_at = calls[w].at
         /\ WrittenAt(RotatedTo(calls[w])) = calls[w].at
<1> PICK call : call = calls[w] OBVIOUS
<1> PICK held : held = vault[call.client] OBVIOUS
<1>1. call \in Call /\ call.client \in Clients /\ call.secret \in Secrets /\ call.at \in Nat
  BY CallTyped DEF InCall, Call
<1>2. call.read \in Credentials
  BY <1>1 DEF Call, WritesDated
<1>3. held \in Credentials \cup {None} BY <1>1 DEF RegistryTypeOK
<1>4. call.read.created_at \in Nat BY <1>2 DEF Credentials
<1>5. WrittenAt(call.read) \in Nat BY <1>2, WrittenTyped
<1>6. held # None => held.born \in Nat /\ held.clean \in BOOLEAN BY <1>3 DEF Credentials
<1>7. held # None => WrittenAt(held) \in Nat BY <1>3, WrittenTyped
<1>8. now \in Nat BY DEF RegistryTypeOK
<1>9. None \notin Nat BY RegistryAssumption
<1>10. PICK clean \in BOOLEAN : clean = (held # None /\ held.clean /\ held = call.read)
  OBVIOUS
<1>11. PICK born \in Nat : born = IF clean THEN held.born ELSE now
  BY <1>6, <1>8, <1>10
<1>12. PICK former \in Nat \cup {None} : former = IF clean THEN WrittenAt(held) ELSE None
  BY <1>7, <1>10
<1>13. RotatedTo(call) =
         [secret |-> call.secret, created_at |-> call.read.created_at, rotated_at |-> call.at,
          previous_rotation |-> WrittenAt(call.read),
          born |-> born, former |-> former, clean |-> clean]
  BY <1>10, <1>11, <1>12 DEF RotatedTo, CreatedAt
<1>14. RotatedTo(call) \in Credentials /\ RotatedTo(call).rotated_at = call.at
  BY <1>1, <1>4, <1>5, <1>13 DEF Credentials
<1>15. WrittenAt(RotatedTo(call)) = call.at
  BY <1>1, <1>9, <1>14 DEF WrittenAt
<1>16. QED BY <1>1, <1>14, <1>15

\* A rotation that succeeds leaves a vault of the right type.
LEMMA RotatedTyped ==
  ASSUME RegistryTypeOK, WritesDated, NEW w \in Workers, InCall(w, "write")
  PROVE  Rotated(calls[w]) \in [Clients -> Credentials \cup {None}]
BY RotatedToTyped, RotatedIs DEF RegistryTypeOK

\* Every step keeps the types.
LEMMA TypesKept ==
  ASSUME RegistryTypeOK, WritesDated, [RegistryNext]_registryVars
  PROVE  RegistryTypeOK'
<1> USE DEF RegistryTypeOK
<1>1. ASSUME NEW w \in Workers, NEW c \in Clients, BeginRegistration(w, c)
      PROVE  RegistryTypeOK'
  <2>1. [pc |-> "insert", client |-> c, secret |-> drawn + 1, at |-> now, read |-> None]
          \in Call
    BY <1>1, RegistryAssumption DEF BeginRegistration, Call, Secrets
  <2>2. QED BY <1>1, <2>1, RegistryAssumption DEF BeginRegistration
<1>2. ASSUME NEW w \in Workers, InsertClient(w)
      PROVE  RegistryTypeOK'
  <2>1. calls[w] \in Call BY <1>2, CallTyped DEF InsertClient, InCall
  <2>2. rows' \in [Clients -> Client \cup {None}]
    BY <1>2, InsertedTyped DEF InsertClient
  <2>3. QED BY <1>2, <2>1, <2>2 DEF InsertClient, EndCall, Call
<1>3. ASSUME NEW w \in Workers, FailRegistration(w)
      PROVE  RegistryTypeOK'
  BY <1>3, InsertedTyped DEF FailRegistration, EndCall
<1>4. ASSUME NEW w \in Workers, NEW c \in Clients, NEW secret \in Secrets,
             Verify(w, c, secret)
      PROVE  RegistryTypeOK'
  <2>1. [pc |-> "touch", client |-> c, secret |-> secret, at |-> now, read |-> None] \in Call
    BY DEF Call
  <2>2. QED BY <1>4, <2>1 DEF Verify
<1>5. ASSUME NEW w \in Workers, TouchClient(w)
      PROVE  RegistryTypeOK'
  <2>1. calls[w] \in Call BY <1>5, CallTyped DEF TouchClient, InCall
  <2>2. QED BY <1>5, <2>1 DEF TouchClient, EndCall, Call
<1>6. ASSUME NEW w \in Workers, FailVerify(w)
      PROVE  RegistryTypeOK'
  BY <1>6 DEF FailVerify, EndCall
<1>7. ASSUME NEW c \in Clients, NEW status \in ClientStatuses, SetStatus(c, status)
      PROVE  RegistryTypeOK'
  <2>1. rows[c] \in Client BY <1>7 DEF SetStatus
  <2>2. [rows[c] EXCEPT !.status = status] \in Client BY <2>1 DEF Client
  <2>3. QED BY <1>7, <2>2 DEF SetStatus
<1>8. ASSUME NEW c \in Clients, NEW secret \in Secrets, Store(c, secret)
      PROVE  RegistryTypeOK'
  <2>1. [secret |-> secret, created_at |-> now, rotated_at |-> None,
         previous_rotation |-> None, born |-> now, former |-> None, clean |-> TRUE]
          \in Credentials
    BY DEF Credentials
  <2>2. QED BY <1>8, <2>1 DEF Store
<1>9. ASSUME NEW w \in Workers, NEW c \in Clients, BeginRotation(w, c)
      PROVE  RegistryTypeOK'
  <2>1. [pc |-> "write", client |-> c, secret |-> drawn + 1, at |-> now, read |-> vault[c]]
          \in Call
    BY <1>9, RegistryAssumption DEF BeginRotation, Call, Secrets
  <2>2. QED BY <1>9, <2>1, RegistryAssumption DEF BeginRotation
<1>10. ASSUME NEW w \in Workers, WriteRotation(w)
       PROVE  RegistryTypeOK'
  <2>1. calls[w] \in Call BY <1>10, CallTyped DEF WriteRotation, InCall
  <2>2. vault' \in [Clients -> Credentials \cup {None}]
    BY <1>10, RotatedTyped DEF WriteRotation
  <2>3. QED BY <1>10, <2>1, <2>2 DEF WriteRotation, EndCall, Call
<1>11. ASSUME NEW w \in Workers, FailRotation(w)
       PROVE  RegistryTypeOK'
  BY <1>11, RotatedTyped DEF FailRotation, EndCall
<1>12. ASSUME NEW c \in Clients, Delete(c)
       PROVE  RegistryTypeOK'
  BY <1>12 DEF Delete
<1>13. CASE Tick BY <1>13 DEF Tick
<1>14. CASE UNCHANGED registryVars BY <1>14 DEF registryVars
<1>15. QED
  BY <1>1, <1>2, <1>3, <1>4, <1>5, <1>6, <1>7, <1>8, <1>9, <1>10, <1>11, <1>12,
     <1>13, <1>14
  DEF RegistryNext, CallStep

-----------------------------------------------------------------------------
(* Who learns a secret                                                     *)

\* Nobody learns one.
NobodyLearns == drawn' = drawn /\ \A d \in Clients : KnownBy(d)' \subseteq KnownBy(d)

\* Those of the client c learn one just drawn.
OneLearns(c) ==
  /\ drawn' = drawn + 1
  /\ KnownBy(c)' \subseteq KnownBy(c) \cup {drawn + 1}
  /\ \A d \in Clients \ {c} : KnownBy(d)' \subseteq KnownBy(d)

\* Secrets stay apart when nobody learns one.
LEMMA ApartUnlearned ==
  ASSUME RegistryTypeOK, SecretsApart, NobodyLearns
  PROVE  SecretsApart'
<1>1. \A c \in Clients : KnownBy(c)' \subseteq 1 .. drawn'
  BY DEF SecretsApart, NobodyLearns
<1>2. \A c, d \in Clients : c # d => KnownBy(c)' \cap KnownBy(d)' = {}
  BY DEF SecretsApart, NobodyLearns
<1>3. QED BY <1>1, <1>2 DEF SecretsApart

\* A fresh secret is nobody else's.
LEMMA ApartLearned ==
  ASSUME RegistryTypeOK, SecretsApart, NEW c \in Clients, OneLearns(c)
  PROVE  SecretsApart'
<1>1. drawn \in Nat BY DEF RegistryTypeOK
<1>2. \A d \in Clients : drawn + 1 \notin KnownBy(d)
  BY <1>1 DEF SecretsApart
<1>3. \A d \in Clients : KnownBy(d)' \subseteq 1 .. drawn'
  BY <1>1 DEF SecretsApart, OneLearns
<1>4. \A d, e \in Clients : d # e => KnownBy(d)' \cap KnownBy(e)' = {}
  BY <1>2 DEF SecretsApart, OneLearns
<1>5. QED BY <1>3, <1>4 DEF SecretsApart

\* What a call that is not verifying knows, its client knows.
LEMMA CallKnows ==
  ASSUME NEW w \in Workers, calls[w] # None, calls[w].pc # "touch",
         calls[w].client \in Clients
  PROVE  calls[w].secret \in KnownBy(calls[w].client)
BY DEF KnownBy

\* A call that ends teaches nobody; a call that knows a secret may store and
\* hand out just that one.
LEMMA EndTeachesNobody ==
  ASSUME RegistryTypeOK, NEW w \in Workers, EndCall(w), UNCHANGED <<drawn, rows, handed>>
  PROVE  NobodyLearns
BY DEF RegistryTypeOK, EndCall, NobodyLearns, KnownBy

\* A registration ends with its secret in its row, and maybe handed out.
LEMMA InsertTeachesNobody ==
  ASSUME RegistryTypeOK, NEW w \in Workers, InCall(w, "insert"), EndCall(w),
         drawn' = drawn, rows' \in {rows, Inserted(calls[w])},
         handed' \in {handed, [handed EXCEPT ![calls[w].client] = @ \cup {calls[w].secret}]}
  PROVE  NobodyLearns
<1> PICK c : c = calls[w].client OBVIOUS
<1> PICK s : s = calls[w].secret OBVIOUS
<1>1. c \in Clients BY CallTyped DEF InCall, Call
<1>2. s \in KnownBy(c) BY <1>1, CallKnows DEF InCall
<1>3. \A d \in Clients : \A x \in handed'[d] : x \in handed[d] \/ (d = c /\ x = s)
  BY <1>1 DEF RegistryTypeOK
<1>4. \A d \in Clients : \/ rows'[d] = rows[d]
                         \/ d = c /\ rows'[d] # None /\ rows'[d].secret = s
  <2> PICK row : row = [secret |-> s, status |-> "active"] OBVIOUS
  <2>1. row \in Client /\ row.secret = s
    BY CallTyped DEF InCall, Call, Client, ClientStatuses
  <2>2. Inserted(calls[w]) = [rows EXCEPT ![c] = row] BY DEF Inserted
  <2>3. row # None BY <2>1, RegistryAssumption
  <2> HIDE DEF Inserted
  <2>4. QED BY <1>1, <2>1, <2>2, <2>3 DEF RegistryTypeOK
<1>5. \A v \in Workers : calls'[v] = calls[v] \/ calls'[v] = None
  BY DEF RegistryTypeOK, EndCall
<1>6. ASSUME NEW d \in Clients, NEW x \in KnownBy(d)' PROVE x \in KnownBy(d)
  <2>1. CASE x \in handed'[d] BY <1>2, <1>3, <2>1 DEF KnownBy
  <2>2. CASE rows'[d] # None /\ x = rows'[d].secret BY <1>2, <1>4, <2>2 DEF KnownBy
  <2>3. CASE \E v \in Workers : /\ calls'[v] # None /\ calls'[v].pc # "touch"
                                /\ calls'[v].client = d /\ x = calls'[v].secret
    BY <1>5, <2>3 DEF KnownBy
  <2>4. QED BY <1>6, <2>1, <2>2, <2>3 DEF KnownBy
<1>7. QED BY <1>6 DEF NobodyLearns

\* A rotation ends with its secret handed out, or not.
LEMMA WriteTeachesNobody ==
  ASSUME RegistryTypeOK, NEW w \in Workers, InCall(w, "write"), EndCall(w),
         drawn' = drawn, rows' = rows,
         handed' \in {handed, [handed EXCEPT ![calls[w].client] = @ \cup {calls[w].secret}]}
  PROVE  NobodyLearns
<1> PICK c : c = calls[w].client OBVIOUS
<1> PICK s : s = calls[w].secret OBVIOUS
<1>1. c \in Clients BY CallTyped DEF InCall, Call
<1>2. s \in KnownBy(c) BY <1>1, CallKnows DEF InCall
<1>3. \A d \in Clients : \A x \in handed'[d] : x \in handed[d] \/ (d = c /\ x = s)
  BY <1>1 DEF RegistryTypeOK
<1>4. \A v \in Workers : calls'[v] = calls[v] \/ calls'[v] = None
  BY DEF RegistryTypeOK, EndCall
<1>5. ASSUME NEW d \in Clients, NEW x \in KnownBy(d)' PROVE x \in KnownBy(d)
  BY <1>2, <1>3, <1>4, <1>5 DEF KnownBy
<1>6. QED BY <1>5 DEF NobodyLearns

\* A call that begins with the secret it has drawn teaches it to its client.
LEMMA BeginTeachesOne ==
  ASSUME RegistryTypeOK, NEW w \in Workers, NEW call \in Call,
         call.secret = drawn + 1, drawn' = drawn + 1,
         calls' = [calls EXCEPT ![w] = call], UNCHANGED <<rows, handed>>
  PROVE  OneLearns(call.client)
BY DEF RegistryTypeOK, OneLearns, KnownBy, Call

\* A change of status leaves every row its secret.
LEMMA StatusKeepsSecrets ==
  ASSUME RegistryTypeOK, NEW c \in Clients, NEW status \in ClientStatuses,
         SetStatus(c, status), NEW d \in Clients
  PROVE  /\ rows'[d] = None <=> rows[d] = None
         /\ rows[d] # None => rows'[d].secret = rows[d].secret
<1>1. rows[c] \in Client BY DEF RegistryTypeOK, SetStatus
<1>2. [rows[c] EXCEPT !.status = status] \in Client BY <1>1 DEF Client
<1>3. [rows[c] EXCEPT !.status = status].secret = rows[c].secret BY <1>1 DEF Client
<1>4. QED BY <1>1, <1>2, <1>3, RegistryAssumption DEF RegistryTypeOK, SetStatus

\* Every step keeps the secrets drawn and apart.
LEMMA ApartKept ==
  ASSUME RegistryTypeOK, SecretsApart, [RegistryNext]_registryVars
  PROVE  SecretsApart'
<1>1. ASSUME NEW w \in Workers, NEW c \in Clients, BeginRegistration(w, c)
      PROVE  SecretsApart'
  <2> PICK call : call = [pc |-> "insert", client |-> c, secret |-> drawn + 1,
                          at |-> now, read |-> None]
    OBVIOUS
  <2>1. call \in Call /\ call.client = c /\ call.secret = drawn + 1
    BY <1>1, RegistryAssumption DEF RegistryTypeOK, BeginRegistration, Call, Secrets
  <2>2. OneLearns(c)
    BY <1>1, <2>1, BeginTeachesOne DEF BeginRegistration
  <2>3. QED BY <2>2, ApartLearned
<1>2. ASSUME NEW w \in Workers, InsertClient(w)
      PROVE  NobodyLearns
  BY <1>2, InsertTeachesNobody DEF InsertClient
<1>3. ASSUME NEW w \in Workers, FailRegistration(w)
      PROVE  NobodyLearns
  BY <1>3, InsertTeachesNobody DEF FailRegistration
<1>4. ASSUME NEW w \in Workers, NEW c \in Clients, NEW secret \in Secrets,
             Verify(w, c, secret)
      PROVE  NobodyLearns
  BY <1>4 DEF RegistryTypeOK, Verify, NobodyLearns, KnownBy
<1>5. ASSUME NEW w \in Workers, TouchClient(w) \/ FailVerify(w)
      PROVE  NobodyLearns
  BY <1>5, EndTeachesNobody DEF TouchClient, FailVerify
<1>6. ASSUME NEW c \in Clients, NEW status \in ClientStatuses, SetStatus(c, status)
      PROVE  NobodyLearns
  <2>1. \A d \in Clients : /\ rows'[d] = None <=> rows[d] = None
                           /\ rows[d] # None => rows'[d].secret = rows[d].secret
    BY <1>6, StatusKeepsSecrets
  <2>2. QED BY <1>6, <2>1 DEF SetStatus, NobodyLearns, KnownBy
<1>7. ASSUME NEW c \in Clients, NEW secret \in Secrets, Store(c, secret)
      PROVE  NobodyLearns
  BY <1>7 DEF Store, NobodyLearns, KnownBy
<1>8. ASSUME NEW w \in Workers, NEW c \in Clients, BeginRotation(w, c)
      PROVE  SecretsApart'
  <2> PICK call : call = [pc |-> "write", client |-> c, secret |-> drawn + 1,
                          at |-> now, read |-> vault[c]]
    OBVIOUS
  <2>1. call \in Call /\ call.client = c /\ call.secret = drawn + 1
    BY <1>8, RegistryAssumption DEF RegistryTypeOK, BeginRotation, Call, Secrets
  <2>2. OneLearns(c)
    BY <1>8, <2>1, BeginTeachesOne DEF BeginRotation
  <2>3. QED BY <2>2, ApartLearned
<1>9. ASSUME NEW w \in Workers, WriteRotation(w)
      PROVE  NobodyLearns
  BY <1>9, WriteTeachesNobody DEF WriteRotation
<1>10. ASSUME NEW w \in Workers, FailRotation(w)
       PROVE  NobodyLearns
  BY <1>10, WriteTeachesNobody DEF FailRotation
<1>11. CASE Tick BY <1>11, ApartUnlearned DEF Tick, NobodyLearns, KnownBy
<1>12. CASE UNCHANGED registryVars
  BY <1>12, ApartUnlearned DEF registryVars, NobodyLearns, KnownBy
<1>13. CASE \E c \in Clients : Delete(c)
  <2>1. NobodyLearns BY <1>13 DEF Delete, NobodyLearns, KnownBy
  <2>2. QED BY <2>1, ApartUnlearned
<1>14. QED
  BY <1>1, <1>2, <1>3, <1>4, <1>5, <1>6, <1>7, <1>8, <1>9, <1>10, <1>11, <1>12,
     <1>13, ApartUnlearned
  DEF RegistryNext, CallStep

-----------------------------------------------------------------------------
(* What the calls in flight rest on                                        *)

\* A call that ends, having changed at most what developers and the vault hold
LEMMA EndKeepsCalls ==
  ASSUME RegistryTypeOK, InsertsFresh, TouchesRight, NEW w \in Workers, EndCall(w),
         rows' = rows, \A c \in Clients : handed[c] \subseteq handed'[c]
  PROVE  InsertsFresh' /\ TouchesRight'
<1>1. \A v \in Workers : calls'[v] # None => calls'[v] = calls[v]
  BY DEF RegistryTypeOK, EndCall
<1>2. InsertsFresh' BY <1>1 DEF InsertsFresh, InCall
<1>3. TouchesRight'
  <2> SUFFICES ASSUME NEW v \in Workers, InCall(v, "touch")'
               PROVE  LET c == calls'[v].client IN
                      /\ rows'[c] # None /\ rows'[c].secret = calls'[v].secret
                      /\ calls'[v].secret \in handed'[c]
    BY DEF TouchesRight
  <2>1. InCall(v, "touch") /\ calls'[v] = calls[v] BY <1>1 DEF InCall
  <2>2. calls[v].client \in Clients BY <2>1, CallTyped DEF InCall, Call
  <2>3. QED BY <2>1, <2>2 DEF TouchesRight
<1>4. QED BY <1>2, <1>3

\* A registration that ends, its row inserted or not
LEMMA InsertKeepsCalls ==
  ASSUME RegistryTypeOK, InsertsFresh, TouchesRight,
         NEW w \in Workers, InCall(w, "insert"), EndCall(w),
         rows' \in {rows, Inserted(calls[w])},
         \A c \in Clients : handed[c] \subseteq handed'[c]
  PROVE  InsertsFresh' /\ TouchesRight'
<1> PICK c : c = calls[w].client OBVIOUS
<1>1. c \in Clients /\ rows[c] = None BY CallTyped DEF InsertsFresh, InCall, Call
<1>2. \A d \in Clients : d # c => rows'[d] = rows[d]
  BY <1>1 DEF RegistryTypeOK, Inserted
<1>3. \A v \in Workers : calls'[v] # None => v # w /\ calls'[v] = calls[v]
  BY DEF RegistryTypeOK, EndCall
<1>4. InsertsFresh'
  <2> SUFFICES ASSUME NEW v \in Workers, InCall(v, "insert")'
               PROVE  /\ rows'[calls'[v].client] = None
                      /\ \A u \in Workers : InCall(u, "insert")'
                           /\ calls'[u].client = calls'[v].client => u = v
    BY DEF InsertsFresh
  <2>1. InCall(v, "insert") /\ calls'[v] = calls[v] /\ v # w BY <1>3 DEF InCall
  <2>2. calls[v].client \in Clients BY <2>1, CallTyped DEF InCall, Call
  <2>3. calls[v].client # c BY <2>1 DEF InsertsFresh
  <2>4. rows'[calls[v].client] = None BY <1>2, <2>1, <2>2, <2>3 DEF InsertsFresh
  <2>5. \A u \in Workers : InCall(u, "insert")' => InCall(u, "insert") /\ calls'[u] = calls[u]
    BY <1>3 DEF InCall
  <2>6. QED BY <2>1, <2>4, <2>5 DEF InsertsFresh
<1>5. TouchesRight'
  <2> SUFFICES ASSUME NEW v \in Workers, InCall(v, "touch")'
               PROVE  LET d == calls'[v].client IN
                      /\ rows'[d] # None /\ rows'[d].secret = calls'[v].secret
                      /\ calls'[v].secret \in handed'[d]
    BY DEF TouchesRight
  <2>1. InCall(v, "touch") /\ calls'[v] = calls[v] BY <1>3 DEF InCall
  <2>2. calls[v].client \in Clients BY <2>1, CallTyped DEF InCall, Call
  <2>3. calls[v].client # c BY <1>1, <2>1 DEF TouchesRight
  <2>4. rows'[calls[v].client] = rows[calls[v].client] BY <1>2, <2>2, <2>3
  <2>5. QED BY <2>1, <2>2, <2>4 DEF TouchesRight
<1>6. QED BY <1>4, <1>5

\* A call that begins: a registration with a new identifier, a verification
\* that has found the row it needs, or a rotation
LEMMA BeginKeepsCalls ==
  ASSUME RegistryTypeOK, InsertsFresh, TouchesRight,
         NEW w \in Workers, NEW call \in Call, calls[w] = None,
         calls' = [calls EXCEPT ![w] = call], UNCHANGED <<rows, handed>>,
         call.pc = "insert" =>
           /\ rows[call.client] = None
           /\ \A v \in Workers : InCall(v, "insert") => calls[v].client # call.client,
         call.pc = "touch" =>
           /\ rows[call.client] # None /\ rows[call.client].secret = call.secret
           /\ call.secret \in handed[call.client]
  PROVE  InsertsFresh' /\ TouchesRight'
<1>1. \A v \in Workers : v # w => calls'[v] = calls[v]
  BY DEF RegistryTypeOK
<1>2. calls'[w] = call BY DEF RegistryTypeOK
<1>3. InsertsFresh' BY <1>1, <1>2 DEF InsertsFresh, InCall
<1>4. TouchesRight' BY <1>1, <1>2 DEF TouchesRight, InCall
<1>5. QED BY <1>3, <1>4

\* A verification finds the secret of the row in the hands of its developer,
\* since only the client's own know it.
LEMMA VerifiedIsTold ==
  ASSUME RegistryTypeOK, SecretsApart, NEW c \in Clients, NEW secret \in Secrets,
         \E d \in Clients : secret \in handed[d], Accepts(rows[c], secret)
  PROVE  rows[c] # None /\ rows[c].secret = secret /\ secret \in handed[c]
<1>1. PICK d \in Clients : secret \in handed[d] OBVIOUS
<1>2. secret \in KnownBy(d) BY <1>1 DEF KnownBy
<1>3. secret \in KnownBy(c) BY DEF Accepts, KnownBy
<1>4. d = c BY <1>2, <1>3 DEF SecretsApart
<1>5. QED BY <1>1, <1>4 DEF Accepts

\* Every step keeps what registrations and verifications in flight rest on.
LEMMA CallsKept ==
  ASSUME RegistryInv, [RegistryNext]_registryVars
  PROVE  InsertsFresh' /\ TouchesRight'
<1> USE DEF RegistryInv
<1>1. ASSUME NEW w \in Workers, NEW c \in Clients, BeginRegistration(w, c)
      PROVE  InsertsFresh' /\ TouchesRight'
  <2> PICK call : call = [pc |-> "insert", client |-> c, secret |-> drawn + 1,
                          at |-> now, read |-> None]
    OBVIOUS
  <2>1. call \in Call /\ call.client = c /\ call.pc = "insert"
    BY <1>1, RegistryAssumption DEF RegistryTypeOK, BeginRegistration, Call, Secrets
  <2>2. call.pc # "touch" BY <2>1
  <2>3. QED BY <1>1, <2>1, <2>2, BeginKeepsCalls DEF BeginRegistration
<1>2. ASSUME NEW w \in Workers, InsertClient(w)
      PROVE  InsertsFresh' /\ TouchesRight'
  <2>1. \A c \in Clients : handed[c] \subseteq handed'[c]
    BY <1>2, CallTyped DEF InsertClient, InCall, Call, RegistryTypeOK
  <2>2. QED BY <1>2, <2>1, InsertKeepsCalls DEF InsertClient
<1>3. ASSUME NEW w \in Workers, FailRegistration(w)
      PROVE  InsertsFresh' /\ TouchesRight'
  BY <1>3, InsertKeepsCalls DEF FailRegistration
<1>4. ASSUME NEW w \in Workers, NEW c \in Clients, NEW secret \in Secrets,
             Verify(w, c, secret)
      PROVE  InsertsFresh' /\ TouchesRight'
  <2> PICK call : call = [pc |-> "touch", client |-> c, secret |-> secret,
                          at |-> now, read |-> None]
    OBVIOUS
  <2>1. call \in Call /\ call.client = c /\ call.secret = secret /\ call.pc = "touch"
    BY DEF RegistryTypeOK, Call
  <2>2. call.pc # "insert" BY <2>1
  <2>3. rows[c] # None /\ rows[c].secret = secret /\ secret \in handed[c]
    BY <1>4, VerifiedIsTold DEF Verify
  <2>4. QED BY <1>4, <2>1, <2>2, <2>3, BeginKeepsCalls DEF Verify
<1>5. ASSUME NEW w \in Workers, TouchClient(w) \/ FailVerify(w)
      PROVE  InsertsFresh' /\ TouchesRight'
  BY <1>5, EndKeepsCalls DEF TouchClient, FailVerify
<1>6. ASSUME NEW c \in Clients, NEW status \in ClientStatuses, SetStatus(c, status)
      PROVE  InsertsFresh' /\ TouchesRight'
  <2>1. \A d \in Clients : /\ rows'[d] = None <=> rows[d] = None
                           /\ rows[d] # None => rows'[d].secret = rows[d].secret
    BY <1>6, StatusKeepsSecrets
  <2>2. \A v \in Workers : calls[v] # None => calls[v].client \in Clients
    BY CallTyped DEF Call
  <2>3. InsertsFresh' BY <1>6, <2>1, <2>2 DEF SetStatus, InsertsFresh, InCall
  <2>4. TouchesRight' BY <1>6, <2>1, <2>2 DEF SetStatus, TouchesRight, InCall
  <2>5. QED BY <2>3, <2>4
<1>7. ASSUME NEW c \in Clients, NEW secret \in Secrets, Store(c, secret)
      PROVE  InsertsFresh' /\ TouchesRight'
  BY <1>7 DEF Store, InsertsFresh, TouchesRight, InCall
<1>8. ASSUME NEW w \in Workers, NEW c \in Clients, BeginRotation(w, c)
      PROVE  InsertsFresh' /\ TouchesRight'
  <2> PICK call : call = [pc |-> "write", client |-> c, secret |-> drawn + 1,
                          at |-> now, read |-> vault[c]]
    OBVIOUS
  <2>1. call \in Call /\ call.pc = "write"
    BY <1>8, RegistryAssumption DEF RegistryTypeOK, BeginRotation, Call, Secrets
  <2>2. call.pc # "touch" /\ call.pc # "insert" BY <2>1
  <2>3. QED BY <1>8, <2>1, <2>2, BeginKeepsCalls DEF BeginRotation
<1>9. ASSUME NEW w \in Workers, WriteRotation(w)
      PROVE  InsertsFresh' /\ TouchesRight'
  <2>1. \A c \in Clients : handed[c] \subseteq handed'[c]
    BY <1>9, CallTyped DEF WriteRotation, InCall, Call, RegistryTypeOK
  <2>2. QED BY <1>9, <2>1, EndKeepsCalls DEF WriteRotation
<1>10. ASSUME NEW w \in Workers, FailRotation(w)
       PROVE  InsertsFresh' /\ TouchesRight'
  BY <1>10, EndKeepsCalls DEF FailRotation
<1>11. ASSUME NEW c \in Clients, Delete(c)
       PROVE  InsertsFresh' /\ TouchesRight'
  BY <1>11 DEF Delete, InsertsFresh, TouchesRight, InCall
<1>12. CASE Tick BY <1>12 DEF Tick, InsertsFresh, TouchesRight, InCall
<1>13. CASE UNCHANGED registryVars
  BY <1>13 DEF registryVars, InsertsFresh, TouchesRight, InCall
<1>14. QED
  BY <1>1, <1>2, <1>3, <1>4, <1>5, <1>6, <1>7, <1>8, <1>9, <1>10, <1>11, <1>12, <1>13
  DEF RegistryNext, CallStep

-----------------------------------------------------------------------------
(* Times                                                                   *)

\* A call that ends leaves the others dated; it may have written credentials
\* of its own client.
LEMMA EndKeepsDates ==
  ASSUME RegistryTypeOK, WritesDated, NEW w \in Workers, EndCall(w), now' = now,
         \A c \in Clients : vault'[c] # None => WrittenAt(vault'[c]) <= now
  PROVE  WritesDated'
<1>1. \A v \in Workers : calls'[v] # None => calls'[v] = calls[v]
  BY DEF RegistryTypeOK, EndCall
<1>2. QED BY <1>1 DEF WritesDated, InCall, WrittenAt

\* A call that begins leaves the others dated.
LEMMA BeginKeepsDates ==
  ASSUME RegistryTypeOK, WritesDated, NEW w \in Workers, NEW call \in Call,
         calls' = [calls EXCEPT ![w] = call], UNCHANGED <<now, vault>>,
         call.pc = "write" =>
           call.read # None /\ WrittenAt(call.read) <= call.at /\ call.at <= now
  PROVE  WritesDated'
<1>1. \A v \in Workers : v # w => calls'[v] = calls[v] BY DEF RegistryTypeOK
<1>2. calls'[w] = call BY DEF RegistryTypeOK
<1>3. QED BY <1>1, <1>2 DEF WritesDated, InCall, WrittenAt

\* What a rotation writes was written no later than now.
LEMMA RotatedDated ==
  ASSUME RegistryTypeOK, WritesDated, NEW w \in Workers, InCall(w, "write"),
         NEW c \in Clients, Rotated(calls[w])[c] # None
  PROVE  WrittenAt(Rotated(calls[w])[c]) <= now
<1>1. calls[w].at <= now BY DEF WritesDated
<1>2. CASE c = calls[w].client
  BY <1>1, <1>2, RotatedIs, RotatedToTyped DEF RegistryTypeOK
<1>3. CASE c # calls[w].client
  BY <1>3, RotatedIs DEF RegistryTypeOK, WritesDated
<1>4. QED BY <1>2, <1>3

\* Every step keeps the dates.
LEMMA DatesKept ==
  ASSUME RegistryTypeOK, WritesDated, [RegistryNext]_registryVars
  PROVE  WritesDated'
<1>1. ASSUME NEW w \in Workers, NEW c \in Clients, BeginRegistration(w, c)
      PROVE  WritesDated'
  <2> PICK call : call = [pc |-> "insert", client |-> c, secret |-> drawn + 1,
                          at |-> now, read |-> None]
    OBVIOUS
  <2>1. call \in Call /\ call.pc # "write"
    BY <1>1, RegistryAssumption DEF RegistryTypeOK, BeginRegistration, Call, Secrets
  <2>2. QED BY <1>1, <2>1, BeginKeepsDates DEF BeginRegistration
<1>2. ASSUME NEW w \in Workers,
             InsertClient(w) \/ FailRegistration(w) \/ TouchClient(w) \/ FailVerify(w)
      PROVE  WritesDated'
  <2>1. \A c \in Clients : vault'[c] # None => WrittenAt(vault'[c]) <= now
    BY <1>2 DEF WritesDated, InsertClient, FailRegistration, TouchClient, FailVerify
  <2>2. QED
    BY <1>2, <2>1, EndKeepsDates DEF InsertClient, FailRegistration, TouchClient, FailVerify
<1>3. ASSUME NEW w \in Workers, NEW c \in Clients, NEW secret \in Secrets,
             Verify(w, c, secret)
      PROVE  WritesDated'
  <2> PICK call : call = [pc |-> "touch", client |-> c, secret |-> secret,
                          at |-> now, read |-> None]
    OBVIOUS
  <2>1. call \in Call /\ call.pc # "write" BY DEF RegistryTypeOK, Call
  <2>2. QED BY <1>3, <2>1, BeginKeepsDates DEF Verify
<1>4. ASSUME NEW c \in Clients, NEW status \in ClientStatuses, SetStatus(c, status)
      PROVE  WritesDated'
  BY <1>4 DEF SetStatus, WritesDated, InCall, WrittenAt
<1>5. ASSUME NEW c \in Clients, NEW secret \in Secrets, Store(c, secret)
      PROVE  WritesDated'
  <2> PICK cred : cred = [secret |-> secret, created_at |-> now, rotated_at |-> None,
                          previous_rotation |-> None,
                          born |-> now, former |-> None, clean |-> TRUE]
    OBVIOUS
  <2>1. WrittenAt(cred) = now BY DEF WrittenAt
  <2>2. vault' = [vault EXCEPT ![c] = cred] BY <1>5 DEF Store
  <2>3. now \in Nat BY DEF RegistryTypeOK
  <2>4. \A d \in Clients : vault'[d] # None => WrittenAt(vault'[d]) <= now
    BY <2>1, <2>2, <2>3 DEF RegistryTypeOK, WritesDated
  <2>5. QED BY <1>5, <2>4 DEF Store, WritesDated, InCall, WrittenAt
<1>6. ASSUME NEW w \in Workers, NEW c \in Clients, BeginRotation(w, c)
      PROVE  WritesDated'
  <2> PICK call : call = [pc |-> "write", client |-> c, secret |-> drawn + 1,
                          at |-> now, read |-> vault[c]]
    OBVIOUS
  <2>1. call \in Call
    BY <1>6, RegistryAssumption DEF RegistryTypeOK, BeginRotation, Call, Secrets
  <2>2. call.read # None /\ WrittenAt(call.read) <= call.at /\ call.at <= now
    BY <1>6 DEF BeginRotation, WritesDated, RegistryTypeOK
  <2>3. QED BY <1>6, <2>1, <2>2, BeginKeepsDates DEF BeginRotation
<1>7. ASSUME NEW w \in Workers, WriteRotation(w) \/ FailRotation(w)
      PROVE  WritesDated'
  <2>1. InCall(w, "write") /\ vault' \in {vault, Rotated(calls[w])} /\ EndCall(w) /\ now' = now
    BY <1>7 DEF WriteRotation, FailRotation
  <2>2. \A c \in Clients : vault'[c] # None => WrittenAt(vault'[c]) <= now
    BY <2>1, RotatedDated DEF WritesDated
  <2>3. QED BY <2>1, <2>2, EndKeepsDates
<1>8. ASSUME NEW c \in Clients, Delete(c)
      PROVE  WritesDated'
  BY <1>8 DEF Delete, WritesDated, InCall, WrittenAt, RegistryTypeOK
<1>9. CASE Tick
  <2>1. now \in Nat /\ now' = now + 1 BY <1>9 DEF RegistryTypeOK, Tick
  <2>2. \A v \in Workers : calls[v] # None => calls[v].at \in Nat BY CallTyped DEF Call
  <2>3. \A c \in Clients : vault[c] # None => WrittenAt(vault[c]) \in Nat
    BY WrittenTyped DEF RegistryTypeOK
  <2>4. \A w \in Workers : InCall(w, "write") => calls[w].at <= now + 1
    BY <2>1, <2>2 DEF WritesDated, InCall
  <2>5. \A c \in Clients : vault[c] # None => WrittenAt(vault[c]) <= now + 1
    BY <2>1, <2>3 DEF WritesDated
  <2>6. QED BY <1>9, <2>4, <2>5 DEF Tick, WritesDated, InCall, WrittenAt
<1>10. CASE UNCHANGED registryVars
  BY <1>10 DEF registryVars, WritesDated, InCall, WrittenAt
<1>11. QED
  BY <1>1, <1>2, <1>3, <1>4, <1>5, <1>6, <1>7, <1>8, <1>9, <1>10
  DEF RegistryNext, CallStep

-----------------------------------------------------------------------------
(* The theorems                                                            *)

\* Secrets are drawn for one client each, and calls in flight rest on what
\* they have read, whatever else happens between their queries.
THEOREM RegistryInvariant == RegistrySpec => []RegistryInv
<1>1. RegistryInit => RegistryInv
  BY RegistryAssumption
  DEF RegistryInit, RegistryInv, RegistryTypeOK, SecretsApart, KnownBy, InsertsFresh,
      TouchesRight, WritesDated, InCall, Secrets
<1>2. RegistryInv /\ [RegistryNext]_registryVars => RegistryInv'
  BY TypesKept, ApartKept, CallsKept, DatesKept DEF RegistryInv
<1>3. QED BY <1>1, <1>2, PTL DEF RegistrySpec

\* A step keeps the row of a client that is in its secret, and what its
\* developer was given.
LEMMA RowsStay ==
  ASSUME RegistryInv, [RegistryNext]_registryVars, NEW c \in Clients
  PROVE  /\ rows[c] # None => rows'[c] # None /\ rows'[c].secret = rows[c].secret
         /\ handed[c] \subseteq handed'[c]
<1> USE DEF RegistryInv
<1>1. ASSUME NEW w \in Workers, InsertClient(w) \/ FailRegistration(w)
      PROVE  rows[c] # None => rows'[c] = rows[c]
  <2>1. InCall(w, "insert") /\ rows' \in {rows, Inserted(calls[w])}
    BY <1>1 DEF InsertClient, FailRegistration
  <2>2. rows[calls[w].client] = None BY <2>1 DEF InsertsFresh
  <2>3. QED BY <2>1, <2>2 DEF Inserted, RegistryTypeOK
<1>2. ASSUME NEW d \in Clients, NEW status \in ClientStatuses, SetStatus(d, status)
      PROVE  rows[c] # None => rows'[c] # None /\ rows'[c].secret = rows[c].secret
  BY <1>2, StatusKeepsSecrets
<1>3. ASSUME NEW w \in Workers, InsertClient(w) \/ WriteRotation(w)
      PROVE  handed[c] \subseteq handed'[c]
  <2>1. calls[w] \in Call BY <1>3, CallTyped DEF InsertClient, WriteRotation, InCall
  <2>2. QED BY <1>3, <2>1 DEF InsertClient, WriteRotation, Call, RegistryTypeOK
<1>4. rows[c] # None => rows'[c] # None /\ rows'[c].secret = rows[c].secret
  BY <1>1, <1>2
  DEF RegistryNext, CallStep, BeginRegistration, BeginRotation, Verify, TouchClient,
      FailVerify, WriteRotation, FailRotation, Store, Delete, Tick, registryVars
<1>5. handed[c] \subseteq handed'[c]
  BY <1>3
  DEF RegistryNext, CallStep, BeginRegistration, BeginRotation, Verify, TouchClient,
      FailVerify, FailRegistration, FailRotation, SetStatus, Store, Delete, Tick, registryVars
<1>6. QED BY <1>4, <1>5

\* A secret found valid is that of the client's row, which the developer of no
\* other client was given.
Told ==
  \A p \in accepted : /\ rows[p[1]] # None /\ rows[p[1]].secret = p[2]
                      /\ p[2] \in handed[p[1]]

\* Only verifications that end well are added to what was found valid.
LEMMA AcceptedGrows ==
  ASSUME RegistryInv, [RegistryNext]_registryVars, NEW p \in accepted', p \notin accepted
  PROVE  \E w \in Workers :
           InCall(w, "touch") /\ p = <<calls[w].client, calls[w].secret>>
BY DEF RegistryNext, CallStep, BeginRegistration, BeginRotation, InsertClient,
       FailRegistration, Verify, TouchClient, FailVerify, WriteRotation, FailRotation,
       SetStatus, Store, Delete, Tick, registryVars

\* verifyClientCredentials (client-registration.js:243-288): the secret a client was
\* let in with is one its own developer was given, and the developer of no other
\* client, through any rotations, retries and lost answers.
THEOREM OwnSecretsOnlyHolds == RegistrySpec => []OwnSecretsOnly
<1>1. RegistryInit => Told BY DEF RegistryInit, Told
<1>2. ASSUME RegistryInv, Told, [RegistryNext]_registryVars PROVE Told'
  <2> SUFFICES ASSUME NEW p \in accepted'
               PROVE  /\ rows'[p[1]] # None /\ rows'[p[1]].secret = p[2]
                      /\ p[2] \in handed'[p[1]]
    BY DEF Told
  <2>1. /\ p[1] \in Clients /\ rows[p[1]] # None /\ rows[p[1]].secret = p[2]
        /\ p[2] \in handed[p[1]]
    <3>1. CASE p \in accepted
      BY <1>2, <3>1 DEF Told, RegistryInv, RegistryTypeOK
    <3>2. CASE p \notin accepted
      <4>1. PICK w \in Workers :
              InCall(w, "touch") /\ p = <<calls[w].client, calls[w].secret>>
        BY <1>2, <3>2, AcceptedGrows
      <4>2. calls[w].client \in Clients
        BY <1>2, <4>1, CallTyped DEF InCall, Call, RegistryInv
      <4>3. QED BY <1>2, <4>1, <4>2 DEF RegistryInv, TouchesRight
    <3>3. QED BY <3>1, <3>2
  <2>2. QED BY <1>2, <2>1, RowsStay
<1>3. RegistryInv /\ Told => OwnSecretsOnly
  <2> SUFFICES ASSUME RegistryInv, Told, NEW p \in accepted
               PROVE  /\ p[2] \in handed[p[1]]
                      /\ \A d \in Clients \ {p[1]} : p[2] \notin handed[d]
    BY DEF OwnSecretsOnly
  <2>1. p[2] \in handed[p[1]] /\ p[1] \in Clients
    BY DEF Told, RegistryInv, RegistryTypeOK
  <2>2. \A d \in Clients : handed[d] \subseteq KnownBy(d) BY DEF KnownBy
  <2>3. QED BY <2>1, <2>2 DEF RegistryInv, SecretsApart
<1>4. QED BY <1>1, <1>2, <1>3, RegistryInvariant, PTL DEF RegistrySpec

\* What a rotation writes over credentials it has read continues their trail.
LEMMA TrailContinues ==
  ASSUME RegistryInv, RotationTrail, NEW w \in Workers, InCall(w, "write"),
         RotatedTo(calls[w]).clean
  PROVE  LET cred == RotatedTo(calls[w]) IN
         /\ cred.created_at = cred.born
         /\ cred.previous_rotation = cred.former
         /\ cred.rotated_at # None => cred.former <= cred.rotated_at
<1> PICK call : call = calls[w] OBVIOUS
<1> PICK held : held = vault[call.client] OBVIOUS
<1>1. call.client \in Clients BY CallTyped DEF RegistryInv, InCall, Call
<1>2. held # None /\ held.clean /\ held = call.read BY DEF RotatedTo
<1>3. held.created_at = held.born BY <1>1, <1>2 DEF RotationTrail
<1>4. RotatedTo(call).born = held.born /\ RotatedTo(call).former = WrittenAt(held)
  BY <1>2 DEF RotatedTo
<1>5. RotatedTo(call).created_at = held.created_at
  BY <1>2 DEF RotatedTo, CreatedAt
<1>6. /\ RotatedTo(call).previous_rotation = WrittenAt(held)
      /\ RotatedTo(call).rotated_at = call.at
  BY <1>2 DEF RotatedTo
<1>7. WrittenAt(held) <= call.at BY <1>2 DEF RegistryInv, WritesDated
<1>8. QED BY <1>3, <1>4, <1>5, <1>6, <1>7

\* Through any number of rotations, concurrent ones too, credentials that
\* were written over what their rotation had read keep the time of the first
\* ones and point back to the time of those they replaced.
THEOREM RotationTrailHolds == RegistrySpec => []RotationTrail
<1>1. RegistryInit => RotationTrail BY DEF RegistryInit, RotationTrail
<1>2. ASSUME RegistryInv, RotationTrail, [RegistryNext]_registryVars PROVE RotationTrail'
  <2>1. ASSUME NEW w \in Workers, WriteRotation(w) \/ FailRotation(w)
        PROVE  RotationTrail'
    <3>1. InCall(w, "write") /\ vault' \in {vault, Rotated(calls[w])}
      BY <2>1 DEF WriteRotation, FailRotation
    <3>2. CASE vault' = vault BY <1>2, <3>2 DEF RotationTrail
    <3>3. CASE vault' = [vault EXCEPT ![calls[w].client] = RotatedTo(calls[w])]
      <4> SUFFICES ASSUME NEW c \in Clients, vault'[c] # None, vault'[c].clean
                   PROVE  LET cred == vault'[c] IN
                          /\ cred.created_at = cred.born
                          /\ cred.previous_rotation = cred.former
                          /\ cred.rotated_at # None => cred.former <= cred.rotated_at
        BY DEF RotationTrail
      <4>1. CASE c = calls[w].client
        <5>1. vault'[c] = RotatedTo(calls[w])
          BY <1>2, <3>3, <4>1 DEF RegistryInv, RegistryTypeOK
        <5>2. QED BY <1>2, <3>1, <5>1, TrailContinues
      <4>2. CASE c # calls[w].client
        <5>1. vault'[c] = vault[c] BY <1>2, <3>3, <4>2 DEF RegistryInv, RegistryTypeOK
        <5>2. QED BY <1>2, <5>1 DEF RotationTrail
      <4>3. QED BY <4>1, <4>2
    <3>4. QED BY <3>1, <3>2, <3>3, RotatedIs
  <2>2. ASSUME NEW c \in Clients, NEW secret \in Secrets, Store(c, secret)
        PROVE  RotationTrail'
    <3> PICK cred : cred = [secret |-> secret, created_at |-> now, rotated_at |-> None,
                            previous_rotation |-> None,
                            born |-> now, former |-> None, clean |-> TRUE]
      OBVIOUS
    <3>1. /\ cred.created_at = cred.born /\ cred.previous_rotation = cred.former
          /\ cred.rotated_at = None
      OBVIOUS
    <3>2. vault' = [vault EXCEPT ![c] = cred] BY <2>2 DEF Store
    <3>3. \A d \in Clients : vault'[d] = IF d = c THEN cred ELSE vault[d]
      BY <1>2, <3>2 DEF RegistryInv, RegistryTypeOK
    <3>4. QED BY <1>2, <3>1, <3>3 DEF RotationTrail
  <2>3. ASSUME NEW c \in Clients, Delete(c)
        PROVE  RotationTrail'
    BY <1>2, <2>3 DEF Delete, RotationTrail, RegistryInv, RegistryTypeOK
  <2>4. CASE vault' = vault BY <1>2, <2>4 DEF RotationTrail
  <2>5. QED
    BY <1>2, <2>1, <2>2, <2>3, <2>4
    DEF RegistryNext, CallStep, BeginRegistration, BeginRotation, Verify, TouchClient,
        FailVerify, InsertClient, FailRegistration, SetStatus, Tick, registryVars
<1>3. QED BY <1>1, <1>2, RegistryInvariant, PTL DEF RegistrySpec
=============================================================================
