------------------------- MODULE AccountsApi_proofs -------------------------
(***************************************************************************)
(* Proofs about AccountsApi: for any customers, accounts, limits and       *)
(* concurrent requests, with rows booked between any two queries, answers  *)
(* are made of the customer's own rows, balances and counts cover what     *)
(* they must, and an application that follows has_more to the end misses   *)
(* no row but those that tie in the ORDER BY.                              *)
(***************************************************************************)
EXTENDS AccountsApi, FiniteSetTheorems, SequenceTheorems, TLAPS

-----------------------------------------------------------------------------
(* Rows and their order                                                    *)

\* The table holds rows, no more than its bound.
TableOK == transactions \in Seq(Row) /\ Len(transactions) <= MaxRows

\* Rows have dates and times that can be compared.
LEMMA RowTyped ==
  ASSUME TableOK, NEW t \in DOMAIN transactions
  PROVE  /\ t \in Rows /\ t \in Nat
         /\ transactions[t].account \in Accounts
         /\ transactions[t].date \in Int /\ transactions[t].created_at \in Int
<1>1. t \in 1 .. Len(transactions) /\ transactions[t] \in Row /\ Len(transactions) \in Nat
  BY LenProperties, ElementOfSeq DEF TableOK
<1>2. t \in Rows /\ t \in Nat
  BY <1>1, AccountsAssumption DEF TableOK, Rows
<1>3. Dates \subseteq Int BY AccountsAssumption
<1> PICK row : row = transactions[t] OBVIOUS
<1>4. row.account \in Accounts /\ row.date \in Dates /\ row.created_at \in Nat
  BY <1>1 DEF Row
<1>5. row.date \in Int BY <1>3, <1>4
<1>6. row.created_at \in Int BY <1>4
<1>7. QED BY <1>2, <1>4, <1>5, <1>6

\* The rows of the table are finitely many.
LEMMA RowsFinite ==
  ASSUME TableOK
  PROVE  IsFiniteSet(DOMAIN transactions) /\ DOMAIN transactions \subseteq Rows
<1>1. DOMAIN transactions = 1 .. Len(transactions) /\ Len(transactions) \in Nat
  BY LenProperties DEF TableOK
<1>2. IsFiniteSet(1 .. Len(transactions)) BY <1>1, FS_Interval
<1>3. QED BY <1>1, <1>2, RowTyped

\* No row comes before itself.
LEMMA NotBeforeItself ==
  ASSUME TableOK, NEW t \in DOMAIN transactions
  PROVE  ~Precedes(t, t)
BY RowTyped DEF Precedes

\* The rows of an account, and those a page is taken from, are in the table.
LEMMA RowsOfTable ==
  /\ \A a : Of(a) \subseteq DOMAIN transactions
  /\ \A walk : Matching(walk) \subseteq Of(walk.account)
BY DEF Of, Matching

-----------------------------------------------------------------------------
(* Pages                                                                   *)

\* A page holds rows of the query.
LEMMA PageOfQuery ==
  ASSUME NEW all, NEW limit, NEW offset, NEW page \in Pages(all, limit, offset)
  PROVE  page \subseteq all
BY DEF Pages

\* The lesser of two numbers
LEMMA LeastIs ==
  ASSUME NEW m \in Nat, NEW n \in Nat
  PROVE  /\ Least(m, n) \in Nat
         /\ Least(m, n) <= m /\ Least(m, n) <= n
         /\ m <= n => Least(m, n) = m
         /\ Least(m, n) < n => Least(m, n) = m
BY DEF Least

\* A row that at least `offset` rows precede, that ties with none and is not
\* on the page that skips `offset` rows and takes `limit`, is preceded by all
\* that are skipped and by a full page.
LEMMA PageFull ==
  ASSUME TableOK, NEW all \in SUBSET DOMAIN transactions,
         NEW limit \in Nat, NEW offset \in Nat, NEW page \in Pages(all, limit, offset),
         NEW t \in all \ page, ~Tied(t, all), Cardinality(Ahead(t, all)) >= offset
  PROVE  Cardinality(Ahead(t, all)) >= offset + limit
<1>1. PICK skipped \in SUBSET (all \ page) :
        /\ Cardinality(skipped) = Least(offset, Cardinality(all))
        /\ Cardinality(page) = Least(limit, Cardinality(all \ skipped))
        /\ Leads(skipped, all)
        /\ Leads(skipped \cup page, all)
  BY DEF Pages
<1> PICK ahead : ahead = Ahead(t, all) OBVIOUS
<1>2. IsFiniteSet(all) BY RowsFinite, FS_Subset
<1>3. page \subseteq all BY PageOfQuery
<1>4. /\ ahead \subseteq all \ {t}
  BY NotBeforeItself DEF Ahead
<1>5. /\ IsFiniteSet(skipped) /\ IsFiniteSet(page) /\ IsFiniteSet(ahead)
      /\ IsFiniteSet(all \ skipped)
  BY <1>2, <1>3, <1>4, FS_Subset
<1>6. /\ Cardinality(all) \in Nat /\ Cardinality(skipped) \in Nat /\ Cardinality(page) \in Nat
      /\ Cardinality(ahead) \in Nat /\ Cardinality(all \ skipped) \in Nat
  BY <1>2, <1>5, FS_CardinalityType
<1>7. Cardinality(skipped) = offset
  <2>1. Cardinality(ahead) <= Cardinality(all) BY <1>2, <1>4, FS_Subset
  <2>2. offset <= Cardinality(all) BY <1>6, <2>1
  <2>3. QED BY <1>1, <1>6, <2>2, LeastIs
<1>8. t \notin skipped
  <2> SUFFICES ASSUME t \in skipped PROVE FALSE
    OBVIOUS
  <2>1. ahead \subseteq skipped \ {t}
    BY <1>1, <1>4 DEF Leads, Ahead
  <2>2. IsFiniteSet(skipped \ {t}) /\ Cardinality(skipped \ {t}) = offset - 1
    BY <1>5, <1>7, FS_RemoveElement
  <2>3. Cardinality(ahead) <= offset - 1 BY <2>1, <2>2, FS_Subset
  <2>4. QED BY <1>6, <2>3
<1>9. Cardinality(page) = limit
  <2>1. page \subseteq all \ skipped /\ page # all \ skipped
    BY <1>3, <1>8
  <2>2. Cardinality(page) <= Cardinality(all \ skipped)
        /\ Cardinality(page) # Cardinality(all \ skipped)
    BY <1>5, <2>1, FS_Subset
  <2>3. Cardinality(page) < Cardinality(all \ skipped) BY <1>6, <2>2
  <2>4. QED BY <1>1, <1>6, <2>3, LeastIs
<1>10. Cardinality(skipped \cup page) = offset + limit
  <2>1. skipped \cap page = {} OBVIOUS
  <2>2. Cardinality({}) = 0 BY FS_EmptySet
  <2>3. QED BY <1>5, <1>6, <1>7, <1>9, <2>1, <2>2, FS_Union
<1>11. skipped \cup page \subseteq ahead
  <2> SUFFICES ASSUME NEW s \in skipped \cup page PROVE s \in ahead
    OBVIOUS
  <2>1. s \in all /\ s # t BY <1>3, <1>8
  <2>2. ~Precedes(t, s) BY <1>1, <1>8 DEF Leads
  <2>3. Precedes(s, t) BY <2>1, <2>2 DEF Tied
  <2>4. QED BY <2>1, <2>3 DEF Ahead
<1>12. QED BY <1>5, <1>10, <1>11, FS_Subset

\* When no page is left, at least one row too many would precede a row that is
\* missing.
LEMMA NothingLeft ==
  ASSUME TableOK, NEW all \in SUBSET DOMAIN transactions, NEW n \in Nat,
         ~(n < Cardinality(all)), NEW t \in all
  PROVE  ~(Cardinality(Ahead(t, all)) >= n)
<1> PICK ahead : ahead = Ahead(t, all) OBVIOUS
<1>1. IsFiniteSet(all) BY RowsFinite, FS_Subset
<1>2. ahead \subseteq all \ {t} BY NotBeforeItself DEF Ahead
<1>3. IsFiniteSet(all \ {t}) /\ Cardinality(all \ {t}) = Cardinality(all) - 1
  BY <1>1, FS_RemoveElement
<1>4. Cardinality(ahead) <= Cardinality(all) - 1 BY <1>2, <1>3, FS_Subset
<1>5. Cardinality(ahead) \in Nat /\ Cardinality(all) \in Nat
  BY <1>1, <1>2, <1>3, FS_Subset, FS_CardinalityType
<1>6. QED BY <1>4, <1>5

-----------------------------------------------------------------------------
(* One call                                                                *)

\* What the invariant says of a walk through the pages
WalkOK(walk) ==
  /\ walk \in Walk
  /\ walk.before \subseteq DOMAIN transactions
  /\ walk.page \cup walk.collected \subseteq DOMAIN transactions
  /\ walk.pc \in {"page", "count"} => Owner[walk.account] = walk.customer
  /\ \A t \in walk.page \cup walk.collected :
       Owner[transactions[t].account] = walk.customer
  /\ OnTrack(walk)

\* What it says of a sum
SumOK(read, a) ==
  /\ read.summed[a] \subseteq DOMAIN transactions
  /\ {t \in read.before : transactions[t].account = a} \subseteq read.summed[a]
  /\ \A t \in read.summed[a] : transactions[t].account = a
  /\ Owner[a] = read.customer

\* What it says of the other requests
ReadOK(read) ==
  /\ read \in Read
  /\ read.before \subseteq DOMAIN transactions
  /\ read.kind # "list" => read.account \in Accounts
  /\ \A a \in read.todo : Owner[a] = read.customer
  /\ \A a \in Accounts : read.summed[a] # {} => SumOK(read, a)
  /\ read.kind = "detail" /\ read.pc = "answered" /\ read.status = 200 =>
       read.summed[read.account] \subseteq read.counted

\* Every call in flight is as it should be.
CallsOK == \A c \in Calls : calls[c] = None \/ WalkOK(calls[c]) \/ ReadOK(calls[c])

\* The calls' domain, which they keep
CallsTyped == calls \in [Calls -> Read \cup Walk \cup {None}]

\* A walk is no other request.
LEMMA KindsApart ==
  /\ \A walk \in Walk : walk.kind = "transactions"
  /\ \A read \in Read : read.kind # "transactions"
BY DEF Walk, Read

\* The invariant is what holds of the table and of each call.
LEMMA InvIsOfCalls ==
  TableOK /\ CallsTyped /\ CallsOK => AccountsInv
<1> SUFFICES ASSUME TableOK, CallsTyped, CallsOK
             PROVE  AccountsInv
  OBVIOUS
<1>1. AccountsTypeOK BY DEF TableOK, CallsTyped, AccountsTypeOK
<1>2. ASSUME NEW c \in Calls, calls[c] # None
      PROVE  /\ calls[c].kind = "transactions" => WalkOK(calls[c])
             /\ calls[c].kind # "transactions" => ReadOK(calls[c])
  BY <1>2, KindsApart DEF CallsOK, WalkOK, ReadOK
<1>3. SumsCover BY <1>2 DEF SumsCover, WalkOK, ReadOK, SumOK
<1>4. OwnRowsOnly
  <2> SUFFICES ASSUME NEW c \in Calls, calls[c] # None
               PROVE  IF calls[c].kind = "transactions"
                        THEN \A t \in calls[c].page \cup calls[c].collected :
                               Owner[transactions[t].account] = calls[c].customer
                        ELSE \A a \in Accounts : \A t \in calls[c].summed[a] :
                               transactions[t].account = a /\ Owner[a] = calls[c].customer
    BY DEF OwnRowsOnly
  <2>1. CASE calls[c].kind = "transactions" BY <1>2, <2>1 DEF WalkOK
  <2>2. CASE calls[c].kind # "transactions" BY <1>2, <2>2 DEF ReadOK, SumOK
  <2>3. QED BY <2>1, <2>2
<1>5. ReadsCover
  <2> SUFFICES ASSUME NEW c \in Calls, Good(c), calls[c].kind # "transactions"
               PROVE  /\ \A a \in Accounts : calls[c].summed[a] # {} =>
                           {t \in calls[c].before : transactions[t].account = a}
                             \subseteq calls[c].summed[a]
                      /\ calls[c].kind = "detail" =>
                           calls[c].summed[calls[c].account] \subseteq calls[c].counted
    BY DEF ReadsCover
  <2>1. ReadOK(calls[c]) BY <1>2 DEF Good, InCall
  <2>2. QED BY <2>1 DEF ReadOK, SumOK, Good, InCall
<1>6. PagesOnTrack BY <1>2 DEF PagesOnTrack, WalkOK
<1>7. QED BY <1>1, <1>3, <1>4, <1>5, <1>6 DEF AccountsInv

-----------------------------------------------------------------------------
(* The bank books a row                                                    *)

\* Rows are only added.
Grown == \A t \in DOMAIN transactions :
           t \in DOMAIN transactions' /\ transactions'[t] = transactions[t]

\* A row is added to the rest.
LEMMA BookGrows ==
  ASSUME TableOK, NEW account \in Accounts, NEW date \in Dates, NEW together \in BOOLEAN,
         Book(account, date, together)
  PROVE  TableOK' /\ Grown /\ calls' = calls
<1> PICK rows : rows = Len(transactions) OBVIOUS
<1> PICK time : time = IF rows = 0 THEN 0
                       ELSE transactions[rows].created_at + (IF together THEN 0 ELSE 1)
  OBVIOUS
<1> PICK row : row = [account |-> account, date |-> date, created_at |-> time] OBVIOUS
<1>1. /\ rows < MaxRows /\ calls' = calls
      /\ transactions' = Append(transactions, row)
  BY DEF Book
<1>2. rows \in Nat /\ MaxRows \in Nat BY LenProperties, AccountsAssumption DEF TableOK
<1>3. time \in Nat
  <2>1. CASE rows = 0 BY <2>1
  <2>2. CASE rows # 0
    <3>1. transactions[rows] \in Row BY <1>2, <2>2, ElementOfSeq DEF TableOK
    <3>2. transactions[rows].created_at \in Nat BY <3>1 DEF Row
    <3>3. QED BY <2>2, <3>2
  <2>3. QED BY <2>1, <2>2
<1>4. row \in Row BY <1>3 DEF Row
<1>5. /\ transactions' \in Seq(Row) /\ Len(transactions') = rows + 1
      /\ \A i \in 1 .. rows : transactions'[i] = transactions[i]
  BY <1>1, <1>4, AppendProperties DEF TableOK
<1>6. DOMAIN transactions = 1 .. rows /\ DOMAIN transactions' = 1 .. rows + 1
  BY <1>5, LenProperties DEF TableOK
<1>7. Grown BY <1>2, <1>5, <1>6 DEF Grown
<1>8. TableOK' BY <1>1, <1>2, <1>5 DEF TableOK
<1>9. QED BY <1>1, <1>7, <1>8

\* The order of the rows there were stays what it was.
LEMMA OrderStays ==
  ASSUME Grown, NEW t \in DOMAIN transactions, NEW u \in DOMAIN transactions
  PROVE  Precedes(t, u)' <=> Precedes(t, u)
BY DEF Grown, Precedes

\* A row that is missing then was missing before, with no fewer rows ahead.
LEMMA MissingStays ==
  ASSUME TableOK, TableOK', Grown, NEW walk, walk.before \subseteq DOMAIN transactions,
         NEW t \in Missing(walk)'
  PROVE  /\ t \in Missing(walk)
         /\ Cardinality(Ahead(t, Matching(walk))) <= Cardinality(Ahead(t, Matching(walk)))'
<1>1. Matching(walk) \subseteq Matching(walk)' BY DEF Matching, Of, Grown
<1>2. t \in DOMAIN transactions /\ t \in Matching(walk)'
  BY DEF Missing
<1>3. t \in Matching(walk) BY <1>2 DEF Matching, Of, Grown
<1>4. Matching(walk) \subseteq DOMAIN transactions
      /\ Matching(walk)' \subseteq DOMAIN transactions'
  BY DEF Matching, Of
<1>5. ~Tied(t, Matching(walk))
  <2> SUFFICES ASSUME NEW u \in Matching(walk) \ {t}, ~Precedes(t, u), ~Precedes(u, t)
               PROVE  FALSE
    BY DEF Tied
  <2>1. ~Precedes(t, u)' /\ ~Precedes(u, t)' BY <1>2, <1>4, OrderStays
  <2>2. u \in Matching(walk)' \ {t} BY <1>1
  <2>3. Tied(t, Matching(walk))' BY <2>1, <2>2 DEF Tied
  <2>4. QED BY <2>3 DEF Missing
<1>6. t \in Missing(walk) BY <1>3, <1>5 DEF Missing
<1>7. Ahead(t, Matching(walk)) \subseteq Ahead(t, Matching(walk))'
  BY <1>1, <1>2, <1>4, OrderStays DEF Ahead
<1>8. IsFiniteSet(Ahead(t, Matching(walk))')
  <2>1. IsFiniteSet(DOMAIN transactions')
    <3>1. DOMAIN transactions' = 1 .. Len(transactions') /\ Len(transactions') \in Nat
      BY LenProperties DEF TableOK
    <3>2. QED BY <3>1, FS_Interval
  <2>2. Ahead(t, Matching(walk))' \subseteq DOMAIN transactions' BY <1>4 DEF Ahead
  <2>3. QED BY <2>1, <2>2, FS_Subset
<1>9. QED BY <1>6, <1>7, <1>8, FS_Subset

\* So at least as many rows as before come before what is missing.
LEMMA MissingFromStays ==
  ASSUME TableOK, TableOK', Grown, NEW walk, walk.before \subseteq DOMAIN transactions,
         NEW n \in Int, MissingFrom(walk, n)
  PROVE  MissingFrom(walk, n)'
<1> SUFFICES ASSUME NEW t \in Missing(walk)'
             PROVE  Cardinality(Ahead(t, Matching(walk)))' >= n
  BY DEF MissingFrom
<1>1. t \in Missing(walk)
      /\ Cardinality(Ahead(t, Matching(walk))) <= Cardinality(Ahead(t, Matching(walk)))'
  BY MissingStays
<1>2. Cardinality(Ahead(t, Matching(walk))) >= n BY <1>1 DEF MissingFrom
<1>3. Cardinality(Ahead(t, Matching(walk))) \in Nat
      /\ Cardinality(Ahead(t, Matching(walk)))' \in Nat
  <2>1. IsFiniteSet(Ahead(t, Matching(walk)))
    BY RowsFinite, FS_Subset DEF Ahead, Matching, Of
  <2>2. IsFiniteSet(Ahead(t, Matching(walk))')
    <3>1. DOMAIN transactions' = 1 .. Len(transactions') /\ Len(transactions') \in Nat
      BY LenProperties DEF TableOK
    <3>2. IsFiniteSet(DOMAIN transactions') BY <3>1, FS_Interval
    <3>3. Ahead(t, Matching(walk))' \subseteq DOMAIN transactions' BY DEF Ahead, Matching, Of
    <3>4. QED BY <3>2, <3>3, FS_Subset
  <2>3. QED BY <2>1, <2>2, FS_CardinalityType
<1>4. QED BY <1>1, <1>2, <1>3

\* A walk is as it should be after a row was booked.
LEMMA BookKeepsWalk ==
  ASSUME TableOK, TableOK', Grown, NEW walk, WalkOK(walk)
  PROVE  WalkOK(walk)'
<1>1. walk \in Walk /\ walk.offset \in Int /\ walk.limit \in Int /\ walk.offset + walk.limit \in Int
  BY DEF WalkOK, Walk
<1>2. walk.before \subseteq DOMAIN transactions BY DEF WalkOK
<1>3. \A n \in Int : MissingFrom(walk, n) => MissingFrom(walk, n)'
  BY <1>2, MissingFromStays
<1>4. Missing(walk) = {} => Missing(walk)' = {}
  BY <1>2, MissingStays
<1>5. OnTrack(walk)' BY <1>1, <1>3, <1>4 DEF WalkOK, OnTrack
<1>6. walk.before \subseteq DOMAIN transactions'
      /\ walk.page \cup walk.collected \subseteq DOMAIN transactions'
  BY DEF WalkOK, Grown
<1>7. \A t \in walk.page \cup walk.collected :
        Owner[transactions'[t].account] = walk.customer
  BY DEF WalkOK, Grown
<1>8. QED BY <1>1, <1>5, <1>6, <1>7 DEF WalkOK

\* So is another request.
LEMMA BookKeepsRead ==
  ASSUME Grown, NEW read, ReadOK(read)
  PROVE  ReadOK(read)'
<1>1. \A a \in Accounts : SumOK(read, a) => SumOK(read, a)'
  BY DEF ReadOK, SumOK, Grown
<1>2. read.before \subseteq DOMAIN transactions' BY DEF ReadOK, Grown
<1>3. QED BY <1>1, <1>2 DEF ReadOK

-----------------------------------------------------------------------------
(* A call takes a step                                                     *)

\* A step of one call that leaves it as it should be leaves them all so.
LEMMA OneCall ==
  ASSUME TableOK, CallsTyped, CallsOK, NEW c \in Calls, NEW r,
         calls' = [calls EXCEPT ![c] = r], transactions' = transactions,
         r = None \/ WalkOK(r) \/ ReadOK(r)
  PROVE  TableOK' /\ CallsTyped' /\ CallsOK'
<1>1. TableOK' /\ Grown BY DEF TableOK, Grown
<1>2. r \in Read \cup Walk \cup {None} BY DEF WalkOK, ReadOK
<1>3. CallsTyped' BY <1>2 DEF CallsTyped
<1>4. \A d \in Calls : calls'[d] = IF d = c THEN r ELSE calls[d] BY DEF CallsTyped
<1>5. ASSUME NEW call, WalkOK(call) PROVE WalkOK(call)'
  BY <1>1, <1>5, BookKeepsWalk
<1>6. ASSUME NEW call, ReadOK(call) PROVE ReadOK(call)'
  BY <1>1, <1>6, BookKeepsRead
<1>7. ASSUME NEW d \in Calls PROVE (calls[d] = None \/ WalkOK(calls[d]) \/ ReadOK(calls[d]))'
  <2> PICK call : call = IF d = c THEN r ELSE calls[d] OBVIOUS
  <2>1. call = None \/ WalkOK(call) \/ ReadOK(call) BY DEF CallsOK
  <2>2. call = None \/ WalkOK(call)' \/ ReadOK(call)' BY <1>5, <1>6, <2>1
  <2>3. calls'[d] = call BY <1>4
  <2>4. QED BY <2>2, <2>3 DEF WalkOK, ReadOK, SumOK
<1>8. QED BY <1>1, <1>3, <1>7 DEF CallsOK

\* A call moved to another query or to its answer
Moved(call, pc, status) == [call EXCEPT !.pc = pc, !.status = status]

\* Answered and Onward are such moves.
LEMMA MovesOnward ==
  ASSUME NEW call
  PROVE  /\ \A status : Answered(call, status) = Moved(call, "answered", status)
         /\ Onward(call) = Moved(call, Following(call.kind, call.pc),
              IF Following(call.kind, call.pc) = "answered" THEN 200 ELSE 0)
BY DEF Answered, Onward, Moved

\* The order of the queries, handler by handler
LEMMA QueriesFollow ==
  /\ Following("transactions", "account") = "page"
  /\ Following("transactions", "page") = "count"
  /\ \A kind : Following(kind, "count") = "answered"
  /\ \A kind : kind # "transactions" => Following(kind, "account") = "balance"
  /\ Following("detail", "balance") = "count"
  /\ \A kind : kind # "detail" => Following(kind, "balance") = "answered"
<1>1. Following("transactions", "account") = "page" BY DEF Following
<1>2. Following("transactions", "page") = "count" BY DEF Following
<1>3. \A kind : Following(kind, "count") = "answered" BY DEF Following
<1>4. \A kind : kind # "transactions" => Following(kind, "account") = "balance"
  BY DEF Following
<1>5. Following("detail", "balance") = "count" BY DEF Following
<1>6. \A kind : kind # "detail" => Following(kind, "balance") = "answered"
  BY DEF Following
<1>7. QED BY <1>1, <1>2, <1>3, <1>4, <1>5, <1>6

\* What a walk asks for and has so far
AlikeWalk(r, walk) ==
  /\ r.customer = walk.customer /\ r.account = walk.account /\ r.range = walk.range
  /\ r.limit = walk.limit /\ r.offset = walk.offset /\ r.before = walk.before
  /\ r.collected = walk.collected

\* A move of a walk
LEMMA MovedWalk ==
  ASSUME NEW walk \in Walk, NEW pc \in {"account", "page", "count", "answered"},
         NEW status \in {0, 200, 404, 500}
  PROVE  LET r == Moved(walk, pc, status) IN
         /\ r \in Walk /\ r.pc = pc /\ r.status = status
         /\ AlikeWalk(r, walk) /\ r.page = walk.page
         /\ r.hasMore <=> walk.hasMore
<1> PICK r : r = Moved(walk, pc, status) OBVIOUS
<1>1. r \in Walk
  <2>1. PICK m : m = [walk EXCEPT !.pc = pc] OBVIOUS
  <2>2. m \in Walk BY <2>1 DEF Walk
  <2>3. PICK q : q = [m EXCEPT !.status = status] OBVIOUS
  <2>4. q \in Walk BY <2>2, <2>3 DEF Walk
  <2>5. r = q BY <2>1, <2>3 DEF Moved, Walk
  <2>6. QED BY <2>4, <2>5
<1>2. r.pc = pc /\ r.status = status /\ r.page = walk.page BY DEF Moved, Walk
<1>3. AlikeWalk(r, walk) BY DEF Moved, Walk, AlikeWalk
<1>4. r.hasMore = walk.hasMore BY DEF Moved, Walk
<1>5. QED BY <1>1, <1>2, <1>3, <1>4

\* What setting has_more changes of a walk
LEMMA MoreSet ==
  ASSUME NEW walk \in Walk, NEW more \in BOOLEAN, NEW r, r = [walk EXCEPT !.hasMore = more]
  PROVE  /\ r \in Walk /\ r.pc = walk.pc /\ r.status = walk.status
         /\ AlikeWalk(r, walk) /\ r.page = walk.page
         /\ r.hasMore <=> more
<1>1. r \in Walk BY DEF Walk
<1>2. r.pc = walk.pc /\ r.status = walk.status /\ r.page = walk.page BY DEF Walk
<1>3. AlikeWalk(r, walk) BY DEF Walk, AlikeWalk
<1>4. r.hasMore = more BY DEF Walk
<1>5. QED BY <1>1, <1>2, <1>3, <1>4

\* Walks alike with the same page look for the same rows.
LEMMA AlikeMissing ==
  ASSUME NEW r, NEW walk, AlikeWalk(r, walk)
  PROVE  /\ Matching(r) = Matching(walk)
         /\ r.page = walk.page => /\ Missing(r) = Missing(walk)
                                  /\ \A n : MissingFrom(walk, n) => MissingFrom(r, n)
<1>1. Matching(r) = Matching(walk) BY DEF AlikeWalk, Matching
<1>2. r.page = walk.page => Missing(r) = Missing(walk)
  BY <1>1 DEF AlikeWalk, Missing
<1>3. QED BY <1>1, <1>2 DEF MissingFrom

\* A walk moved to where it is on track is as it should be.
LEMMA MovedWalkOK ==
  ASSUME NEW walk, WalkOK(walk), NEW r \in Walk, AlikeWalk(r, walk), r.page = walk.page,
         r.pc \in {"page", "count"} => Owner[walk.account] = walk.customer,
         OnTrack(r)
  PROVE  WalkOK(r)
BY DEF WalkOK, AlikeWalk

\* Its account found, a walk goes on to the page.
LEMMA SelectOwnAccountOK ==
  ASSUME NEW walk, WalkOK(walk), walk.pc = "account",
         Owned(walk.account, walk.customer)
  PROVE  WalkOK(Onward(walk))
<1> PICK r : r = Moved(walk, "page", 0) OBVIOUS
<1>1. walk \in Walk /\ walk.kind = "transactions" BY KindsApart DEF WalkOK
<1>2. Onward(walk) = r BY <1>1, MovesOnward, QueriesFollow
<1>3. /\ r \in Walk /\ r.pc = "page" /\ r.status = 0
      /\ AlikeWalk(r, walk) /\ r.page = walk.page
      /\ r.hasMore <=> walk.hasMore
  BY <1>1, MovedWalk
<1>4. r.hasMore => r.limit >= 0 BY <1>3 DEF WalkOK, OnTrack, AlikeWalk
<1>5. walk.page = {} /\ MissingFrom(walk, walk.offset) BY DEF WalkOK, OnTrack
<1>6. MissingFrom(r, r.offset) BY <1>3, <1>5, AlikeMissing DEF AlikeWalk
<1>7. OnTrack(r) BY <1>3, <1>4, <1>5, <1>6 DEF OnTrack
<1>8. QED BY <1>2, <1>3, <1>7, MovedWalkOK DEF Owned

\* A walk refused or in error has nothing more to keep.
LEMMA AnsweredWalkOK ==
  ASSUME NEW walk, WalkOK(walk), NEW status \in {404, 500}
  PROVE  WalkOK(Answered(walk, status))
<1> PICK r : r = Moved(walk, "answered", status) OBVIOUS
<1>1. walk \in Walk BY DEF WalkOK
<1>2. Answered(walk, status) = r BY MovesOnward
<1>3. /\ r \in Walk /\ r.pc = "answered" /\ r.status = status
      /\ AlikeWalk(r, walk) /\ r.page = walk.page
      /\ r.hasMore <=> walk.hasMore
  BY <1>1, MovedWalk
<1>4. r.hasMore => r.limit >= 0 BY <1>3 DEF WalkOK, OnTrack, AlikeWalk
<1>5. r.status # 200 BY <1>3
<1>6. OnTrack(r) BY <1>3, <1>4, <1>5 DEF OnTrack
<1>7. QED BY <1>2, <1>3, <1>6, MovedWalkOK

\* The page fetched, what is missing lies beyond it.
LEMMA SelectPageOK ==
  ASSUME TableOK, NEW walk, WalkOK(walk), walk.pc = "page", walk.limit >= 0,
         NEW page \in Pages(Matching(walk), walk.limit, walk.offset)
  PROVE  WalkOK([Onward(walk) EXCEPT !.page = page])
<1> PICK m : m = Moved(walk, "count", 0) OBVIOUS
<1> PICK r : r = [m EXCEPT !.page = page] OBVIOUS
<1>1. walk \in Walk /\ walk.kind = "transactions" /\ walk.limit \in Nat /\ walk.offset \in Nat
  <2>1. walk \in Walk BY DEF WalkOK
  <2>2. walk.limit \in Int /\ walk.offset \in Nat BY <2>1 DEF Walk
  <2>3. QED BY <2>1, <2>2, KindsApart
<1>2. Onward(walk) = m BY <1>1, MovesOnward, QueriesFollow
<1>3. m \in Walk /\ m.pc = "count" /\ m.status = 0 /\ AlikeWalk(m, walk)
  BY <1>1, MovedWalk
<1>4. Matching(walk) \subseteq DOMAIN transactions /\ page \subseteq Matching(walk)
  BY RowsOfTable, PageOfQuery
<1>5. page \in SUBSET Rows BY <1>4, RowsFinite
<1>6. r \in Walk /\ r.pc = "count" /\ r.status = 0 /\ r.page = page
  BY <1>3, <1>5 DEF Walk
<1>7. AlikeWalk(r, walk)
  <2>1. AlikeWalk(r, m) BY <1>3 DEF Walk, AlikeWalk
  <2>2. QED BY <1>3, <2>1 DEF AlikeWalk
<1>8. Matching(r) = Matching(walk) BY <1>7, AlikeMissing
<1>9. ASSUME NEW t \in Missing(r)
      PROVE  Cardinality(Ahead(t, Matching(walk))) >= walk.offset + walk.limit
  <2>1. /\ t \in Matching(walk) /\ t \in walk.before /\ t \notin walk.collected
        /\ t \notin page /\ ~Tied(t, Matching(walk))
    BY <1>6, <1>7, <1>8 DEF Missing, AlikeWalk
  <2>2. walk.page = {} /\ MissingFrom(walk, walk.offset) BY DEF WalkOK, OnTrack
  <2>3. t \in Missing(walk) BY <2>1, <2>2 DEF Missing
  <2>4. Cardinality(Ahead(t, Matching(walk))) >= walk.offset
    BY <2>2, <2>3 DEF MissingFrom
  <2>5. QED BY <1>1, <1>4, <2>1, <2>4, PageFull
<1>10. MissingFrom(r, walk.offset + walk.limit)
  BY <1>8, <1>9 DEF MissingFrom
<1>11. OnTrack(r) BY <1>6, <1>7, <1>10 DEF OnTrack, AlikeWalk
<1>12. \A t \in page : Owner[transactions[t].account] = walk.customer
  BY <1>4 DEF Matching, Of, WalkOK
<1>13. WalkOK(r)
  BY <1>4, <1>6, <1>7, <1>11, <1>12 DEF WalkOK, AlikeWalk
<1>14. QED BY <1>2, <1>13

\* The total counted, what is missing is beyond the page, and nothing is when
\* there is no more.
LEMMA CountMatchingOK ==
  ASSUME TableOK, NEW walk, WalkOK(walk), walk.pc = "count",
         NEW more \in BOOLEAN,
         ~more => ~(walk.offset + walk.limit < Cardinality(Matching(walk)))
  PROVE  WalkOK([Onward(walk) EXCEPT !.hasMore = more])
<1> PICK m : m = Moved(walk, "answered", 200) OBVIOUS
<1> PICK r : r = [m EXCEPT !.hasMore = more] OBVIOUS
<1>1. walk \in Walk /\ walk.kind = "transactions" /\ walk.limit >= 0
  BY KindsApart DEF WalkOK, OnTrack
<1>2. PICK n \in Nat : n = walk.offset + walk.limit
  <2>1. walk.limit \in Int /\ walk.offset \in Nat BY <1>1 DEF Walk
  <2>2. QED BY <1>1, <2>1
<1>3. Onward(walk) = m BY <1>1, MovesOnward, QueriesFollow
<1>4. /\ m \in Walk /\ m.pc = "answered" /\ m.status = 200
      /\ AlikeWalk(m, walk) /\ m.page = walk.page
  BY <1>1, MovedWalk
<1>6. r \in Walk /\ r.pc = "answered" /\ r.status = 200 /\ AlikeWalk(r, m) /\ r.page = m.page
  BY <1>4, MoreSet
<1>7. r.hasMore <=> more BY <1>4, MoreSet
<1>8. AlikeWalk(r, walk) /\ r.page = walk.page BY <1>4, <1>6 DEF AlikeWalk
<1>9. MissingFrom(walk, n) BY <1>2 DEF WalkOK, OnTrack
<1>10. MissingFrom(r, r.offset + r.limit)
  <2>1. MissingFrom(r, n) BY <1>8, <1>9, AlikeMissing
  <2>2. r.offset + r.limit = n BY <1>2, <1>8 DEF AlikeWalk
  <2>3. QED BY <2>1, <2>2
<1>11. ~more => Missing(r) = {}
  <2> SUFFICES ASSUME ~more, NEW t \in Missing(walk)
               PROVE  FALSE
    BY <1>8, AlikeMissing
  <2>1. t \in Matching(walk) BY DEF Missing
  <2>2. Cardinality(Ahead(t, Matching(walk))) >= n BY <1>9 DEF MissingFrom
  <2>3. Matching(walk) \in SUBSET DOMAIN transactions BY RowsOfTable
  <2>4. ~(n < Cardinality(Matching(walk))) BY <1>2
  <2>5. QED BY <1>2, <2>1, <2>2, <2>3, <2>4, NothingLeft
<1>12. r.limit >= 0 BY <1>1, <1>8 DEF AlikeWalk
<1>13. OnTrack(r) BY <1>6, <1>7, <1>10, <1>11, <1>12 DEF OnTrack
<1>14. WalkOK(r) BY <1>6, <1>8, <1>13, MovedWalkOK
<1>15. QED BY <1>3, <1>14

\* The next page asked for, what is missing lies beyond the new offset.
LEMMA AskNextPageOK ==
  ASSUME NEW walk, WalkOK(walk), walk.pc = "answered", walk.status = 200, walk.hasMore
  PROVE  WalkOK([walk EXCEPT
           !.pc = "account", !.status = 0, !.hasMore = FALSE, !.offset = @ + walk.limit,
           !.collected = @ \cup walk.page, !.page = {}])
<1> PICK r : r = [walk EXCEPT
           !.pc = "account", !.status = 0, !.hasMore = FALSE, !.offset = @ + walk.limit,
           !.collected = @ \cup walk.page, !.page = {}]
  OBVIOUS
<1> PICK n : n = walk.offset + walk.limit OBVIOUS
<1> PICK got : got = walk.collected \cup walk.page OBVIOUS
<1>1. walk \in Walk /\ walk.limit >= 0 BY DEF WalkOK, OnTrack
<1>2. n \in Nat
  <2>1. walk.limit \in Int /\ walk.offset \in Nat BY <1>1 DEF Walk
  <2>2. QED BY <1>1, <2>1
<1>3. got \in SUBSET Rows BY <1>1 DEF Walk
<1>4. r \in Walk
  <2>1. PICK r1 : r1 = [walk EXCEPT !.pc = "account"] OBVIOUS
  <2>2. PICK r2 : r2 = [r1 EXCEPT !.status = 0] OBVIOUS
  <2>3. PICK r3 : r3 = [r2 EXCEPT !.hasMore = FALSE] OBVIOUS
  <2>4. PICK r4 : r4 = [r3 EXCEPT !.offset = n] OBVIOUS
  <2>5. PICK r5 : r5 = [r4 EXCEPT !.collected = got] OBVIOUS
  <2>6. PICK r6 : r6 = [r5 EXCEPT !.page = {}] OBVIOUS
  <2>7. r1 \in Walk BY <1>1, <2>1 DEF Walk
  <2>8. r2 \in Walk BY <2>7, <2>2 DEF Walk
  <2>9. r3 \in Walk BY <2>8, <2>3, MoreSet
  <2>10. r4 \in Walk BY <2>9, <2>4, <1>2 DEF Walk
  <2>11. r5 \in Walk BY <2>10, <2>5, <1>3 DEF Walk
  <2>12. r6 \in Walk BY <2>11, <2>6 DEF Walk
  <2>13. r = r6 BY <1>1, <2>1, <2>2, <2>3, <2>4, <2>5, <2>6 DEF Walk
  <2>14. QED BY <2>12, <2>13
<1>5. r.pc = "account" /\ r.status = 0 BY <1>1 DEF Walk
<1>6. r.hasMore = FALSE BY <1>1 DEF Walk
<1>7. r.offset = n /\ r.collected = got /\ r.page = {} BY <1>1 DEF Walk
<1>8. /\ r.customer = walk.customer /\ r.account = walk.account /\ r.range = walk.range
      /\ r.limit = walk.limit /\ r.before = walk.before
  BY <1>1 DEF Walk
<1>9. Matching(r) = Matching(walk) BY <1>8 DEF Matching
<1>10. Missing(r) = Missing(walk) BY <1>7, <1>8, <1>9 DEF Missing
<1>11. MissingFrom(walk, n) BY DEF WalkOK, OnTrack
<1>12. MissingFrom(r, r.offset) BY <1>7, <1>9, <1>10, <1>11 DEF MissingFrom
<1>13. OnTrack(r) BY <1>5, <1>6, <1>7, <1>12 DEF OnTrack
<1>14. QED BY <1>4, <1>5, <1>7, <1>8, <1>13 DEF WalkOK

\* A walk that begins has everything before it.
LEMMA AskPageOK ==
  ASSUME TableOK, NEW customer \in Customers, NEW account \in Accounts,
         NEW range \in SUBSET Dates, NEW param \in LimitParams
  PROVE  WalkOK([kind |-> "transactions", pc |-> "account", customer |-> customer,
           account |-> account, range |-> range, limit |-> LimitOf(param), offset |-> 0,
           page |-> {}, hasMore |-> FALSE, collected |-> {},
           before |-> DOMAIN transactions, status |-> 0])
<1> PICK limit : limit = LimitOf(param) OBVIOUS
<1> PICK before : before = DOMAIN transactions OBVIOUS
<1> PICK r : r = [kind |-> "transactions", pc |-> "account", customer |-> customer,
           account |-> account, range |-> range, limit |-> limit, offset |-> 0,
           page |-> {}, hasMore |-> FALSE, collected |-> {},
           before |-> before, status |-> 0]
  OBVIOUS
<1>1. limit \in Int
  <2>1. param = None \/ param \in Int BY AccountsAssumption
  <2>2. DefaultLimit \in Int BY AccountsAssumption
  <2>3. QED BY <2>1, <2>2 DEF LimitOf
<1>2. before \in SUBSET Rows BY RowsFinite
<1>3. r \in Walk BY <1>1, <1>2 DEF Walk
<1>4. /\ r.pc = "account" /\ r.status = 0 /\ r.offset = 0 /\ r.page = {}
      /\ r.collected = {} /\ r.before = before
  OBVIOUS
<1>5. ~r.hasMore OBVIOUS
<1>6. MissingFrom(r, 0)
  <2> SUFFICES ASSUME NEW t \in Missing(r)
               PROVE  Cardinality(Ahead(t, Matching(r))) >= 0
    BY DEF MissingFrom
  <2>1. IsFiniteSet(Ahead(t, Matching(r)))
    BY RowsFinite, FS_Subset DEF Ahead, Matching, Of
  <2>2. QED BY <2>1, FS_CardinalityType
<1>7. OnTrack(r) BY <1>4, <1>5, <1>6 DEF OnTrack
<1>8. WalkOK(r) BY <1>3, <1>4, <1>7 DEF WalkOK
<1>9. QED BY <1>8

-----------------------------------------------------------------------------
(* The list, one account, its balance                                      *)

\* What such a request asks for
AlikeRead(r, read) ==
  /\ r.kind = read.kind /\ r.customer = read.customer /\ r.account = read.account
  /\ r.before = read.before

\* A move of a request
LEMMA MovedRead ==
  ASSUME NEW read \in Read, NEW pc \in {"account", "balance", "count", "answered"},
         NEW status \in {0, 200, 404, 500}
  PROVE  LET r == Moved(read, pc, status) IN
         /\ r \in Read /\ r.pc = pc /\ r.status = status
         /\ AlikeRead(r, read) /\ r.todo = read.todo /\ r.summed = read.summed
         /\ r.counted = read.counted
<1> PICK r : r = Moved(read, pc, status) OBVIOUS
<1>1. r \in Read
  <2>1. PICK m : m = [read EXCEPT !.pc = pc] OBVIOUS
  <2>2. m \in Read BY <2>1 DEF Read
  <2>3. PICK q : q = [m EXCEPT !.status = status] OBVIOUS
  <2>4. q \in Read BY <2>2, <2>3 DEF Read
  <2>5. r = q BY <2>1, <2>3 DEF Moved, Read
  <2>6. QED BY <2>4, <2>5
<1>2. r.pc = pc /\ r.status = status BY DEF Moved, Read
<1>3. AlikeRead(r, read) BY DEF Moved, Read, AlikeRead
<1>4. r.todo = read.todo /\ r.summed = read.summed /\ r.counted = read.counted
  BY DEF Moved, Read
<1>5. QED BY <1>1, <1>2, <1>3, <1>4

\* A request keeps its sums, and has only its answer to watch over.
LEMMA AlikeReadOK ==
  ASSUME NEW read, ReadOK(read), NEW r \in Read, AlikeRead(r, read),
         r.summed = read.summed, \A a \in r.todo : Owner[a] = read.customer,
         r.kind = "detail" /\ r.pc = "answered" /\ r.status = 200 =>
           r.summed[r.account] \subseteq r.counted
  PROVE  ReadOK(r)
BY DEF ReadOK, AlikeRead, SumOK

\* A request refused or in error, and an empty list
LEMMA AnsweredReadOK ==
  ASSUME NEW read, ReadOK(read), NEW status \in {200, 404, 500},
         status = 200 => read.kind # "detail"
  PROVE  ReadOK(Answered(read, status))
<1> PICK r : r = Moved(read, "answered", status) OBVIOUS
<1>1. read \in Read BY DEF ReadOK
<1>2. Answered(read, status) = r BY MovesOnward
<1>3. /\ r \in Read /\ r.pc = "answered" /\ r.status = status
      /\ AlikeRead(r, read) /\ r.todo = read.todo /\ r.summed = read.summed
  BY <1>1, MovedRead
<1>4. \A a \in r.todo : Owner[a] = read.customer BY <1>3 DEF ReadOK
<1>5. ~(r.kind = "detail" /\ r.status = 200) BY <1>3 DEF AlikeRead
<1>6. ReadOK(r) BY <1>3, <1>4, <1>5, AlikeReadOK
<1>7. QED BY <1>2, <1>6

\* The accounts found are the customer's own.
LEMMA SelectAccountOK ==
  ASSUME NEW read, ReadOK(read), read.pc = "account",
         NEW found \in SUBSET Accounts, \A a \in found : Owner[a] = read.customer
  PROVE  ReadOK([Onward(read) EXCEPT !.todo = found])
<1> PICK m : m = Moved(read, "balance", 0) OBVIOUS
<1> PICK r : r = [m EXCEPT !.todo = found] OBVIOUS
<1>1. read \in Read /\ read.kind # "transactions" BY KindsApart DEF ReadOK
<1>2. Onward(read) = m BY <1>1, MovesOnward, QueriesFollow
<1>3. /\ m \in Read /\ m.pc = "balance" /\ m.status = 0
      /\ AlikeRead(m, read) /\ m.summed = read.summed
  BY <1>1, MovedRead
<1>4. r \in Read BY <1>3 DEF Read
<1>5. r.todo = found /\ r.pc = "balance" /\ r.summed = read.summed BY <1>3 DEF Read
<1>6. AlikeRead(r, m) BY <1>3 DEF Read, AlikeRead
<1>7. AlikeRead(r, read) BY <1>3, <1>6 DEF AlikeRead
<1>8. r.pc # "answered" BY <1>5
<1>9. ReadOK(r) BY <1>4, <1>5, <1>7, <1>8, AlikeReadOK
<1>10. QED BY <1>2, <1>9

\* A sum taken now covers what was there before.
LEMMA SummedOK ==
  ASSUME TableOK, NEW read, ReadOK(read), read.pc = "balance", NEW a \in read.todo
  PROVE  /\ ReadOK([read EXCEPT !.todo = @ \ {a}, !.summed[a] = Of(a)])
         /\ [read EXCEPT !.todo = @ \ {a}, !.summed[a] = Of(a)].pc = "balance"
<1> PICK rows : rows = Of(a) OBVIOUS
<1> PICK r : r = [read EXCEPT !.todo = @ \ {a}, !.summed[a] = rows] OBVIOUS
<1>1. read \in Read /\ a \in Accounts
  BY DEF ReadOK, Read
<1>2. rows \in SUBSET Rows /\ rows \subseteq DOMAIN transactions
  BY RowsOfTable, RowsFinite
<1>3. PICK sums : sums = [read.summed EXCEPT ![a] = rows] OBVIOUS
<1>4. read.summed \in [Accounts -> SUBSET Rows] BY <1>1 DEF Read
<1>5. sums \in [Accounts -> SUBSET Rows] BY <1>2, <1>3, <1>4
<1>6. \A b \in Accounts : sums[b] = IF b = a THEN rows ELSE read.summed[b]
  BY <1>3, <1>4
<1>7. r \in Read
  <2>1. PICK q : q = [read EXCEPT !.todo = read.todo \ {a}] OBVIOUS
  <2>2. q \in Read BY <1>1, <2>1 DEF Read
  <2>3. PICK p : p = [q EXCEPT !.summed = sums] OBVIOUS
  <2>4. p \in Read BY <1>5, <2>2, <2>3 DEF Read
  <2>5. r = p BY <1>1, <1>3, <2>1, <2>3 DEF Read
  <2>6. QED BY <2>4, <2>5
<1>8. r.pc = "balance" /\ r.todo = read.todo \ {a} BY <1>1 DEF Read
<1>9. AlikeRead(r, read) BY <1>1 DEF Read, AlikeRead
<1>10. r.summed = sums BY <1>1, <1>3 DEF Read
<1>11. ASSUME NEW b \in Accounts, r.summed[b] # {}
       PROVE  SumOK(r, b)
  <2>1. CASE b = a
    <3>1. r.summed[b] = Of(a) BY <1>6, <1>10, <2>1
    <3>2. Owner[a] = read.customer BY DEF ReadOK
    <3>3. {t \in r.before : transactions[t].account = a} \subseteq Of(a)
      BY <1>9 DEF AlikeRead, ReadOK, Of
    <3>4. \A t \in Of(a) : transactions[t].account = a BY DEF Of
    <3>5. QED BY <1>2, <1>9, <2>1, <3>1, <3>2, <3>3, <3>4 DEF SumOK, AlikeRead
  <2>2. CASE b # a
    <3>1. r.summed[b] = read.summed[b] BY <1>6, <1>10, <2>2
    <3>2. SumOK(read, b) BY <1>11, <3>1 DEF ReadOK
    <3>3. QED BY <1>9, <3>1, <3>2 DEF SumOK, AlikeRead
  <2>3. QED BY <2>1, <2>2
<1>12. ReadOK(r) BY <1>7, <1>8, <1>9, <1>11 DEF ReadOK, AlikeRead
<1>13. QED BY <1>8, <1>12

\* All summed, the request goes on.
LEMMA OnwardReadOK ==
  ASSUME NEW read, ReadOK(read), read.pc = "balance"
  PROVE  ReadOK(Onward(read))
<1>1. read \in Read BY DEF ReadOK
<1>2. ASSUME NEW pc \in {"count", "answered"}, NEW status \in {0, 200},
             pc = "answered" => read.kind # "detail"
      PROVE  ReadOK(Moved(read, pc, status))
  <2> PICK r : r = Moved(read, pc, status) OBVIOUS
  <2>1. /\ r \in Read /\ r.pc = pc /\ r.status = status
        /\ AlikeRead(r, read) /\ r.todo = read.todo /\ r.summed = read.summed
    BY <1>1, MovedRead
  <2>2. \A a \in r.todo : Owner[a] = read.customer BY <2>1 DEF ReadOK
  <2>3. ~(r.kind = "detail" /\ r.pc = "answered") BY <1>2, <2>1 DEF AlikeRead
  <2>4. QED BY <2>1, <2>2, <2>3, AlikeReadOK
<1>3. CASE read.kind = "detail"
  <2>1. Onward(read) = Moved(read, "count", 0) BY <1>3, MovesOnward, QueriesFollow
  <2>2. ReadOK(Moved(read, "count", 0)) BY <1>2
  <2>3. QED BY <2>1, <2>2
<1>4. CASE read.kind # "detail"
  <2>1. Onward(read) = Moved(read, "answered", 200) BY <1>4, MovesOnward, QueriesFollow
  <2>2. ReadOK(Moved(read, "answered", 200)) BY <1>2, <1>4
  <2>3. QED BY <2>1, <2>2
<1>5. QED BY <1>3, <1>4

\* The count, taken last, covers the sum.
LEMMA CountTransactionsOK ==
  ASSUME TableOK, NEW read, ReadOK(read), read.pc = "count"
  PROVE  ReadOK([Onward(read) EXCEPT !.counted = Of(read.account)])
<1> PICK rows : rows = Of(read.account) OBVIOUS
<1> PICK m : m = Moved(read, "answered", 200) OBVIOUS
<1> PICK r : r = [m EXCEPT !.counted = rows] OBVIOUS
<1>1. read \in Read BY DEF ReadOK
<1>2. Onward(read) = m BY MovesOnward, QueriesFollow
<1>3. rows \in SUBSET Rows BY RowsOfTable, RowsFinite
<1>4. /\ m \in Read /\ AlikeRead(m, read) /\ m.todo = read.todo /\ m.summed = read.summed
  BY <1>1, MovedRead
<1>5. r \in Read BY <1>3, <1>4 DEF Read
<1>6. r.counted = rows /\ r.todo = read.todo /\ r.summed = read.summed
  BY <1>4 DEF Read
<1>7. AlikeRead(r, m) BY <1>4 DEF Read, AlikeRead
<1>8. AlikeRead(r, read) BY <1>4, <1>7 DEF AlikeRead
<1>9. ASSUME read.kind = "detail"
      PROVE  read.summed[read.account] \subseteq rows
  <2>1. read.account \in Accounts BY <1>9 DEF ReadOK
  <2>2. read.summed[read.account] # {} => SumOK(read, read.account)
    BY <2>1 DEF ReadOK
  <2>3. QED BY <2>2 DEF SumOK, Of
<1>10. \A a \in r.todo : Owner[a] = read.customer BY <1>6 DEF ReadOK
<1>11. ReadOK(r) BY <1>5, <1>6, <1>8, <1>9, <1>10, AlikeReadOK DEF AlikeRead
<1>12. QED BY <1>2, <1>11

\* A request that begins
LEMMA AskOK ==
  ASSUME TableOK, NEW kind \in {"list", "detail", "balance"}, NEW customer \in Customers,
         NEW account \in Accounts \cup {None}, kind # "list" => account \in Accounts
  PROVE  ReadOK([kind |-> kind, pc |-> "account", customer |-> customer, account |-> account,
           todo |-> {}, summed |-> [a \in Accounts |-> {}], counted |-> {},
           before |-> DOMAIN transactions, status |-> 0])
<1> PICK before : before = DOMAIN transactions OBVIOUS
<1> PICK sums : sums = [a \in Accounts |-> {}] OBVIOUS
<1> PICK r : r = [kind |-> kind, pc |-> "account", customer |-> customer,
           account |-> account, todo |-> {}, summed |-> sums, counted |-> {},
           before |-> before, status |-> 0]
  OBVIOUS
<1>1. before \in SUBSET Rows BY RowsFinite
<1>2. sums \in [Accounts -> SUBSET Rows] /\ \A a \in Accounts : sums[a] = {}
  OBVIOUS
<1>3. r \in Read BY <1>1, <1>2 DEF Read
<1>4. /\ r.kind = kind /\ r.pc = "account" /\ r.account = account /\ r.todo = {}
      /\ r.summed = sums /\ r.before = before
  OBVIOUS
<1>5. ReadOK(r) BY <1>2, <1>3, <1>4 DEF ReadOK
<1>6. QED BY <1>5

-----------------------------------------------------------------------------
(* Every step                                                              *)

CallsInv == TableOK /\ CallsTyped /\ CallsOK

LEMMA CallsInit ==
  ASSUME AccountsInit
  PROVE  CallsInv
<1>1. Len(<<>>) = 0 /\ transactions = <<>> /\ transactions \in Seq(Row)
  BY EmptySeq, LenProperties DEF AccountsInit
<1>2. TableOK BY <1>1, AccountsAssumption DEF TableOK
<1>3. CallsTyped /\ CallsOK BY DEF AccountsInit, CallsTyped, CallsOK
<1>4. QED BY <1>2, <1>3 DEF CallsInv

\* A call in flight is a walk or a request of the other kinds.
LEMMA CallInFlight ==
  ASSUME CallsInv, NEW c \in Calls, calls[c] # None
  PROVE  /\ calls[c].kind = "transactions" => WalkOK(calls[c])
         /\ calls[c].kind # "transactions" => ReadOK(calls[c])
BY KindsApart DEF CallsInv, CallsOK, WalkOK, ReadOK

\* Asking for accounts
LEMMA AskStep ==
  ASSUME CallsInv, NEW c \in Calls, NEW customer \in Customers,
         NEW kind \in {"list", "detail", "balance"}, NEW account \in Accounts \cup {None},
         kind # "list" => account \in Accounts, Ask(c, kind, customer, account)
  PROVE  CallsInv'
<1> PICK r : r = [kind |-> kind, pc |-> "account", customer |-> customer,
           account |-> account, todo |-> {}, summed |-> [a \in Accounts |-> {}],
           counted |-> {}, before |-> DOMAIN transactions, status |-> 0]
  OBVIOUS
<1>1. ReadOK(r) BY AskOK DEF CallsInv
<1>2. calls' = [calls EXCEPT ![c] = r] /\ transactions' = transactions BY DEF Ask
<1>3. QED BY <1>1, <1>2, OneCall DEF CallsInv

\* Asking for the first page
LEMMA AskPageStep ==
  ASSUME CallsInv, NEW c \in Calls, NEW customer \in Customers, NEW account \in Accounts,
         NEW range \in Ranges, NEW param \in LimitParams,
         AskPage(c, customer, account, range, param)
  PROVE  CallsInv'
<1> PICK r : r = [kind |-> "transactions", pc |-> "account", customer |-> customer,
           account |-> account, range |-> range, limit |-> LimitOf(param), offset |-> 0,
           page |-> {}, hasMore |-> FALSE, collected |-> {},
           before |-> DOMAIN transactions, status |-> 0]
  OBVIOUS
<1>1. range \in SUBSET Dates BY DEF Ranges
<1>2. WalkOK(r) BY <1>1, AskPageOK DEF CallsInv
<1>3. calls' = [calls EXCEPT ![c] = r] /\ transactions' = transactions BY DEF AskPage
<1>4. QED BY <1>2, <1>3, OneCall DEF CallsInv

\* The queries of the list, of one account and of its balance
LEMMA ReadSteps ==
  ASSUME CallsInv, NEW c \in Calls, ReadStep(c)
  PROVE  CallsInv'
<1> PICK read : read = calls[c] OBVIOUS
<1>1. calls[c] # None /\ ReadOK(read)
  BY CallInFlight DEF ReadStep, SelectAccount, SumBalance, CountTransactions, Reading, InCall
<1>2. CASE SelectAccount(c)
  <2> PICK found : found = IF read.kind = "list"
                             THEN {a \in ActiveAccounts : Owner[a] = read.customer}
                             ELSE {a \in {read.account} : Owned(a, read.customer)}
    OBVIOUS
  <2> PICK status : status = IF read.kind = "list" THEN 200 ELSE 404 OBVIOUS
  <2> PICK r : r = IF found # {} THEN [Onward(read) EXCEPT !.todo = found]
                   ELSE Answered(read, status)
    OBVIOUS
  <2>1. /\ read.pc = "account"
        /\ calls' = [calls EXCEPT ![c] = r] /\ transactions' = transactions
    BY <1>2 DEF SelectAccount, Reading, InCall
  <2>2. found \in SUBSET Accounts
    BY <1>1, AccountsAssumption DEF ReadOK
  <2>3. \A a \in found : Owner[a] = read.customer BY DEF Owned
  <2>4. ReadOK([Onward(read) EXCEPT !.todo = found])
    BY <1>1, <2>1, <2>2, <2>3, SelectAccountOK
  <2>5. status \in {200, 404, 500} /\ (status = 200 => read.kind # "detail") OBVIOUS
  <2>6. ReadOK(Answered(read, status)) BY <1>1, <2>5, AnsweredReadOK
  <2>7. ReadOK(r) BY <2>4, <2>6
  <2>8. QED BY <2>1, <2>7, OneCall DEF CallsInv
<1>3. ASSUME NEW a \in Accounts, SumBalance(c, a)
      PROVE  CallsInv'
  <2> PICK summed : summed = [read EXCEPT !.todo = @ \ {a}, !.summed[a] = Of(a)] OBVIOUS
  <2> PICK r : r = IF summed.todo = {} THEN Onward(summed) ELSE summed OBVIOUS
  <2>1. /\ read.pc = "balance" /\ a \in read.todo
        /\ calls' = [calls EXCEPT ![c] = r] /\ transactions' = transactions
    BY <1>3 DEF SumBalance, Reading, InCall
  <2>2. ReadOK(summed) /\ summed.pc = "balance" BY <1>1, <2>1, SummedOK DEF CallsInv
  <2>3. ReadOK(Onward(summed)) BY <2>2, OnwardReadOK
  <2>4. ReadOK(r) BY <2>2, <2>3
  <2>5. QED BY <2>1, <2>4, OneCall DEF CallsInv
<1>4. CASE CountTransactions(c)
  <2> PICK r : r = [Onward(read) EXCEPT !.counted = Of(read.account)] OBVIOUS
  <2>1. /\ read.pc = "count"
        /\ calls' = [calls EXCEPT ![c] = r] /\ transactions' = transactions
    BY <1>4 DEF CountTransactions, Reading, InCall
  <2>2. ReadOK(r) BY <1>1, <2>1, CountTransactionsOK DEF CallsInv
  <2>3. QED BY <2>1, <2>2, OneCall DEF CallsInv
<1>5. QED BY <1>2, <1>3, <1>4 DEF ReadStep

\* The queries of a page, and the next page
LEMMA WalkSteps ==
  ASSUME CallsInv, NEW c \in Calls, WalkStep(c)
  PROVE  CallsInv'
<1> PICK walk : walk = calls[c] OBVIOUS
<1>1. calls[c] # None /\ WalkOK(walk)
  BY CallInFlight
  DEF WalkStep, SelectOwnAccount, SelectPage, CountMatching, AskNextPage, Walking, InCall
<1>2. CASE SelectOwnAccount(c)
  <2> PICK r : r = IF Owned(walk.account, walk.customer) THEN Onward(walk)
                   ELSE Answered(walk, 404)
    OBVIOUS
  <2>1. /\ walk.pc = "account"
        /\ calls' = [calls EXCEPT ![c] = r] /\ transactions' = transactions
    BY <1>2 DEF SelectOwnAccount, Walking, InCall
  <2>2. Owned(walk.account, walk.customer) => WalkOK(Onward(walk))
    BY <1>1, <2>1, SelectOwnAccountOK
  <2>3. WalkOK(Answered(walk, 404)) BY <1>1, AnsweredWalkOK
  <2>4. WalkOK(r) BY <2>2, <2>3
  <2>5. QED BY <2>1, <2>4, OneCall DEF CallsInv
<1>3. CASE SelectPage(c)
  <2>1. /\ walk.pc = "page" /\ walk.limit >= 0 /\ transactions' = transactions
    BY <1>3 DEF SelectPage, Walking, InCall
  <2>2. PICK page \in Pages(Matching(walk), walk.limit, walk.offset) :
          calls' = [calls EXCEPT ![c] = [Onward(walk) EXCEPT !.page = page]]
    BY <1>3 DEF SelectPage
  <2> PICK r : r = [Onward(walk) EXCEPT !.page = page] OBVIOUS
  <2>3. WalkOK(r) BY <1>1, <2>1, SelectPageOK DEF CallsInv
  <2>4. QED BY <2>1, <2>2, <2>3, OneCall DEF CallsInv
<1>4. CASE CountMatching(c)
  <2> PICK more \in BOOLEAN :
        more <=> walk.offset + walk.limit < Cardinality(Matching(walk))
    OBVIOUS
  <2> PICK r : r = [Onward(walk) EXCEPT
        !.hasMore = walk.offset + walk.limit < Cardinality(Matching(walk))]
    OBVIOUS
  <2>1. /\ walk.pc = "count"
        /\ calls' = [calls EXCEPT ![c] = r] /\ transactions' = transactions
    BY <1>4 DEF CountMatching, Walking, InCall
  <2>2. WalkOK([Onward(walk) EXCEPT !.hasMore = more])
    BY <1>1, <2>1, CountMatchingOK DEF CallsInv
  <2>3. WalkOK(r) BY <2>2
  <2>4. QED BY <2>1, <2>3, OneCall DEF CallsInv
<1>5. CASE AskNextPage(c)
  <2> PICK r : r = [calls[c] EXCEPT
           !.pc = "account", !.status = 0, !.hasMore = FALSE, !.offset = @ + calls[c].limit,
           !.collected = @ \cup calls[c].page, !.page = {}]
    OBVIOUS
  <2>1. walk.pc = "answered" /\ walk.status = 200 /\ walk.hasMore
    BY <1>5 DEF AskNextPage, Walking, InCall
  <2>2. transactions' = transactions BY <1>5 DEF AskNextPage
  <2>3. calls' = [calls EXCEPT ![c] = r] BY <1>5 DEF AskNextPage
  <2>4. WalkOK(r) BY <1>1, <2>1, AskNextPageOK
  <2>5. QED BY <2>2, <2>3, <2>4, OneCall DEF CallsInv
<1>6. QED BY <1>2, <1>3, <1>4, <1>5 DEF WalkStep

\* An error answers any call.
LEMMA FailStep ==
  ASSUME CallsInv, NEW c \in Calls, Fail(c)
  PROVE  CallsInv'
<1> PICK call : call = calls[c] OBVIOUS
<1> PICK r : r = Answered(call, 500) OBVIOUS
<1>1. /\ call # None
      /\ calls' = [calls EXCEPT ![c] = r] /\ transactions' = transactions
  BY DEF Fail
<1>2. WalkOK(call) => WalkOK(r) BY AnsweredWalkOK
<1>3. ReadOK(call) => ReadOK(r) BY AnsweredReadOK
<1>4. WalkOK(r) \/ ReadOK(r) BY <1>1, <1>2, <1>3 DEF CallsInv, CallsOK
<1>5. QED BY <1>1, <1>4, OneCall DEF CallsInv

\* A booked row leaves every call as it should be.
LEMMA BookStep ==
  ASSUME CallsInv, NEW account \in Accounts, NEW date \in Dates, NEW together \in BOOLEAN,
         Book(account, date, together)
  PROVE  CallsInv'
<1>1. TableOK' /\ Grown /\ calls' = calls BY BookGrows DEF CallsInv
<1>2. CallsTyped' BY <1>1 DEF CallsInv, CallsTyped
<1>3. ASSUME NEW call, WalkOK(call) PROVE WalkOK(call)'
  BY <1>1, <1>3, BookKeepsWalk DEF CallsInv
<1>4. ASSUME NEW call, ReadOK(call) PROVE ReadOK(call)'
  BY <1>1, <1>4, BookKeepsRead
<1>5. ASSUME NEW c \in Calls
      PROVE  (calls[c] = None \/ WalkOK(calls[c]) \/ ReadOK(calls[c]))'
  <2> PICK call : call = calls[c] OBVIOUS
  <2>1. call = None \/ WalkOK(call) \/ ReadOK(call) BY DEF CallsInv, CallsOK
  <2>2. call = None \/ WalkOK(call)' \/ ReadOK(call)' BY <1>3, <1>4, <2>1
  <2>3. calls'[c] = call BY <1>1
  <2>4. QED BY <2>2, <2>3 DEF WalkOK, ReadOK, SumOK
<1>6. QED BY <1>1, <1>2, <1>5 DEF CallsInv, CallsOK

LEMMA CallsStep ==
  ASSUME CallsInv, [AccountsNext]_accountVars
  PROVE  CallsInv'
<1>1. CASE UNCHANGED accountVars
  BY <1>1 DEF accountVars, CallsInv, TableOK, CallsTyped, CallsOK, WalkOK, ReadOK, SumOK,
              OnTrack, Missing, MissingFrom, Matching, Of, Tied, Precedes, Ahead
<1>2. ASSUME NEW c \in Calls, NEW customer \in Customers, Ask(c, "list", customer, None)
      PROVE  CallsInv'
  BY <1>2, AskStep
<1>3. ASSUME NEW c \in Calls, NEW customer \in Customers,
             NEW kind \in {"detail", "balance"}, NEW account \in Accounts,
             Ask(c, kind, customer, account)
      PROVE  CallsInv'
  BY <1>3, AskStep
<1>4. ASSUME NEW c \in Calls, NEW customer \in Customers, NEW account \in Accounts,
             NEW range \in Ranges, NEW param \in LimitParams,
             AskPage(c, customer, account, range, param)
      PROVE  CallsInv'
  BY <1>4, AskPageStep
<1>5. ASSUME NEW c \in Calls, ReadStep(c) PROVE CallsInv' BY <1>5, ReadSteps
<1>6. ASSUME NEW c \in Calls, WalkStep(c) PROVE CallsInv' BY <1>6, WalkSteps
<1>7. ASSUME NEW c \in Calls, Fail(c) PROVE CallsInv' BY <1>7, FailStep
<1>8. ASSUME NEW c \in Calls, Leave(c) PROVE CallsInv'
  <2> PICK r : r = None OBVIOUS
  <2>1. calls' = [calls EXCEPT ![c] = r] /\ transactions' = transactions
    BY <1>8 DEF Leave
  <2>2. QED BY <2>1, OneCall DEF CallsInv
<1>9. ASSUME NEW account \in Accounts, NEW date \in Dates, NEW together \in BOOLEAN,
             Book(account, date, together)
      PROVE  CallsInv'
  BY <1>9, BookStep
<1>10. QED
  BY <1>1, <1>2, <1>3, <1>4, <1>5, <1>6, <1>7, <1>8, <1>9 DEF AccountsNext

-----------------------------------------------------------------------------
(* The theorems                                                            *)

\* Whatever is booked between two queries, every answer under way keeps to its
\* customer's rows, its sums cover what they must and its pages leave nothing
\* behind.
THEOREM AccountsInvariant == AccountsSpec => []AccountsInv
<1>1. AccountsInit => CallsInv BY CallsInit
<1>2. CallsInv /\ [AccountsNext]_accountVars => CallsInv' BY CallsStep
<1>3. CallsInv => AccountsInv BY InvIsOfCalls DEF CallsInv
<1>4. QED BY <1>1, <1>2, <1>3, PTL DEF AccountsSpec

\* A balance covers at least what was booked before the request, and the count
\* next to it never falls short of it.
THEOREM SumsAndCountsCover == AccountsSpec => []ReadsCover
<1>1. AccountsInv => ReadsCover BY DEF AccountsInv
<1>2. QED BY <1>1, AccountsInvariant, PTL

\* What is missing at the last page is nothing.
LEMMA TrackEnds ==
  PagesOnTrack => WalkComplete
<1> SUFFICES ASSUME PagesOnTrack, NEW c \in Calls, Good(c),
                    calls[c].kind = "transactions", ~calls[c].hasMore,
                    NEW t \in Matching(calls[c]) \cap calls[c].before
             PROVE  t \in calls[c].collected \cup calls[c].page \/ Tied(t, Matching(calls[c]))
  BY DEF WalkComplete
<1>1. OnTrack(calls[c]) BY DEF PagesOnTrack, Good, InCall
<1>2. Missing(calls[c]) = {} BY <1>1 DEF OnTrack, Good, InCall
<1>3. QED BY <1>2 DEF Missing

\* An application that follows has_more to the end has every transaction there
\* was when it began, but for rows that tie in the ORDER BY.
THEOREM WalksLoseNothing == AccountsSpec => []WalkComplete
<1>1. AccountsInv => PagesOnTrack BY DEF AccountsInv
<1>2. QED BY <1>1, TrackEnds, AccountsInvariant, PTL

=============================================================================
