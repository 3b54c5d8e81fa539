---------------------------- MODULE AccountsApi ----------------------------
(***************************************************************************)
(* The banking API behind the gateway (apps/banking-api/accounts-api.js):  *)
(* the list of accounts, one account, its balance, and the pages of its    *)
(* transactions, with the application that asks for one page after the     *)
(* other until has_more is false.                                          *)
(*                                                                         *)
(* The handlers only read, but each answer is put together from two or     *)
(* three queries, and the bank inserts transactions in between.  A sum or  *)
(* a count stands for the set of rows it was taken over.                   *)
(***************************************************************************)
EXTENDS Integers, FiniteSets, Sequences

CONSTANTS
  Customers,
  Accounts,
  Owner,          \* accounts.customer_id
  ActiveAccounts, \* the accounts whose status is 'active'
  Dates,          \* values of transaction_date, a set of numbers
  Calls,          \* concurrent requests, each with its customer's token
  LimitParams,    \* values of the query parameter `limit`
  DefaultLimit,   \* 50
  MaxRows,        \* bound on the number of transactions
  Faults,         \* may a query throw?
  None            \* a parameter not given, no call in flight

VARIABLES
  transactions,   \* table transactions, in the order of its inserts
  calls           \* call -> its state, or None

accountVars == <<transactions, calls>>

Row == [account : Accounts, date : Dates, created_at : Nat]
Rows == 1 .. MaxRows

\* A request for the list, for one account or for its balance.  `before` is
\* history: the rows there were when it came.
Read == [kind : {"list", "detail", "balance"},
         pc : {"account", "balance", "count", "answered"},
         customer : Customers, account : Accounts \cup {None},
         todo : SUBSET Accounts, summed : [Accounts -> SUBSET Rows],
         counted : SUBSET Rows, before : SUBSET Rows, status : {0, 200, 404, 500}]

\* The requests for one page after the other.  `collected` is what the
\* application has so far; `before` is history, as above.
Walk == [kind : {"transactions"}, pc : {"account", "page", "count", "answered"},
         customer : Customers, account : Accounts, range : SUBSET Dates,
         limit : Int, offset : Nat, page : SUBSET Rows, hasMore : BOOLEAN,
         collected : SUBSET Rows, before : SUBSET Rows, status : {0, 200, 404, 500}]

ASSUME AccountsAssumption ==
  /\ Owner \in [Accounts -> Customers]
  /\ ActiveAccounts \subseteq Accounts
  /\ Dates \subseteq Int
  /\ LimitParams \subseteq Int \cup {None}
  /\ DefaultLimit \in Nat \ {0} /\ MaxRows \in Nat
  /\ Faults \in BOOLEAN
  /\ None \notin Read \cup Walk

AccountsTypeOK ==
  /\ transactions \in Seq(Row) /\ Len(transactions) <= MaxRows
  /\ calls \in [Calls -> Read \cup Walk \cup {None}]

AccountsInit ==
  /\ transactions = <<>>
  /\ calls = [c \in Calls |-> None]

-----------------------------------------------------------------------------
(* The queries                                                             *)

\* A slip: the account looked up by account_id alone
AnyonesAccount(account, customer) == TRUE

\* WHERE account_id = $1 AND customer_id = $2
Owned(account, customer) == Owner[account] = customer

Of(account) == {t \in DOMAIN transactions : transactions[t].account = account}

\* The rows between from_date and to_date
Matching(walk) == {t \in Of(walk.account) : transactions[t].date \in walk.range}

\* ORDER BY transaction_date DESC, created_at DESC: rows that tie come in any
\* order, and in another one in the next query.
Precedes(t, u) ==
  \/ transactions[t].date > transactions[u].date
  \/ /\ transactions[t].date = transactions[u].date
     /\ transactions[t].created_at > transactions[u].created_at

Leads(S, all) == \A t \in S, u \in all \ S : ~Precedes(u, t)

Least(m, n) == IF m < n THEN m ELSE n

\* LIMIT limit OFFSET offset: what the page may hold
Pages(all, limit, offset) ==
  {page \in SUBSET all : \E skipped \in SUBSET (all \ page) :
     /\ Cardinality(skipped) = Least(offset, Cardinality(all))
     /\ Cardinality(page) = Least(limit, Cardinality(all \ skipped))
     /\ Leads(skipped, all)
     /\ Leads(skipped \cup page, all)}

-----------------------------------------------------------------------------
(* The order of the queries                                                *)

\* A slip: the total fetched before what it is the total of
TotalFirst(kind, pc) ==
  CASE kind \in {"detail", "transactions"} /\ pc = "account" -> "count"
    [] pc = "count" -> IF kind = "detail" THEN "balance" ELSE "page"
    [] kind \in {"list", "balance"} /\ pc = "account" -> "balance"
    [] OTHER -> "answered"

\* The query after the one at pc, in each handler
Following(kind, pc) ==
  CASE pc = "account" -> IF kind = "transactions" THEN "page" ELSE "balance"
    [] kind = "detail" /\ pc = "balance" -> "count"
    [] pc = "page" -> "count"
    [] OTHER -> "answered"

\* The call goes on to its next query, or answers.
Onward(call) ==
  LET pc == Following(call.kind, call.pc) IN
  [call EXCEPT !.pc = pc, !.status = IF pc = "answered" THEN 200 ELSE 0]

Answered(call, status) == [call EXCEPT !.pc = "answered", !.status = status]

InCall(c, pc) == calls[c] # None /\ calls[c].pc = pc
Reading(c, pc) == InCall(c, pc) /\ calls[c].kind # "transactions"
Walking(c, pc) == InCall(c, pc) /\ calls[c].kind = "transactions"

-----------------------------------------------------------------------------
(* GET /accounts, /accounts/:account_id and /accounts/:account_id/balance  *)

Ask(c, kind, customer, account) ==
  /\ calls[c] = None
  /\ calls' = [calls EXCEPT ![c] =
       [kind |-> kind, pc |-> "account", customer |-> customer, account |-> account,
        todo |-> {}, summed |-> [a \in Accounts |-> {}], counted |-> {},
        before |-> DOMAIN transactions, status |-> 0]]
  /\ UNCHANGED transactions

\* The SELECT of the customer's active accounts, or of one account of the
\* customer's, active or not
SelectAccount(c) ==
  LET read == calls[c]
      found == IF read.kind = "list"
                 THEN {a \in ActiveAccounts : Owner[a] = read.customer}
                 ELSE {a \in {read.account} : Owned(a, read.customer)}
  IN
  /\ Reading(c, "account")
  /\ calls' = [calls EXCEPT ![c] =
       IF found # {} THEN [Onward(@) EXCEPT !.todo = found]
       ELSE Answered(@, IF read.kind = "list" THEN 200 ELSE 404)]
  /\ UNCHANGED transactions

\* SUM(amount) of one account; Promise.all sends the queries of a list
\* together and they are answered in any order.
SumBalance(c, a) ==
  LET summed == [calls[c] EXCEPT !.todo = @ \ {a}, !.summed[a] = Of(a)] IN
  /\ Reading(c, "balance")
  /\ a \in calls[c].todo
  /\ calls' = [calls EXCEPT ![c] = IF summed.todo = {} THEN Onward(summed) ELSE summed]
  /\ UNCHANGED transactions

\* SELECT COUNT(*): the transaction_count of one account
CountTransactions(c) ==
  /\ Reading(c, "count")
  /\ calls' = [calls EXCEPT ![c] = [Onward(@) EXCEPT !.counted = Of(calls[c].account)]]
  /\ UNCHANGED transactions

-----------------------------------------------------------------------------
(* GET /accounts/:account_id/transactions                                  *)

\* A slip: `??` for `||`
LimitAsGiven(param) == IF param = None THEN DefaultLimit ELSE param

\* parseInt(req.query.limit) || 50: a limit of 0 counts as none.
LimitOf(param) == IF param \in {None, 0} THEN DefaultLimit ELSE param

AskPage(c, customer, account, range, param) ==
  /\ calls[c] = None
  /\ calls' = [calls EXCEPT ![c] =
       [kind |-> "transactions", pc |-> "account", customer |-> customer,
        account |-> account, range |-> range, limit |-> LimitOf(param), offset |-> 0,
        page |-> {}, hasMore |-> FALSE, collected |-> {},
        before |-> DOMAIN transactions, status |-> 0]]
  /\ UNCHANGED transactions

SelectOwnAccount(c) ==
  /\ Walking(c, "account")
  /\ calls' = [calls EXCEPT ![c] =
       IF Owned(@.account, @.customer) THEN Onward(@) ELSE Answered(@, 404)]
  /\ UNCHANGED transactions

SelectPage(c) ==
  LET walk == calls[c] IN
  /\ Walking(c, "page")
  /\ walk.limit >= 0
  /\ \E page \in Pages(Matching(walk), walk.limit, walk.offset) :
       calls' = [calls EXCEPT ![c] = [Onward(@) EXCEPT !.page = page]]
  /\ UNCHANGED transactions

\* The total, and has_more from it
CountMatching(c) ==
  LET walk == calls[c] IN
  /\ Walking(c, "count")
  /\ calls' = [calls EXCEPT ![c] = [Onward(@) EXCEPT
       !.hasMore = walk.offset + walk.limit < Cardinality(Matching(walk))]]
  /\ UNCHANGED transactions

\* The application keeps the page and asks for the next one.
AskNextPage(c) ==
  LET walk == calls[c] IN
  /\ Walking(c, "answered") /\ walk.status = 200
  /\ walk.hasMore
  /\ calls' = [calls EXCEPT ![c] = [walk EXCEPT
       !.pc = "account", !.status = 0, !.hasMore = FALSE, !.offset = @ + walk.limit,
       !.collected = @ \cup walk.page, !.page = {}]]
  /\ UNCHANGED transactions

-----------------------------------------------------------------------------
\* The handlers' catch blocks; a negative limit is an error of the query.
Fail(c) ==
  /\ calls[c] # None /\ calls[c].pc # "answered"
  /\ Faults \/ (Walking(c, "page") /\ calls[c].limit < 0)
  /\ calls' = [calls EXCEPT ![c] = Answered(@, 500)]
  /\ UNCHANGED transactions

\* The answer is out and the application asks for no other page.
Finished(c) ==
  /\ InCall(c, "answered")
  /\ Walking(c, "answered") /\ calls[c].status = 200 => ~calls[c].hasMore

Leave(c) ==
  /\ Finished(c)
  /\ calls' = [calls EXCEPT ![c] = None]
  /\ UNCHANGED transactions

\* The bank books a transaction, perhaps of an earlier date.  Rows inserted by
\* one database transaction share their created_at (CURRENT_TIMESTAMP).
Book(account, date, together) ==
  LET rows == Len(transactions)
      time == IF rows = 0 THEN 0
              ELSE transactions[rows].created_at + (IF together THEN 0 ELSE 1)
  IN
  /\ rows < MaxRows
  /\ transactions' =
       Append(transactions, [account |-> account, date |-> date, created_at |-> time])
  /\ UNCHANGED calls

Ranges == {{d \in Dates : from <= d /\ d <= to} : from, to \in Dates}

ReadStep(c) == SelectAccount(c) \/ (\E a \in Accounts : SumBalance(c, a)) \/ CountTransactions(c)
WalkStep(c) == SelectOwnAccount(c) \/ SelectPage(c) \/ CountMatching(c) \/ AskNextPage(c)

AccountsNext ==
  \/ \E c \in Calls, customer \in Customers :
       \/ Ask(c, "list", customer, None)
       \/ \E kind \in {"detail", "balance"}, account \in Accounts : Ask(c, kind, customer, account)
       \/ \E account \in Accounts, range \in Ranges, param \in LimitParams :
            AskPage(c, customer, account, range, param)
  \/ \E c \in Calls : ReadStep(c) \/ WalkStep(c) \/ Fail(c) \/ Leave(c)
  \/ \E account \in Accounts, date \in Dates, together \in BOOLEAN : Book(account, date, together)

AccountsSpec == AccountsInit /\ [][AccountsNext]_accountVars

\* The pool answers a query or throws, and the application asks on.
AccountsFairness ==
  \A c \in Calls : WF_accountVars(ReadStep(c) \/ WalkStep(c) \/ Fail(c))

FairAccountsSpec == AccountsSpec /\ AccountsFairness

-----------------------------------------------------------------------------
(* Correctness                                                             *)

\* An answer is made of rows of its own customer's accounts only, each under
\* its own account (accounts-api.js:42, 134, 230, 326).
OwnRowsOnly ==
  \A c \in Calls : calls[c] # None =>
    IF calls[c].kind = "transactions"
      THEN \A t \in calls[c].page \cup calls[c].collected :
             Owner[transactions[t].account] = calls[c].customer
      ELSE \A a \in Accounts : \A t \in calls[c].summed[a] :
             transactions[t].account = a /\ Owner[a] = calls[c].customer

Good(c) == InCall(c, "answered") /\ calls[c].status = 200

\* A balance covers at least what was booked before the request, and the
\* transaction_count next to it never falls short of it, although the queries
\* of one answer are taken at different moments (accounts-api.js:51-57, 155-169).
ReadsCover ==
  \A c \in Calls : Good(c) /\ calls[c].kind # "transactions" =>
    LET read == calls[c] IN
    /\ \A a \in Accounts : read.summed[a] # {} =>
         {t \in read.before : transactions[t].account = a} \subseteq read.summed[a]
    /\ read.kind = "detail" => read.summed[read.account] \subseteq read.counted

\* Rows that the ORDER BY does not tell from another one
Tied(t, all) == \E u \in all \ {t} : ~Precedes(t, u) /\ ~Precedes(u, t)

\* An application that follows has_more to the end has every transaction
\* there was when it began, but for rows that tie in the ORDER BY, although
\* others were booked at any date in the meantime (accounts-api.js:377-401,
\* 434).
WalkComplete ==
  \A c \in Calls : Good(c) /\ calls[c].kind = "transactions" /\ ~calls[c].hasMore =>
    LET walk == calls[c] IN
    \A t \in Matching(walk) \cap walk.before :
      t \in walk.collected \cup walk.page \/ Tied(t, Matching(walk))

\* A request is answered, and an application that follows has_more comes to
\* an end, for the bank books a finite number of transactions meanwhile.
WalkEnds ==
  \A c \in Calls : calls[c] # None ~> (calls[c] = None \/ Finished(c))

-----------------------------------------------------------------------------
(* The inductive invariant behind OwnRowsOnly, ReadsCover and WalkComplete *)

\* What is still to be summed is the customer's own, and a sum that was taken
\* covers what was there before the request.
SumsCover ==
  \A c \in Calls : calls[c] # None =>
    LET call == calls[c] IN
    /\ call.before \subseteq DOMAIN transactions
    /\ call.kind = "transactions" =>
         /\ call.page \cup call.collected \subseteq DOMAIN transactions
         /\ call.pc \in {"page", "count"} => Owner[call.account] = call.customer
    /\ call.kind # "transactions" =>
         /\ call.kind # "list" => call.account \in Accounts
         /\ \A a \in call.todo : Owner[a] = call.customer
         /\ \A a \in Accounts : call.summed[a] # {} =>
              /\ call.summed[a] \subseteq DOMAIN transactions
              /\ {t \in call.before : transactions[t].account = a} \subseteq call.summed[a]

\* The rows that come before t
Ahead(t, all) == {u \in all : Precedes(u, t)}

\* What the application has not got yet of the rows there were when it began;
\* those that tie are left to luck.
Missing(walk) ==
  {t \in Matching(walk) \cap walk.before :
     t \notin walk.collected \cup walk.page /\ ~Tied(t, Matching(walk))}

\* At least n rows come before any that is missing.
MissingFrom(walk, n) ==
  \A t \in Missing(walk) : Cardinality(Ahead(t, Matching(walk))) >= n

\* Rows only move to later pages, so that what is missing is still to come:
\* beyond the offset until a page is there, and beyond the page from then on.
OnTrack(walk) ==
  /\ walk.pc = "count" \/ walk.hasMore => walk.limit >= 0
  /\ walk.pc \in {"account", "page"} => walk.page = {} /\ MissingFrom(walk, walk.offset)
  /\ walk.pc = "count" => MissingFrom(walk, walk.offset + walk.limit)
  /\ walk.pc = "answered" /\ walk.status = 200 =>
       IF walk.hasMore THEN MissingFrom(walk, walk.offset + walk.limit)
                       ELSE Missing(walk) = {}

PagesOnTrack ==
  \A c \in Calls : calls[c] # None /\ calls[c].kind = "transactions" => OnTrack(calls[c])

\* Type correctness, and what every query, page and booked row keeps of the
\* answers under way: their rows are the customer's own, their sums cover what
\* they must, and their pages leave nothing behind.
AccountsInv ==
  /\ AccountsTypeOK
  /\ SumsCover
  /\ OwnRowsOnly
  /\ ReadsCover
  /\ PagesOnTrack
=============================================================================
