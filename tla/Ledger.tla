------------------------------- MODULE Ledger -------------------------------
(***************************************************************************)
(* The USDC->fiat limit ledger (app/services/ledger.py): debits of an      *)
(* identity's allowance, each under a client-chosen idempotency key.  A    *)
(* debit reads the key, then the balance, then inserts its row, and        *)
(* commits after it has answered; other debits may do any of these in      *)
(* between, and see a row only once it is committed.  Amounts are in       *)
(* mills, tenths of a cent: amount_usdc is a float, only the balance is    *)
(* rounded to cents.                                                       *)
(***************************************************************************)
EXTENDS Integers, FiniteSets, Sequences

CONSTANTS
    Identities,   \* identity_hash values with a row in identities
    Keys,         \* idempotency keys (bound: a key is debited at most once)
    Amounts,      \* amount_usdc values, positive (DebitRequest: gt=0)
    Limit,        \* limit_usdc, DEFAULT_LIMIT_USDC
    Requests,     \* request slots: how many debits run at once (bound)
    None

ASSUME AmountAssumption == Amounts \subseteq Nat \ {0} /\ Limit \in Nat
ASSUME RequestAssumption == IsFiniteSet(Requests)

VARIABLES
    ledger,    \* the committed rows, each at the place of its id
    consumed,  \* SUM(amount_usdc) of an identity's rows
    req        \* the debits in flight

vars == <<ledger, consumed, req>>

Row == [identity : Identities, amount : Amounts, key : Keys]

Request == [pc : {"started", "checked", "inserted"}, row : Row]

\* The rows stay in their types, and no debit ever raises the balance above the
\* limit (ledger.py:37-44).
TypeOK ==
    /\ ledger \in Seq(Row)
    /\ consumed \in [Identities -> Nat]
    /\ req \in [Requests -> Request \cup {None}]

Init ==
    /\ ledger = <<>>
    /\ consumed = [i \in Identities |-> 0]
    /\ req = [r \in Requests |-> None]

-----------------------------------------------------------------------------

Used(k) == \E n \in DOMAIN ledger : ledger[n].key = k

\* Inserted by a transaction that has not ended.
Held(k) == \E r \in Requests : req[r] # None /\ req[r].pc = "inserted" /\ req[r].row.key = k

\* round(x, 2): a cent within half a cent.  A tie falls on either side, as the
\* float's binary value happens to.
HalfCent == 5
RoundedToCents(x) == {y \in (x - HalfCent)..(x + HalfCent) : y % 10 = 0}

\* balance(): what remaining_usdc may come out as.
Remaining(i) == RoundedToCents(Limit - consumed[i])

Close(r) == req' = [req EXCEPT ![r] = None]

\* The key is new; a known key is answered with the balance and changes nothing.
Debit(r, row) ==
    /\ req[r] = None
    /\ ~Used(row.key)
    /\ req' = [req EXCEPT ![r] = [pc |-> "started", row |-> row]]
    /\ UNCHANGED <<ledger, consumed>>

AlwaysAffordable(row) == TRUE

\* amount <= remaining + 1e-9
Affordable(row) == \E remaining \in Remaining(row.identity) : row.amount <= remaining

Check(r) ==
    /\ req[r] # None /\ req[r].pc = "started"
    /\ Affordable(req[r].row)
    /\ req' = [req EXCEPT ![r] = [pc |-> "checked", row |-> req[r].row]]
    /\ UNCHANGED <<ledger, consumed>>

\* LimitError: 409.
Refuse(r) ==
    /\ req[r] # None /\ req[r].pc = "started"
    /\ \E remaining \in Remaining(req[r].row.identity) : req[r].row.amount > remaining
    /\ Close(r)
    /\ UNCHANGED <<ledger, consumed>>

\* The lookup again, in place of a constraint.
NotCommitted(k) == ~Used(k)

\* uq_ledger_idempotency: an insert waits for a transaction that has inserted the key,
\* and fails if that one commits.
KeyFree(k) == ~Used(k) /\ ~Held(k)

\* The flush; the answer comes before the commit.
Insert(r) ==
    /\ req[r] # None /\ req[r].pc = "checked"
    /\ KeyFree(req[r].row.key)
    /\ req' = [req EXCEPT ![r] = [pc |-> "inserted", row |-> req[r].row]]
    /\ UNCHANGED <<ledger, consumed>>

\* A debit with the sign of a credit.
CommitCredit(r) ==
    /\ req[r] # None /\ req[r].pc = "inserted"
    /\ ledger' = Append(ledger, req[r].row)
    /\ consumed' = [consumed EXCEPT ![req[r].row.identity] = @ - req[r].row.amount]
    /\ Close(r)

Commit(r) ==
    /\ req[r] # None /\ req[r].pc = "inserted"
    /\ ledger' = Append(ledger, req[r].row)
    /\ consumed' = [consumed EXCEPT ![req[r].row.identity] = @ + req[r].row.amount]
    /\ Close(r)

\* The unique constraint, or any other failure: the transaction is rolled back.
Abort(r) ==
    /\ req[r] # None
    /\ Close(r)
    /\ UNCHANGED <<ledger, consumed>>

Next == \E r \in Requests :
    \/ \E row \in Row : Debit(r, row)
    \/ Check(r) \/ Refuse(r) \/ Insert(r) \/ Commit(r) \/ Abort(r)

Spec == Init /\ [][Next]_vars

-----------------------------------------------------------------------------

\* A retried conversion cannot double-spend (ledger.py:4-5): however retries of a key
\* overlap, with the same or with other contents, no two rows of the ledger have it,
\* though each of them may have looked the key up before any other's row was there.
KeyDebitedOnce ==
    \A m, n \in DOMAIN ledger : ledger[m].key = ledger[n].key => m = n

\* "up to $100 of USDC->fiat conversion" (README.md:5), to the half cent that the
\* balance is rounded by.  Holds with one debit at a time.
WithinAllowance == \A i \in Identities : consumed[i] <= Limit + HalfCent

\* What overlapping debits can overspend: each of them at most the allowance.
OverspendBounded ==
    \A i \in Identities : consumed[i] <= Cardinality(Requests) * (Limit + HalfCent)
=============================================================================
