----------------------------- MODULE LimitProofs -----------------------------
(***************************************************************************)
(* The limits that requests race for: the money ledger of Ledger and the   *)
(* sliding window of RateLimit.  For any number of requests and threads,   *)
(* how far a check that is not atomic with what it allows can be overrun.  *)
(***************************************************************************)
EXTENDS Ledger, RateLimit, FiniteSetTheorems, TLAPS

-----------------------------------------------------------------------------
(* The ledger.                                                             *)

LEMMA RowSum ==
    ASSUME TypeOK, NEW row \in Row
    PROVE  /\ row.identity \in Identities /\ row.amount \in Nat
           /\ consumed[row.identity] \in Nat
           /\ [consumed EXCEPT ![row.identity] = @ + row.amount] \in [Identities -> Nat]
<1>1. row.identity \in Identities /\ row.amount \in Amounts
  BY DEF Row
<1>2. row.amount \in Nat
  BY <1>1, AmountAssumption
<1>3. consumed[row.identity] \in Nat
  BY <1>1 DEF TypeOK
<1>4. consumed[row.identity] + row.amount \in Nat
  BY <1>2, <1>3
<1> QED
  BY <1>1, <1>2, <1>3, <1>4 DEF TypeOK

\* A request keeps a row of the right shape until it commits or gives up.
THEOREM TypeCorrect == Spec => []TypeOK
<1>1. Init => TypeOK
  BY DEF Init, TypeOK
<1>2. TypeOK /\ [Next]_vars => TypeOK'
  <2> SUFFICES ASSUME TypeOK, [Next]_vars PROVE TypeOK'
    OBVIOUS
  <2> USE DEF TypeOK, Request
  <2>1. ASSUME NEW r \in Requests, NEW row \in Row, Debit(r, row)
        PROVE  TypeOK'
    BY <2>1 DEF Debit
  <2>2. ASSUME NEW r \in Requests, Check(r)
        PROVE  TypeOK'
    BY <2>2 DEF Check
  <2>3. ASSUME NEW r \in Requests, Refuse(r) \/ Abort(r)
        PROVE  TypeOK'
    BY <2>3 DEF Refuse, Abort, Close
  <2>4. ASSUME NEW r \in Requests, Insert(r)
        PROVE  TypeOK'
    BY <2>4 DEF Insert
  <2>5. ASSUME NEW r \in Requests, Commit(r)
        PROVE  TypeOK'
    <3>1. req[r].row \in Row
      BY <2>5 DEF Commit
    <3>2. Append(ledger, req[r].row) \in Seq(Row)
      BY <3>1
    <3>3. consumed' \in [Identities -> Nat]
      BY <2>5, <3>1, RowSum DEF Commit
    <3> QED
      BY <2>5, <3>2, <3>3 DEF Commit, Close
  <2>6. CASE UNCHANGED vars
    BY <2>6 DEF vars
  <2> QED
    BY <2>1, <2>2, <2>3, <2>4, <2>5, <2>6 DEF Next
<1> QED
  BY <1>1, <1>2, PTL DEF Spec

\* A key that a transaction holds is in no row and held by no other: what the unique
\* constraint promises of uncommitted rows.
HeldAlone ==
    \A r \in Requests : req[r] # None /\ req[r].pc = "inserted" =>
        /\ ~Used(req[r].row.key)
        /\ \A q \in Requests : req[q] # None /\ req[q].pc = "inserted" =>
               (req[q].row.key = req[r].row.key => q = r)

\* The key is looked up long before the row is inserted, and the row is committed long
\* after; that two retries do not both debit rests on the unique constraint alone.
THEOREM NoDoubleDebit == Spec => []KeyDebitedOnce
<1>1. Init => KeyDebitedOnce /\ HeldAlone
  BY DEF Init, KeyDebitedOnce, HeldAlone
<1>2. TypeOK /\ KeyDebitedOnce /\ HeldAlone /\ [Next]_vars => KeyDebitedOnce' /\ HeldAlone'
  <2> SUFFICES ASSUME TypeOK, KeyDebitedOnce, HeldAlone, [Next]_vars
               PROVE  KeyDebitedOnce' /\ HeldAlone'
    OBVIOUS
  <2>1. ASSUME NEW r \in Requests, NEW row \in Row, Debit(r, row)
        PROVE  KeyDebitedOnce' /\ HeldAlone'
    BY <2>1 DEF Debit, KeyDebitedOnce, HeldAlone, TypeOK, Used
  <2>2. ASSUME NEW r \in Requests, Check(r) \/ Refuse(r) \/ Abort(r)
        PROVE  KeyDebitedOnce' /\ HeldAlone'
    BY <2>2 DEF Check, Refuse, Abort, Close, KeyDebitedOnce, HeldAlone, TypeOK, Used
  <2>3. ASSUME NEW r \in Requests, Insert(r)
        PROVE  KeyDebitedOnce' /\ HeldAlone'
    BY <2>3 DEF Insert, KeyFree, Held, KeyDebitedOnce, HeldAlone, TypeOK, Used
  <2>4. ASSUME NEW r \in Requests, Commit(r)
        PROVE  KeyDebitedOnce' /\ HeldAlone'
    <3> DEFINE row == req[r].row
    <3>1. row \in Row /\ ~Used(row.key) /\ req[r] # None /\ req[r].pc = "inserted"
      BY <2>4 DEF Commit, HeldAlone, TypeOK, Request
    <3>2. /\ ledger' = Append(ledger, row) /\ ledger \in Seq(Row)
          /\ req'[r] = None /\ \A q \in Requests \ {r} : req'[q] = req[q]
      BY <2>4 DEF Commit, Close, TypeOK
    <3>3. \A q \in Requests \ {r} : req[q] # None /\ req[q].pc = "inserted" =>
              req[q].row.key # row.key
      BY <3>1 DEF HeldAlone
    <3> HIDE DEF row
    <3>4. /\ DOMAIN ledger' = 1..(Len(ledger) + 1) /\ DOMAIN ledger = 1..Len(ledger)
          /\ Len(ledger) \in Nat /\ ledger'[Len(ledger) + 1] = row
          /\ \A n \in 1..Len(ledger) : ledger'[n] = ledger[n]
      BY <3>1, <3>2
    <3>5. KeyDebitedOnce'
      BY <3>1, <3>4 DEF KeyDebitedOnce, Used
    <3>6. \A n \in DOMAIN ledger' :
              ledger'[n].key = row.key \/ \E m \in DOMAIN ledger : ledger[m].key = ledger'[n].key
      BY <3>4 DEF Used
    <3>7. HeldAlone'
      <4> SUFFICES ASSUME NEW q \in Requests, req'[q] # None, req'[q].pc = "inserted"
                   PROVE  /\ \A n \in DOMAIN ledger' : ledger'[n].key # req'[q].row.key
                          /\ \A p \in Requests : req'[p] # None /\ req'[p].pc = "inserted" =>
                                 (req'[p].row.key = req'[q].row.key => p = q)
        BY DEF HeldAlone, Used
      <4>1. q # r /\ req'[q] = req[q] /\ ~Used(req[q].row.key) /\ req[q].row.key # row.key
        BY <3>2, <3>3 DEF HeldAlone
      <4>2. \A p \in Requests : req'[p] # None => p # r /\ req'[p] = req[p]
        BY <3>2
      <4> QED
        BY <3>6, <4>1, <4>2 DEF HeldAlone, Used
    <3> QED
      BY <3>5, <3>7
  <2>5. CASE UNCHANGED vars
    BY <2>5 DEF vars, KeyDebitedOnce, HeldAlone, Used
  <2> QED
    BY <2>1, <2>2, <2>3, <2>4, <2>5 DEF Next
<1> QED
  BY <1>1, <1>2, TypeCorrect, PTL DEF Spec

-----------------------------------------------------------------------------
(* With one debit at a time the check is still true when the row is        *)
(* inserted.  WithinAllowance is not inductive without that.               *)

OneAtATime == \A r, q \in Requests : r = q

CheckedFits ==
    \A r \in Requests : req[r] # None /\ req[r].pc \in {"checked", "inserted"} =>
        consumed[req[r].row.identity] + req[r].row.amount <= Limit + HalfCent

LEMMA AffordableFits ==
    ASSUME TypeOK, NEW row \in Row, Affordable(row)
    PROVE  consumed[row.identity] + row.amount <= Limit + HalfCent
<1>1. /\ consumed[row.identity] \in Int /\ row.amount \in Int /\ Limit \in Int
  BY AmountAssumption, RowSum
<1>2. PICK y \in RoundedToCents(Limit - consumed[row.identity]) : row.amount <= y
  BY DEF Affordable, Remaining
<1>3. y \in Int /\ y <= Limit - consumed[row.identity] + HalfCent
  BY <1>1, <1>2 DEF RoundedToCents, HalfCent
<1> QED
  BY <1>1, <1>2, <1>3 DEF HalfCent

\* One debit at a time never takes an identity past its allowance by more than
\* the half cent the balance is rounded by.
THEOREM SerialAllowance == OneAtATime => (Spec => []WithinAllowance)
<1> SUFFICES ASSUME OneAtATime PROVE Spec => []WithinAllowance
  OBVIOUS
<1>1. Init => WithinAllowance /\ CheckedFits
  BY AmountAssumption DEF Init, WithinAllowance, CheckedFits, HalfCent
<1>2. TypeOK /\ TypeOK' /\ WithinAllowance /\ CheckedFits /\ [Next]_vars
        => WithinAllowance' /\ CheckedFits'
  <2> SUFFICES ASSUME TypeOK, TypeOK', WithinAllowance, CheckedFits, [Next]_vars
               PROVE  WithinAllowance' /\ CheckedFits'
    OBVIOUS
  <2>1. ASSUME NEW r \in Requests, NEW row \in Row, Debit(r, row)
        PROVE  WithinAllowance' /\ CheckedFits'
    BY <2>1 DEF Debit, TypeOK, Request, WithinAllowance, CheckedFits
  <2>2. ASSUME NEW r \in Requests, Check(r)
        PROVE  WithinAllowance' /\ CheckedFits'
    <3>1. req[r].row \in Row /\ Affordable(req[r].row)
      BY <2>2 DEF Check, TypeOK, Request
    <3>2. consumed[req[r].row.identity] + req[r].row.amount <= Limit + HalfCent
      BY <3>1, AffordableFits
    <3>3. /\ req'[r].row = req[r].row /\ UNCHANGED consumed
          /\ \A q \in Requests : q = r
      BY <2>2 DEF Check, TypeOK, OneAtATime
    <3> QED
      BY <3>2, <3>3 DEF WithinAllowance, CheckedFits
  <2>3. ASSUME NEW r \in Requests, Refuse(r) \/ Abort(r)
        PROVE  WithinAllowance' /\ CheckedFits'
    BY <2>3 DEF Refuse, Abort, Close, TypeOK, WithinAllowance, CheckedFits
  <2>4. ASSUME NEW r \in Requests, Commit(r)
        PROVE  WithinAllowance' /\ CheckedFits'
    <3> DEFINE row == req[r].row
    <3>1. row \in Row /\ consumed[row.identity] + row.amount <= Limit + HalfCent
      BY <2>4 DEF Commit, TypeOK, Request, CheckedFits
    <3>2. consumed' = [consumed EXCEPT ![row.identity] = @ + row.amount]
      BY <2>4 DEF Commit
    <3>3. WithinAllowance'
      <4> HIDE DEF row
      <4> QED BY <3>1, <3>2 DEF WithinAllowance, TypeOK, Row
    <3>4. req'[r] = None /\ \A q \in Requests : q = r
      BY <2>4 DEF Commit, Close, TypeOK, OneAtATime
    <3> QED
      BY <3>3, <3>4 DEF CheckedFits
  <2>5. ASSUME NEW r \in Requests, Insert(r)
        PROVE  WithinAllowance' /\ CheckedFits'
    BY <2>5 DEF Insert, TypeOK, WithinAllowance, CheckedFits
  <2>6. CASE UNCHANGED vars
    BY <2>6 DEF vars, WithinAllowance, CheckedFits
  <2> QED
    BY <2>1, <2>2, <2>3, <2>4, <2>5, <2>6 DEF Next
<1> QED
  BY <1>1, <1>2, TypeCorrect, PTL DEF Spec
-----------------------------------------------------------------------------
(* Any number of debits at once.  Each checked debit fits alone, so what    *)
(* is consumed and what is still pending fit together in one allowance for  *)
(* each request slot.  The pending mills are counted as a set, a pair       *)
(* <<slot, mill>> for each.                                                 *)

Allowance == Limit + HalfCent

Checked(r) == req[r] # None /\ req[r].pc \in {"checked", "inserted"}

Pending(i) ==
    {t \in Requests \X (1..Allowance) :
        /\ Checked(t[1])
        /\ req[t[1]].row.identity = i
        /\ t[2] <= req[t[1]].row.amount}

Ceiling == Cardinality(Requests) * Allowance

PendingBounded == \A i \in Identities : consumed[i] + Cardinality(Pending(i)) <= Ceiling

CheckedAlone == \A r \in Requests : Checked(r) => req[r].row.amount <= Allowance

LEMMA AllowanceType == Allowance \in Nat \ {0}
BY AmountAssumption DEF Allowance, HalfCent

LEMMA CeilingType == Ceiling \in Nat
<1>1. Cardinality(Requests) \in Nat
  BY RequestAssumption, FS_CardinalityType
<1> QED
  BY <1>1, AllowanceType DEF Ceiling

LEMMA PendingFinite ==
    ASSUME NEW i
    PROVE  IsFiniteSet(Pending(i)) /\ Cardinality(Pending(i)) \in Nat
<1>1. IsFiniteSet(Requests \X (1..Allowance))
  <2>1. IsFiniteSet(1..Allowance)
    BY AllowanceType, FS_Interval
  <2> QED
    BY <2>1, RequestAssumption, FS_Product
<1>2. Pending(i) \in SUBSET (Requests \X (1..Allowance))
  BY DEF Pending
<1>3. IsFiniteSet(Pending(i))
  BY <1>1, <1>2, FS_Subset
<1> QED
  BY <1>3, FS_CardinalityType

\* A step that adds no pending mill and consumes none keeps the bound.
LEMMA PendingShrinks ==
    ASSUME TypeOK, PendingBounded, UNCHANGED consumed,
           \A i \in Identities : Pending(i)' \subseteq Pending(i)
    PROVE  PendingBounded'
<1> SUFFICES ASSUME NEW i \in Identities
             PROVE  consumed[i] + Cardinality(Pending(i)') <= Ceiling
  BY DEF PendingBounded, Ceiling, Allowance
<1>1. Cardinality(Pending(i)') <= Cardinality(Pending(i)) /\ Cardinality(Pending(i)') \in Nat
  <2>1. Pending(i)' \in SUBSET Pending(i)
    OBVIOUS
  <2>2. IsFiniteSet(Pending(i)')
    BY <2>1, PendingFinite, FS_Subset
  <2> QED
    BY <2>1, <2>2, PendingFinite, FS_Subset, FS_CardinalityType
<1>2. Ceiling \in Nat
  BY CeilingType
<1>3. consumed[i] \in Nat /\ consumed[i] + Cardinality(Pending(i)) <= Ceiling
  BY DEF TypeOK, PendingBounded
<1> HIDE DEF Ceiling
<1> QED
  BY <1>1, <1>2, <1>3, PendingFinite

\* The mills of one slot.
LEMMA SlotMills ==
    ASSUME NEW r, NEW n \in Nat
    PROVE  IsFiniteSet({r} \X (1..n)) /\ Cardinality({r} \X (1..n)) = n
<1>1. IsFiniteSet(1..n) /\ Cardinality(1..n) = n
  BY FS_Interval
<1>2. IsFiniteSet({r}) /\ Cardinality({r}) = 1
  BY FS_Singleton
<1> QED
  BY <1>1, <1>2, FS_Product

\* The mills of the other slots are at most an allowance each.
LEMMA OtherMills ==
    ASSUME NEW r \in Requests
    PROVE  /\ IsFiniteSet((Requests \ {r}) \X (1..Allowance))
           /\ Cardinality((Requests \ {r}) \X (1..Allowance)) + Allowance = Ceiling
<1>1. IsFiniteSet(1..Allowance) /\ Cardinality(1..Allowance) = Allowance
  BY AllowanceType, FS_Interval
<1>2. /\ IsFiniteSet(Requests \ {r})
      /\ Cardinality(Requests \ {r}) = Cardinality(Requests) - 1
      /\ Cardinality(Requests) \in Nat
  BY RequestAssumption, FS_RemoveElement, FS_CardinalityType
<1>3. /\ IsFiniteSet((Requests \ {r}) \X (1..Allowance))
      /\ Cardinality((Requests \ {r}) \X (1..Allowance)) = (Cardinality(Requests) - 1) * Allowance
  <2> DEFINE others == Requests \ {r}
             mills == 1..Allowance
  <2>1. IsFiniteSet(others) /\ IsFiniteSet(mills)
    BY <1>1, <1>2
  <2>2. /\ IsFiniteSet(others \X mills)
        /\ Cardinality(others \X mills) = Cardinality(others) * Cardinality(mills)
    <3> HIDE DEF others, mills
    <3> QED BY <2>1, FS_Product
  <2> QED
    BY <1>1, <1>2, <2>2
<1>4. \A c, a \in Nat : (c - 1) * a + a = c * a
  OBVIOUS
<1> QED
  BY <1>2, <1>3, <1>4, AllowanceType DEF Ceiling

LEMMA CheckPends ==
    ASSUME TypeOK, PendingBounded, NEW r \in Requests, Check(r)
    PROVE  PendingBounded'
<1>1. PICK row \in Row : row = req[r].row
  BY DEF Check, TypeOK, Request
<1>2. /\ consumed[row.identity] \in Nat /\ row.amount \in Nat
      /\ consumed[row.identity] + row.amount <= Allowance
  BY <1>1, RowSum, AffordableFits DEF Check, Allowance
<1>3. /\ req'[r] = [pc |-> "checked", row |-> row]
      /\ \A q \in Requests \ {r} : req'[q] = req[q]
      /\ UNCHANGED consumed
  BY <1>1 DEF Check, TypeOK
<1> SUFFICES ASSUME NEW i \in Identities
             PROVE  consumed[i] + Cardinality(Pending(i)') <= Ceiling
  BY <1>3 DEF PendingBounded, Ceiling, Allowance
<1>4. CASE i # row.identity
  <2>1. Pending(i)' = Pending(i)
    <3>1. \A t \in Requests \X (1..Allowance) : t[1] \in Requests
      OBVIOUS
    <3>2. req[r].pc = "started"
      BY DEF Check
    <3> QED
      BY <1>3, <1>4, <3>1, <3>2 DEF Pending, Checked, Allowance
  <2> QED
    BY <2>1 DEF PendingBounded
<1>5. CASE i = row.identity
  <2> DEFINE Mine == {r} \X (1..row.amount)
             Others == (Requests \ {r}) \X (1..Allowance)
  <2>1. /\ IsFiniteSet(Mine) /\ Cardinality(Mine) = row.amount
        /\ IsFiniteSet(Others) /\ Cardinality(Others) \in Nat
        /\ Cardinality(Others) + Allowance = Ceiling
    BY <1>2, SlotMills, OtherMills, FS_CardinalityType
  <2>2. Pending(i)' \subseteq Mine \cup Others
    <3> SUFFICES ASSUME NEW t \in Pending(i)' PROVE t \in Mine \cup Others
      OBVIOUS
    <3>1. /\ t \in Requests \X (1..Allowance)
          /\ t[2] <= req'[t[1]].row.amount
      BY DEF Pending, Allowance
    <3>2. CASE t[1] = r
      <4>1. t[2] \in 1..row.amount
        BY <1>2, <1>3, <3>1, <3>2, AllowanceType
      <4> QED
        BY <3>1, <3>2, <4>1
    <3>3. CASE t[1] # r
      BY <3>1, <3>3
    <3> QED
      BY <3>2, <3>3
  <2> HIDE DEF Mine, Others
  <2>3. /\ IsFiniteSet(Mine \cup Others)
        /\ Cardinality(Mine \cup Others)
             = Cardinality(Mine) + Cardinality(Others) - Cardinality(Mine \cap Others)
    BY <2>1, FS_Union
  <2>4. Cardinality(Mine \cap Others) \in Nat
    BY <2>1, FS_Subset, FS_CardinalityType
  <2>5. /\ IsFiniteSet(Pending(i)')
        /\ Cardinality(Pending(i)') <= Cardinality(Mine \cup Others)
    BY <2>2, <2>3, FS_Subset
  <2>6. Cardinality(Pending(i)') \in Nat
    BY <2>5, FS_CardinalityType
  <2> HIDE DEF Ceiling, Allowance
  <2> QED
    BY <1>2, <1>5, <2>1, <2>3, <2>4, <2>5, <2>6, AllowanceType
<1> QED
  BY <1>4, <1>5

\* What is pending becomes consumed, mill by mill.
LEMMA CommitConsumes ==
    ASSUME TypeOK, PendingBounded, CheckedAlone, NEW r \in Requests, Commit(r)
    PROVE  PendingBounded'
<1>1. PICK row \in Row : row = req[r].row
  BY DEF Commit, TypeOK, Request
<1>2. /\ row.identity \in Identities /\ row.amount \in Nat /\ row.amount <= Allowance
      /\ consumed[row.identity] \in Nat
  BY <1>1, RowSum DEF Commit, CheckedAlone, Checked
<1>3. /\ req'[r] = None
      /\ \A q \in Requests \ {r} : req'[q] = req[q]
      /\ consumed' = [consumed EXCEPT ![row.identity] = @ + row.amount]
      /\ Checked(r)
  BY <1>1 DEF Commit, Close, TypeOK, Checked
<1>4. \A i \in Identities : Pending(i)' \subseteq Pending(i)
  BY <1>3 DEF Pending, Checked, Allowance
<1> SUFFICES ASSUME NEW i \in Identities
             PROVE  consumed'[i] + Cardinality(Pending(i)') <= Ceiling
  BY DEF PendingBounded, Ceiling, Allowance
<1>5. /\ IsFiniteSet(Pending(i)) /\ Cardinality(Pending(i)) \in Nat
      /\ consumed[i] \in Nat /\ consumed[i] + Cardinality(Pending(i)) <= Ceiling
  BY PendingFinite DEF TypeOK, PendingBounded
<1>6. /\ IsFiniteSet(Pending(i)') /\ Cardinality(Pending(i)') \in Nat
      /\ Cardinality(Pending(i)') <= Cardinality(Pending(i))
  BY <1>4, <1>5, FS_Subset, FS_CardinalityType
<1>7. Ceiling \in Nat
  BY CeilingType
<1>8. CASE i # row.identity
  <2>1. consumed'[i] = consumed[i]
    BY <1>2, <1>3, <1>8 DEF TypeOK
  <2> HIDE DEF Ceiling
  <2> QED
    BY <1>5, <1>6, <1>7, <2>1
<1>9. CASE i = row.identity
  <2> DEFINE Mine == {r} \X (1..row.amount)
  <2>1. IsFiniteSet(Mine) /\ Cardinality(Mine) = row.amount
    BY <1>2, SlotMills
  <2>2. Mine \subseteq Pending(i)
    <3> SUFFICES ASSUME NEW n \in 1..row.amount PROVE <<r, n>> \in Pending(i)
      OBVIOUS
    <3>1. n \in 1..Allowance
      BY <1>2, AllowanceType
    <3> QED
      BY <1>1, <1>2, <1>3, <1>9, <3>1 DEF Pending
  <2>3. Pending(i)' \cap Mine = {}
    BY <1>3 DEF Pending, Checked
  <2> HIDE DEF Mine
  <2>4. /\ IsFiniteSet(Pending(i)' \cup Mine)
        /\ Cardinality(Pending(i)' \cup Mine) = Cardinality(Pending(i)') + row.amount
    <3>1. /\ IsFiniteSet(Pending(i)' \cup Mine)
          /\ Cardinality(Pending(i)' \cup Mine)
               = Cardinality(Pending(i)') + Cardinality(Mine) - Cardinality(Pending(i)' \cap Mine)
      BY <1>6, <2>1, FS_Union
    <3>2. Cardinality(Pending(i)' \cap Mine) = 0
      BY <2>3, FS_EmptySet
    <3> QED
      BY <1>2, <1>6, <2>1, <3>1, <3>2
  <2>5. Cardinality(Pending(i)' \cup Mine) <= Cardinality(Pending(i))
    <3>1. Pending(i)' \cup Mine \in SUBSET Pending(i)
      BY <1>4, <2>2
    <3> QED
      BY <1>5, <3>1, FS_Subset
  <2>6. consumed'[i] = consumed[i] + row.amount
    BY <1>2, <1>3, <1>9 DEF TypeOK
  <2> HIDE DEF Ceiling
  <2> QED
    BY <1>2, <1>5, <1>6, <1>7, <2>4, <2>5, <2>6
<1> QED
  BY <1>8, <1>9

LEMMA AloneKept ==
    ASSUME TypeOK, CheckedAlone, [Next]_vars
    PROVE  CheckedAlone'
<1> USE DEF CheckedAlone, Checked, TypeOK
<1>1. ASSUME NEW r \in Requests, NEW row \in Row, Debit(r, row)
      PROVE  CheckedAlone'
  BY <1>1 DEF Debit, Allowance
<1>2. ASSUME NEW r \in Requests, Check(r)
      PROVE  CheckedAlone'
  <2>1. PICK row \in Row : row = req[r].row
    BY <1>2 DEF Check, Request
  <2>2. consumed[row.identity] \in Nat /\ row.amount \in Nat
        /\ consumed[row.identity] + row.amount <= Allowance
    BY <1>2, <2>1, RowSum, AffordableFits DEF Check, Allowance
  <2>3. row.amount <= Allowance
    BY <2>2, AllowanceType
  <2>4. req'[r] = [pc |-> "checked", row |-> row] /\ \A q \in Requests \ {r} : req'[q] = req[q]
    BY <1>2, <2>1 DEF Check
  <2> QED
    BY <2>3, <2>4 DEF Allowance
<1>3. ASSUME NEW r \in Requests, Refuse(r) \/ Insert(r) \/ Commit(r) \/ Abort(r)
      PROVE  CheckedAlone'
  BY <1>3 DEF Refuse, Insert, Commit, Abort, Close, Allowance
<1>4. CASE UNCHANGED vars
  BY <1>4 DEF vars, Allowance
<1> QED
  BY <1>1, <1>2, <1>3, <1>4 DEF Next

\* However many debits overlap, an identity consumes at most one allowance for each
\* of them that can be under way.
THEOREM OverspendIsBounded == Spec => []OverspendBounded
<1>1. Init => PendingBounded /\ CheckedAlone
  <2> SUFFICES ASSUME Init PROVE PendingBounded /\ CheckedAlone
    OBVIOUS
  <2>1. CheckedAlone
    BY DEF Init, CheckedAlone, Checked
  <2>2. ASSUME NEW i \in Identities PROVE consumed[i] + Cardinality(Pending(i)) <= Ceiling
    <3>1. Pending(i) = {} /\ consumed[i] = 0
      BY DEF Init, Pending, Checked
    <3>2. Ceiling \in Nat
      BY CeilingType
    <3> HIDE DEF Ceiling
    <3> QED
      BY <3>1, <3>2, FS_EmptySet
  <2> QED
    BY <2>1, <2>2 DEF PendingBounded
<1>2. TypeOK /\ PendingBounded /\ CheckedAlone /\ [Next]_vars => PendingBounded' /\ CheckedAlone'
  <2> SUFFICES ASSUME TypeOK, PendingBounded, CheckedAlone, [Next]_vars PROVE PendingBounded'
    BY AloneKept
  <2>1. ASSUME NEW r \in Requests, NEW row \in Row, Debit(r, row)
        PROVE  PendingBounded'
    <3>1. \A i \in Identities : Pending(i)' \subseteq Pending(i)
      BY <2>1 DEF Debit, Pending, Checked, TypeOK, Allowance
    <3> QED
      BY <2>1, <3>1, PendingShrinks DEF Debit
  <2>2. ASSUME NEW r \in Requests, Refuse(r) \/ Insert(r) \/ Abort(r)
        PROVE  PendingBounded'
    <3>1. \A i \in Identities : Pending(i)' \subseteq Pending(i)
      BY <2>2 DEF Refuse, Insert, Abort, Close, Pending, Checked, TypeOK, Allowance
    <3> QED
      BY <2>2, <3>1, PendingShrinks DEF Refuse, Insert, Abort
  <2>3. CASE UNCHANGED vars
    <3>1. \A i \in Identities : Pending(i)' \subseteq Pending(i)
      BY <2>3 DEF vars, Pending, Checked, Allowance
    <3> QED
      BY <2>3, <3>1, PendingShrinks DEF vars
  <2> QED
    BY <2>1, <2>2, <2>3, CheckPends, CommitConsumes DEF Next
<1>3. TypeOK /\ PendingBounded => OverspendBounded
  <2> SUFFICES ASSUME TypeOK, PendingBounded, NEW i \in Identities PROVE consumed[i] <= Ceiling
    BY DEF OverspendBounded, Ceiling, Allowance
  <2>1. Ceiling \in Nat
    BY CeilingType
  <2>2. consumed[i] \in Nat /\ consumed[i] + Cardinality(Pending(i)) <= Ceiling
    BY DEF TypeOK, PendingBounded
  <2> HIDE DEF Ceiling
  <2> QED
    BY <2>1, <2>2, PendingFinite
<1> QED
  BY <1>1, <1>2, <1>3, TypeCorrect, PTL DEF Spec

-----------------------------------------------------------------------------
(* The rate limit.                                                         *)

Entry == Nat \X (Nat \ {0})

RateTyped ==
    /\ now \in Nat
    /\ arrived \in [Threads -> Nat \cup {-1}]
    /\ admitted \subseteq Entry /\ IsFiniteSet(admitted)
    /\ hits \subseteq admitted
    /\ \A r \in Threads : arrived[r] <= now
    /\ \A h \in admitted : h[2] <= Cardinality(AdmittedAt(h[1]))

\* Threads that have read a time of the window and not yet taken the lock.
Waiting(a) == {r \in Threads : arrived[r] # -1 /\ a <= arrived[r] /\ arrived[r] <= a + Window}

\* Nothing of the window has been dropped from the bucket ...
Remembered(a) == InWindow(a) \subseteq hits /\ Cardinality(InWindow(a)) <= Quota

\* ... or its time is over, and only those who wait for the lock can still come in.
WindedUp(a) ==
    /\ now > a + Window
    /\ Cardinality(InWindow(a)) + Cardinality(Waiting(a)) <= Quota + Cardinality(Threads) - 1

RateInv == RateTyped /\ \A a \in 0..LastSecond : Remembered(a) \/ WindedUp(a)

LEMMA RateInitInv == RateInit => RateInv
<1> SUFFICES ASSUME RateInit PROVE RateInv
  OBVIOUS
<1>1. IsFiniteSet(admitted) /\ Cardinality({}) = 0
  BY FS_EmptySet DEF RateInit
<1>2. RateTyped
  BY <1>1 DEF RateInit, RateTyped
<1>3. ASSUME NEW a \in 0..LastSecond PROVE Remembered(a)
  <2>1. InWindow(a) = {}
    BY DEF RateInit, InWindow
  <2> QED
    BY <1>1, <2>1, RateAssumption DEF Remembered
<1> QED
  BY <1>2, <1>3 DEF RateInv

\* The sets that the invariant counts are finite.
LEMMA RateFinite ==
    ASSUME RateTyped, NEW a \in Nat
    PROVE  /\ IsFiniteSet(InWindow(a)) /\ Cardinality(InWindow(a)) \in Nat
           /\ IsFiniteSet(Waiting(a)) /\ Cardinality(Waiting(a)) \in Nat
           /\ IsFiniteSet(AdmittedAt(a)) /\ Cardinality(AdmittedAt(a)) \in Nat
           /\ Cardinality(Threads) \in Nat /\ Cardinality(Threads) >= 1
           /\ \A t \in Nat : IsFiniteSet(Trimmed(t)) /\ Cardinality(Trimmed(t)) \in Nat
<1>1. InWindow(a) \subseteq admitted /\ AdmittedAt(a) \subseteq admitted /\ Waiting(a) \subseteq Threads
  BY DEF InWindow, Waiting, AdmittedAt
<1>2. \A t \in Nat : Trimmed(t) \subseteq admitted
  BY DEF Trimmed, RateTyped
<1>3. IsFiniteSet(admitted) /\ IsFiniteSet(Threads)
  BY RateAssumption DEF RateTyped
<1>4. Cardinality(Threads) # 0
  BY <1>3, FS_EmptySet, RateAssumption
<1>5. Cardinality(Threads) \in Nat
  BY <1>3, FS_CardinalityType
<1> QED
  BY <1>1, <1>2, <1>3, <1>4, <1>5, FS_Subset, FS_CardinalityType

\* Each request that is let in is one entry more.
LEMMA EntryIsNew ==
    ASSUME RateTyped, NEW t \in Nat
    PROVE  LET entry == <<t, Cardinality(AdmittedAt(t)) + 1>>
           IN  entry \in Entry /\ entry \notin admitted
<1>1. Cardinality(AdmittedAt(t)) \in Nat
  BY RateFinite
<1> QED
  BY <1>1 DEF RateTyped, Entry

LEMMA AllowTyped ==
    ASSUME RateTyped, NEW r \in Threads, Allow(r)
    PROVE  RateTyped'
<1> DEFINE t == arrived[r]
           entry == <<t, Cardinality(AdmittedAt(t)) + 1>>
<1>1. /\ t \in Nat /\ now' = now /\ arrived' = [arrived EXCEPT ![r] = -1]
      /\ \/ hits' = Trimmed(t) /\ admitted' = admitted
         \/ hits' = Trimmed(t) \cup {entry} /\ admitted' = admitted \cup {entry}
  BY DEF Allow, RateTyped
<1>2. entry \in Entry /\ entry \notin admitted
  BY <1>1, EntryIsNew
<1>3. /\ now' \in Nat /\ arrived' \in [Threads -> Nat \cup {-1}]
      /\ \A s \in Threads : arrived'[s] <= now'
  BY <1>1 DEF RateTyped
<1>4. Trimmed(t) \subseteq admitted
  BY DEF Trimmed, RateTyped
<1>5. /\ admitted' \subseteq Entry /\ IsFiniteSet(admitted') /\ hits' \subseteq admitted'
  BY <1>1, <1>2, <1>4, FS_AddElement DEF RateTyped
<1>6. ASSUME NEW h \in admitted' PROVE h[2] <= Cardinality(AdmittedAt(h[1])')
  <2>1. CASE admitted' = admitted
    BY <2>1 DEF RateTyped, AdmittedAt
  <2>2. CASE admitted' = admitted \cup {entry}
    <3>1. /\ Cardinality(AdmittedAt(t)) \in Nat
          /\ Cardinality(AdmittedAt(t) \cup {entry}) = Cardinality(AdmittedAt(t)) + 1
      <4>1. entry \notin AdmittedAt(t)
        BY <1>2 DEF AdmittedAt
      <4> QED
        BY <1>1, <4>1, RateFinite, FS_AddElement
    <3>2. CASE h = entry
      <4>1. h[1] = t /\ h[2] = Cardinality(AdmittedAt(t)) + 1
        BY <3>2
      <4>2. AdmittedAt(h[1])' = AdmittedAt(t) \cup {entry}
        BY <1>1, <2>2, <4>1 DEF AdmittedAt
      <4> QED
        BY <3>1, <4>1, <4>2
    <3>3. CASE h # entry
      <4>1. h \in admitted /\ h[1] \in Nat /\ h[2] \in Nat
        BY <1>6, <2>2, <3>3 DEF RateTyped, Entry
      <4>2. h[2] <= Cardinality(AdmittedAt(h[1]))
        BY <4>1 DEF RateTyped
      <4>3. CASE h[1] = t
        <5>1. AdmittedAt(h[1])' = AdmittedAt(t) \cup {entry}
          BY <2>2, <4>3 DEF AdmittedAt
        <5> QED
          BY <3>1, <4>1, <4>2, <4>3, <5>1
      <4>4. CASE h[1] # t
        <5>1. AdmittedAt(h[1])' = AdmittedAt(h[1])
          BY <2>2, <4>4 DEF AdmittedAt
        <5> QED
          BY <4>2, <5>1
      <4> QED
        BY <4>3, <4>4
    <3> QED
      BY <3>2, <3>3
  <2> QED
    BY <1>1, <2>1, <2>2
<1> QED
  BY <1>3, <1>5, <1>6 DEF RateTyped

\* A request within the window sees all of it that is remembered; one from after its
\* end may drop it, but leaves at most the other threads waiting.
LEMMA AllowCounts ==
    ASSUME RateTyped, NEW r \in Threads, Allow(r), NEW a \in Nat, Remembered(a) \/ WindedUp(a)
    PROVE  (Remembered(a) \/ WindedUp(a))'
<1> DEFINE t == arrived[r]
           entry == <<t, Cardinality(AdmittedAt(t)) + 1>>
<1>1. /\ t \in Nat /\ now' = now /\ now \in Nat /\ t <= now
      /\ arrived' = [arrived EXCEPT ![r] = -1] /\ arrived \in [Threads -> Nat \cup {-1}]
      /\ Quota \in Nat /\ Window \in Nat
  BY RateAssumption DEF Allow, RateTyped
<1>2. \/ hits' = Trimmed(t) /\ admitted' = admitted
      \/ /\ hits' = Trimmed(t) \cup {entry} /\ admitted' = admitted \cup {entry}
         /\ ~(Cardinality(Trimmed(t)) >= Quota)
  BY DEF Allow
<1>3. /\ IsFiniteSet(InWindow(a)) /\ Cardinality(InWindow(a)) \in Nat
      /\ IsFiniteSet(Waiting(a)) /\ Cardinality(Waiting(a)) \in Nat
      /\ IsFiniteSet(Trimmed(t)) /\ Cardinality(Trimmed(t)) \in Nat
      /\ IsFiniteSet(Threads) /\ Cardinality(Threads) \in Nat /\ Cardinality(Threads) >= 1
  BY <1>1, RateFinite, RateAssumption
<1>4. Waiting(a)' = Waiting(a) \ {r}
  BY <1>1 DEF Waiting
<1>5. CASE a <= t /\ t <= a + Window
  <2>1. r \in Waiting(a)
    BY <1>1, <1>5 DEF Waiting
  <2>2. Cardinality(Waiting(a)') = Cardinality(Waiting(a)) - 1
    BY <1>3, <1>4, <2>1, FS_RemoveElement
  <2>3. InWindow(a)' = InWindow(a) \/ InWindow(a)' = InWindow(a) \cup {entry}
    BY <1>2 DEF InWindow
  <2>4. Cardinality(InWindow(a)') \in Nat /\ Cardinality(InWindow(a)') <= Cardinality(InWindow(a)) + 1
    <3>1. Cardinality(InWindow(a) \cup {entry}) \in {Cardinality(InWindow(a)), Cardinality(InWindow(a)) + 1}
      BY <1>3, FS_AddElement
    <3> QED
      BY <1>3, <2>3, <3>1
  <2>5. CASE WindedUp(a)
    BY <1>1, <1>3, <2>2, <2>4, <2>5 DEF WindedUp
  <2>6. CASE Remembered(a)
    <3>1. InWindow(a) \subseteq Trimmed(t)
      BY <1>1, <1>5, <2>6 DEF Remembered, InWindow, Trimmed, RateTyped, Entry
    <3>2. Cardinality(InWindow(a)) <= Cardinality(Trimmed(t))
      BY <1>3, <3>1, FS_Subset
    <3>3. CASE admitted' = admitted
      BY <1>2, <2>6, <3>1, <3>3 DEF Remembered, InWindow
    <3>4. CASE hits' = Trimmed(t) \cup {entry} /\ ~(Cardinality(Trimmed(t)) >= Quota)
      BY <1>1, <1>3, <2>3, <2>4, <3>1, <3>2, <3>4 DEF Remembered
    <3> QED
      BY <1>2, <3>3, <3>4
  <2> QED
    BY <2>5, <2>6
<1>6. CASE ~(a <= t /\ t <= a + Window)
  <2>1. InWindow(a)' = InWindow(a)
    BY <1>2, <1>6 DEF InWindow
  <2>2. /\ Cardinality(Waiting(a)') \in Nat /\ Cardinality(Waiting(a)') <= Cardinality(Waiting(a))
        /\ Cardinality(Waiting(a)') <= Cardinality(Threads) - 1
    <3>1. Waiting(a)' \subseteq Threads \ {r} /\ Waiting(a)' \subseteq Waiting(a)
      BY <1>4 DEF Waiting
    <3>2. IsFiniteSet(Threads \ {r}) /\ Cardinality(Threads \ {r}) = Cardinality(Threads) - 1
      BY <1>3, FS_RemoveElement
    <3> QED
      BY <1>3, <3>1, <3>2, FS_Subset, FS_CardinalityType
  <2>3. CASE WindedUp(a)
    BY <1>1, <1>3, <2>1, <2>2, <2>3 DEF WindedUp
  <2>4. CASE Remembered(a) /\ t > a + Window
    BY <1>1, <1>3, <2>1, <2>2, <2>4 DEF WindedUp, Remembered
  <2>5. CASE Remembered(a) /\ t < a
    <3>1. InWindow(a) \subseteq Trimmed(t)
      BY <1>1, <2>5 DEF Remembered, InWindow, Trimmed, RateTyped, Entry
    <3> QED
      BY <1>2, <2>1, <2>5, <3>1 DEF Remembered
  <2> QED
    BY <1>1, <1>6, <2>3, <2>4, <2>5
<1> QED
  BY <1>5, <1>6

\* At most the quota, and one for each other thread that may be waiting, is let in of the
\* requests of any window, however many threads there are.
THEOREM WindowHoldsQuota == RateSpec => []QuotaHolds
<1>1. RateInv /\ [RateNext]_rateVars => RateInv'
  <2> SUFFICES ASSUME RateInv, [RateNext]_rateVars PROVE RateInv'
    OBVIOUS
  <2>1. RateTyped /\ 0..LastSecond \subseteq Nat /\ Window \in Nat
    BY RateAssumption DEF RateInv
  <2>2. CASE UNCHANGED rateVars
    BY <2>2 DEF rateVars, RateInv, RateTyped, Remembered, WindedUp, InWindow, Waiting, AdmittedAt
  <2>3. CASE Second
    <3>1. now' = now + 1 /\ UNCHANGED <<arrived, hits, admitted>>
      BY <2>3 DEF Second
    <3>2. RateTyped'
      BY <2>1, <3>1 DEF RateTyped, AdmittedAt
    <3>3. \A a \in 0..LastSecond : (Remembered(a) \/ WindedUp(a))'
      BY <2>1, <3>1 DEF RateInv, RateTyped, Remembered, WindedUp, InWindow, Waiting
    <3> QED
      BY <3>2, <3>3 DEF RateInv
  <2>4. ASSUME NEW r \in Threads, Arrive(r) PROVE RateInv'
    <3>1. arrived' = [arrived EXCEPT ![r] = now] /\ UNCHANGED <<now, hits, admitted>>
      BY <2>4 DEF Arrive
    <3>2. RateTyped'
      BY <2>1, <3>1 DEF RateTyped, AdmittedAt
    <3>3. ASSUME NEW a \in 0..LastSecond PROVE (Remembered(a) \/ WindedUp(a))'
      <4>1. CASE Remembered(a)
        BY <3>1, <4>1 DEF Remembered, InWindow
      <4>2. CASE WindedUp(a)
        <5>1. Waiting(a)' \subseteq Waiting(a) /\ InWindow(a)' = InWindow(a)
          BY <2>1, <3>1, <4>2 DEF Waiting, WindedUp, InWindow, RateTyped
        <5>2. IsFiniteSet(Waiting(a)) /\ Cardinality(Waiting(a)) \in Nat /\ Cardinality(InWindow(a)) \in Nat
              /\ Cardinality(Threads) \in Nat
          BY <2>1, RateFinite
        <5>3. Cardinality(Waiting(a)') \in Nat /\ Cardinality(Waiting(a)') <= Cardinality(Waiting(a))
          BY <5>1, <5>2, FS_Subset, FS_CardinalityType
        <5> QED
          BY <3>1, <4>2, <5>1, <5>2, <5>3, RateAssumption DEF WindedUp
      <4> QED
        BY <4>1, <4>2 DEF RateInv
    <3> QED
      BY <3>2, <3>3 DEF RateInv
  <2>5. ASSUME NEW r \in Threads, Allow(r) PROVE RateInv'
    <3>1. \A a \in 0..LastSecond : (Remembered(a) \/ WindedUp(a))'
      BY <2>1, <2>5, AllowCounts DEF RateInv
    <3> QED
      BY <2>1, <2>5, <3>1, AllowTyped DEF RateInv
  <2> QED
    BY <2>2, <2>3, <2>4, <2>5 DEF RateNext
<1>2. RateInv => QuotaHolds
  <2> SUFFICES ASSUME RateInv, NEW a \in 0..LastSecond
               PROVE  Cardinality(InWindow(a)) <= Quota + Cardinality(Threads) - 1
    BY DEF QuotaHolds
  <2>1. /\ Cardinality(InWindow(a)) \in Nat /\ Cardinality(Waiting(a)) \in Nat
        /\ Cardinality(Threads) \in Nat /\ Cardinality(Threads) >= 1 /\ Quota \in Nat
    BY RateFinite, RateAssumption DEF RateInv
  <2> QED
    BY <2>1 DEF RateInv, Remembered, WindedUp
<1> QED
  BY RateInitInv, <1>1, <1>2, PTL DEF RateSpec
=============================================================================
