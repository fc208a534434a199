-------------------------- MODULE MediaQuota_proofs --------------------------
(***************************************************************************)
(* Proofs about MediaQuota for any users, keys, costs, limits, months and  *)
(* environment: types, the limit of the month, what settles a reservation  *)
(* for good, and that the units a user has used are the units the rows of  *)
(* the month charge.                                                       *)
(*                                                                         *)
(* UsedIsCharged counts a set of units, so its proof follows the one row a *)
(* transaction changes: the units of that row join the set (a reservation, *)
(* a retry), leave it (a refund), or stay.  RowsFit, that no row is dearer *)
(* than its user's limit, makes the set hold all the units of a row, and   *)
(* makes the floor of the refund unreachable.                              *)
(*                                                                         *)
(* Then, for any instances of the parts of MCTools: what was delivered is  *)
(* charged, answers to questions are kept, and an intent runs once.        *)
(***************************************************************************)
EXTENDS MCTools, FiniteSetTheorems, TLAPS

\* The steps seen from the repository: one transaction on one store, or none.
Transaction ==
  \/ UNCHANGED <<used, reservation>>
  \/ \E b \in Backends, a \in Attempts :
       \/ InsertReservation(b, a)
       \/ Reactivate(b, a)
       \/ \E v \in {"finalized", "unknown", "failed"} : Finalize(b, KeyOf[a], v)

-----------------------------------------------------------------------------
(* Types.                                                                  *)

\* The repository keeps the types of its two tables.
BooksTyped ==
  /\ used \in [Backends -> [Users -> [Periods -> Nat]]]
  /\ reservation \in [Backends -> [Keys -> Row \cup {NoRow}]]

LEMMA PeriodsAreNumbers == 1 \in Periods /\ Periods \subseteq Nat
BY QuotaPeriods DEF Periods

LEMMA NoRowHasState == \A row \in Row \cup {NoRow} :
  /\ row = NoRow <=> row.state = "none"
  /\ row # NoRow <=> row \in Row
  /\ row # NoRow => row.state \in Charging \cup Refunded
BY DEF Row, NoRow, Charging, Refunded

LEMMA TransactionTyped ==
  ASSUME BooksTyped, period \in Periods, Transaction
  PROVE  BooksTyped'
<1>1. CASE UNCHANGED <<used, reservation>>
  BY <1>1 DEF BooksTyped
<1>2. ASSUME NEW b \in Backends, NEW a \in Attempts, InsertReservation(b, a)
      PROVE  BooksTyped'
  <2> DEFINE k == KeyOf[a]  u == UserOf[a]  n == UnitCosts[OperationOf[a]]
  <2>1. k \in Keys /\ u \in Users /\ OperationOf[a] \in Operations /\ n \in Nat
    BY QuotaKeys, QuotaUsers, QuotaOperations, QuotaCosts
  <2>2. used' = [used EXCEPT ![b][u][period] = @ + n]
    BY <1>2 DEF InsertReservation, Debits
  <2>3. used[b][u][period] + n \in Nat
    BY <2>1 DEF BooksTyped
  <2>4. used' \in [Backends -> [Users -> [Periods -> Nat]]]
    BY <2>1, <2>2, <2>3 DEF BooksTyped
  <2>5. [user |-> u, operation |-> OperationOf[a], units |-> n,
         period |-> period, state |-> "reserved"] \in Row
    BY <2>1 DEF Row, Charging
  <2>6. reservation' \in [Backends -> [Keys -> Row \cup {NoRow}]]
    BY <1>2, <2>1, <2>5 DEF BooksTyped, InsertReservation
  <2> QED BY <2>4, <2>6 DEF BooksTyped
<1>3. ASSUME NEW b \in Backends, NEW a \in Attempts, Reactivate(b, a)
      PROVE  BooksTyped'
  <2> DEFINE k == KeyOf[a]  row == reservation[b][k]
  <2>1. k \in Keys
    BY QuotaKeys
  <2>2. row \in Row
    BY <1>3, <2>1, NoRowHasState DEF BooksTyped, Reactivate, SameOperation
  <2>3. used' = [used EXCEPT ![b][row.user][period] = @ + row.units]
    BY <1>3 DEF Reactivate, Debits
  <2>4. row.user \in Users /\ used[b][row.user][period] + row.units \in Nat
    BY <2>2 DEF BooksTyped, Row
  <2>5. used' \in [Backends -> [Users -> [Periods -> Nat]]]
    BY <2>3, <2>4 DEF BooksTyped
  <2>6. [row EXCEPT !.state = "reserved", !.period = period] \in Row
    BY <2>2 DEF Row, Charging
  <2>7. reservation' = [reservation EXCEPT
          ![b][k] = [row EXCEPT !.state = "reserved", !.period = period]]
    BY <1>3, <2>1, <2>2 DEF Reactivate, BooksTyped, Row
  <2>8. reservation' \in [Backends -> [Keys -> Row \cup {NoRow}]]
    BY <2>1, <2>6, <2>7 DEF BooksTyped
  <2> QED BY <2>5, <2>8 DEF BooksTyped
<1>4. ASSUME NEW b \in Backends, NEW a \in Attempts,
             NEW v \in {"finalized", "unknown", "failed"}, Finalize(b, KeyOf[a], v)
      PROVE  BooksTyped'
  <2> DEFINE k == KeyOf[a]  row == reservation[b][k]
  <2>1. k \in Keys
    BY QuotaKeys
  <2>2. CASE ~(row # NoRow /\ row.state = "reserved")
    BY <1>4, <2>2 DEF Finalize, BooksTyped
  <2>3. CASE row # NoRow /\ row.state = "reserved"
    <3>1. row \in Row
      BY <2>1, <2>3, NoRowHasState DEF BooksTyped
    <3>2. [row EXCEPT !.state = v] \in Row
      BY <3>1 DEF Row, Charging, Refunded
    <3>3. reservation' = [reservation EXCEPT ![b][k] = [row EXCEPT !.state = v]]
      BY <1>4, <2>1, <2>3 DEF Finalize, BooksTyped
    <3>4. reservation' \in [Backends -> [Keys -> Row \cup {NoRow}]]
      BY <2>1, <3>2, <3>3 DEF BooksTyped
    <3>5. row.user \in Users /\ row.period \in Periods /\ row.units \in Nat
      BY <3>1 DEF Row
    <3>6. used[b][row.user][row.period] \in Nat
      BY <3>5 DEF BooksTyped
    <3> DEFINE left == IF used[b][row.user][row.period] > row.units
                       THEN used[b][row.user][row.period] - row.units ELSE 0
    <3>7. left \in Nat
      BY <3>5, <3>6
    <3>8. used' \in {used, [used EXCEPT ![b][row.user][row.period] = left]}
      BY <1>4, <2>3 DEF Finalize
    <3>9. [used EXCEPT ![b][row.user][row.period] = left]
            \in [Backends -> [Users -> [Periods -> Nat]]]
      <4> HIDE DEF left
      <4> QED BY <3>5, <3>7 DEF BooksTyped
    <3>10. used' \in [Backends -> [Users -> [Periods -> Nat]]]
      BY <3>8, <3>9 DEF BooksTyped
    <3> QED BY <3>4, <3>10 DEF BooksTyped
  <2> QED BY <2>2, <2>3
<1> QED BY <1>1, <1>2, <1>3, <1>4 DEF Transaction

\* What a step does to the repository, the storage, the month and the calls.
LEMMA StepsAreTransactions ==
  ASSUME TypeOK, Next
  PROVE  Transaction /\ storage' \in Backends /\ period' \in Periods
<1> USE DEF Transaction, TypeOK
<1>1. ASSUME NEW a \in Attempts, NEW b \in Backends, Reserve(a, b)
      PROVE  Transaction /\ UNCHANGED <<storage, period>>
  BY <1>1 DEF Reserve, ReadReservation
<1>2. ASSUME NEW a \in Attempts, Settles(a) \/ SettleInterrupted(a)
      PROVE  Transaction /\ UNCHANGED <<storage, period>>
  <2>1. call[a].store \in Backends /\ call[a].verdict \in {"finalized", "unknown", "failed"}
    BY DEF Call
  <2>2. CASE Settles(a)
    BY <2>1, <2>2 DEF Settles
  <2>3. CASE SettleInterrupted(a)
    BY <2>1, <2>3 DEF SettleInterrupted
  <2> QED BY <1>2, <2>2, <2>3
<1>3. ASSUME NEW a \in Attempts,
             \/ Refuse(a) \/ Submit(a) \/ ProviderReturns(a) \/ Save(a)
             \/ ReserveLost(a) \/ CancelCall(a)
      PROVE  UNCHANGED <<used, reservation, storage, period>>
  BY <1>3 DEF Refuse, Submit, ProviderReturns, Save, ReserveLost, CancelCall
<1>4. CASE Crash
  BY <1>4 DEF Crash
<1>5. CASE NextMonth
  BY <1>5, QuotaPeriods DEF NextMonth, Periods
<1>6. CASE SwitchStorage
  BY <1>6 DEF SwitchStorage
<1> QED BY <1>1, <1>2, <1>3, <1>4, <1>5, <1>6 DEF Next, Step

\* The calls keep their type.
LEMMA CallsTyped ==
  ASSUME TypeOK, Next
  PROVE  call' \in [Attempts -> Call]
<1> USE DEF TypeOK
<1>1. ASSUME NEW a \in Attempts, NEW b \in Backends, Reserve(a, b)
      PROVE  call' \in [Attempts -> Call]
  <2>1. PICK g \in BOOLEAN : Replies(a, b, g)
    BY <1>1 DEF Reserve
  <2> QED BY <2>1 DEF Replies, Call
<1>2. ASSUME NEW a \in Attempts,
             \/ Refuse(a) \/ Submit(a) \/ ProviderReturns(a) \/ Save(a)
             \/ Settles(a) \/ SettleInterrupted(a) \/ ReserveLost(a) \/ CancelCall(a)
      PROVE  call' \in [Attempts -> Call]
  <2>1. \/ \E pc \in {"calling", "ended", "saving", "delivered"} : Goto(a, pc)
        \/ \E pc \in {"settling", "excepting"}, v \in {"finalized", "unknown", "failed"} :
             Settle(a, pc, v)
    BY <1>2 DEF Refuse, Submit, ProviderReturns, Save, Settles, SettleInterrupted,
                ReserveLost, CancelCall
  <2>2. ASSUME NEW pc \in {"calling", "ended", "saving", "delivered"}, Goto(a, pc)
        PROVE  call' \in [Attempts -> Call]
    <3>1. [call[a] EXCEPT !.pc = pc] \in Call
      BY DEF Call, Finished
    <3> QED BY <2>2, <3>1 DEF Goto
  <2>3. ASSUME NEW pc \in {"settling", "excepting"},
               NEW v \in {"finalized", "unknown", "failed"}, Settle(a, pc, v)
        PROVE  call' \in [Attempts -> Call]
    <3>1. [call[a] EXCEPT !.pc = pc, !.verdict = v] \in Call
      BY DEF Call
    <3>2. call' = [call EXCEPT ![a] = [call[a] EXCEPT !.pc = pc, !.verdict = v]]
      BY <2>3 DEF Settle, Call
    <3> QED BY <3>1, <3>2
  <2> QED BY <2>1, <2>2, <2>3
<1>3. CASE Crash
  BY <1>3 DEF Crash, Call, Finished
<1>4. CASE NextMonth \/ SwitchStorage
  BY <1>4 DEF NextMonth, SwitchStorage
<1> QED BY <1>1, <1>2, <1>3, <1>4 DEF Next, Step

LEMMA TypeSplits == TypeOK <=>
  BooksTyped /\ storage \in Backends /\ period \in Periods /\ call \in [Attempts -> Call]
BY DEF TypeOK, BooksTyped

\* Every state of the quota and of the attempts is well typed.
THEOREM Typed == Spec => []TypeOK
<1>1. Init => TypeOK
  BY PeriodsAreNumbers DEF Init, TypeOK, Call, Backends, NoRow
<1>2. TypeOK /\ [Next]_vars => TypeOK'
  <2>1. ASSUME TypeOK, Next PROVE TypeOK'
    BY <2>1, StepsAreTransactions, CallsTyped, TransactionTyped, TypeSplits
    DEF TypeOK, BooksTyped
  <2>2. ASSUME TypeOK, UNCHANGED vars PROVE TypeOK'
    BY <2>2 DEF TypeOK, vars
  <2> QED BY <2>1, <2>2
<1> QED BY <1>1, <1>2, PTL DEF Spec

-----------------------------------------------------------------------------
(* The limit, and what is settled.                                         *)

LEMMA TransactionWithinLimit ==
  ASSUME BooksTyped, period \in Periods, WithinLimit, Transaction
  PROVE  WithinLimit'
<1>1. CASE UNCHANGED <<used, reservation>>
  BY <1>1 DEF WithinLimit
<1>2. ASSUME NEW b \in Backends, NEW u \in Users, NEW n \in Nat, Debits(b, u, n)
      PROVE  WithinLimit'
  BY <1>2 DEF Debits, WithinLimit, BooksTyped
<1>3. ASSUME NEW b \in Backends, NEW a \in Attempts, InsertReservation(b, a)
      PROVE  WithinLimit'
  BY <1>2, <1>3, QuotaUsers, QuotaOperations, QuotaCosts DEF InsertReservation
<1>4. ASSUME NEW b \in Backends, NEW a \in Attempts, Reactivate(b, a)
      PROVE  WithinLimit'
  <2>1. reservation[b][KeyOf[a]] \in Row
    BY <1>4, QuotaKeys, NoRowHasState DEF BooksTyped, Reactivate, SameOperation
  <2> QED BY <1>2, <1>4, <2>1 DEF Reactivate, Row
<1>5. ASSUME NEW b \in Backends, NEW a \in Attempts,
             NEW v \in {"finalized", "unknown", "failed"}, Finalize(b, KeyOf[a], v)
      PROVE  WithinLimit'
  <2> DEFINE row == reservation[b][KeyOf[a]]
  <2>1. CASE ~(row # NoRow /\ row.state = "reserved")
    BY <1>5, <2>1 DEF Finalize, WithinLimit
  <2>2. CASE row # NoRow /\ row.state = "reserved"
    <3>1. row \in Row
      BY <2>2, QuotaKeys, NoRowHasState DEF BooksTyped
    <3>2. row.user \in Users /\ row.period \in Periods /\ row.units \in Nat
      BY <3>1 DEF Row
    <3> DEFINE left == IF used[b][row.user][row.period] > row.units
                       THEN used[b][row.user][row.period] - row.units ELSE 0
    <3>3. used' \in {used, [used EXCEPT ![b][row.user][row.period] = left]}
      BY <1>5, <2>2 DEF Finalize
    <3>4. left <= Limit[row.user]
      BY <3>2, QuotaLimits DEF WithinLimit, BooksTyped
    <3> HIDE DEF left
    <3>5. SUFFICES ASSUME NEW c \in Backends, NEW u \in Users, NEW p \in Periods
                   PROVE  used'[c][u][p] <= Limit[u]
      BY DEF WithinLimit
    <3>6. CASE used' = used
      BY <3>6 DEF WithinLimit
    <3>7. CASE used' = [used EXCEPT ![b][row.user][row.period] = left]
      <4>1. used'[c][u][p] \in {used[c][u][p], left}
        BY <3>7 DEF BooksTyped
      <4>2. c # b \/ u # row.user \/ p # row.period => used'[c][u][p] = used[c][u][p]
        BY <3>7 DEF BooksTyped
      <4> QED BY <3>4, <4>1, <4>2 DEF WithinLimit
    <3> QED BY <3>3, <3>6, <3>7
  <2> QED BY <2>1, <2>2
<1> QED BY <1>1, <1>3, <1>4, <1>5 DEF Transaction

\* No month of any user exceeds the limit in any store, whatever runs in
\* parallel, is retried, cancelled or lost in a crash.
THEOREM LimitHolds == Spec => []WithinLimit
<1>1. Init => WithinLimit
  BY QuotaLimits DEF Init, WithinLimit
<1>2. TypeOK /\ WithinLimit /\ [Next]_vars => WithinLimit'
  <2>1. ASSUME TypeOK, WithinLimit, Next PROVE WithinLimit'
    BY <2>1, StepsAreTransactions, TransactionWithinLimit, TypeSplits
  <2>2. ASSUME WithinLimit, UNCHANGED vars PROVE WithinLimit'
    BY <2>2 DEF WithinLimit, vars
  <2> QED BY <2>1, <2>2
<1> QED BY <1>1, <1>2, Typed, PTL DEF Spec

SettledStays ==
  \A b \in Backends, k \in Keys :
    reservation[b][k] # NoRow /\ reservation[b][k].state \in {"finalized", "unknown"}
      => reservation'[b][k] = reservation[b][k]

LEMMA StepsKeepSettled ==
  ASSUME TypeOK, Next
  PROVE  SettledStays
<1>1. Transaction
  BY StepsAreTransactions
<1>2. SUFFICES ASSUME NEW b \in Backends, NEW a \in Attempts,
                      \/ InsertReservation(b, a)
                      \/ Reactivate(b, a)
                      \/ \E v \in {"finalized", "unknown", "failed"} :
                           Finalize(b, KeyOf[a], v)
               PROVE  SettledStays
  BY <1>1 DEF Transaction, SettledStays
<1> DEFINE row == reservation[b][KeyOf[a]]
<1>3. \A c \in Backends, k \in Keys :
        c # b \/ k # KeyOf[a] => reservation'[c][k] = reservation[c][k]
  <2>1. reservation \in [Backends -> [Keys -> Row \cup {NoRow}]] /\ KeyOf[a] \in Keys
    BY QuotaKeys DEF TypeOK
  <2>2. CASE InsertReservation(b, a)
    BY <2>1, <2>2 DEF InsertReservation
  <2>3. CASE Reactivate(b, a)
    BY <2>1, <2>3 DEF Reactivate
  <2>4. ASSUME NEW v, Finalize(b, KeyOf[a], v)
        PROVE  \A c \in Backends, k \in Keys :
                 c # b \/ k # KeyOf[a] => reservation'[c][k] = reservation[c][k]
    BY <2>1, <2>4 DEF Finalize
  <2> QED BY <1>2, <2>2, <2>3, <2>4
<1>4. \/ reservation' = reservation
      \/ row = NoRow
      \/ row.state \notin {"finalized", "unknown"}
  BY <1>2 DEF InsertReservation, Reactivate, Finalize, Refunded
<1> QED BY <1>3, <1>4, QuotaKeys DEF SettledStays, TypeOK

\* A key that was finalized, or whose outcome is unknown, stays so in its
\* store: no retry, refund or second verdict reopens it.
THEOREM SettledForGood == Spec => SettledIsFinal
<1>1. TypeOK /\ [Next]_vars => [SettledStays]_vars
  BY StepsKeepSettled
<1>2. [][SettledStays]_vars => SettledIsFinal
  BY DEF SettledStays, SettledIsFinal
<1> QED BY <1>1, <1>2, Typed, PTL DEF Spec

-----------------------------------------------------------------------------
(* What is used is what is charged.                                        *)

\* No row is dearer than its user's limit.
RowsFit ==
  \A b \in Backends, k \in Keys :
    reservation[b][k] # NoRow
      => reservation[b][k].units <= Limit[reservation[b][k].user]

\* UsedIsCharged, of a finite set.
Booked ==
  \A b \in Backends, u \in Users, p \in Periods :
    /\ IsFiniteSet(ChargedUnits(b, u, p))
    /\ used[b][u][p] = Cardinality(ChargedUnits(b, u, p))

QuotaInv == TypeOK /\ WithinLimit /\ RowsFit /\ Booked

UnitsOf(k, n) == {k} \X (1..n)

LEMMA UnitsOfCounted ==
  ASSUME NEW k, NEW n \in Nat
  PROVE  IsFiniteSet(UnitsOf(k, n)) /\ Cardinality(UnitsOf(k, n)) = n
<1>1. IsFiniteSet({k}) /\ Cardinality({k}) = 1
  BY FS_Singleton
<1>2. IsFiniteSet(1..n) /\ Cardinality(1..n) = n
  BY FS_Interval
<1>3. /\ IsFiniteSet({k} \X (1..n))
      /\ Cardinality({k} \X (1..n)) = Cardinality({k}) * Cardinality(1..n)
  BY <1>1, <1>2, FS_Product
<1> QED BY <1>1, <1>2, <1>3 DEF UnitsOf

\* Units that join a set of others, and units that leave theirs.
LEMMA UnitsJoin ==
  ASSUME NEW S, IsFiniteSet(S), NEW k, NEW n \in Nat, S \cap UnitsOf(k, n) = {}
  PROVE  /\ IsFiniteSet(S \cup UnitsOf(k, n))
         /\ Cardinality(S \cup UnitsOf(k, n)) = Cardinality(S) + n
<1>1. Cardinality({}) = 0 /\ Cardinality(S) \in Nat
  BY FS_EmptySet, FS_CardinalityType
<1> QED BY <1>1, UnitsOfCounted, FS_Union

LEMMA UnitsLeave ==
  ASSUME NEW S, IsFiniteSet(S), NEW k, NEW n \in Nat, UnitsOf(k, n) \subseteq S
  PROVE  /\ IsFiniteSet(S \ UnitsOf(k, n))
         /\ Cardinality(S \ UnitsOf(k, n)) = Cardinality(S) - n
         /\ n <= Cardinality(S)
<1>1. S \cap UnitsOf(k, n) = UnitsOf(k, n)
  OBVIOUS
<1>2. n <= Cardinality(S)
  BY UnitsOfCounted, FS_Subset
<1>3. /\ IsFiniteSet(S \ UnitsOf(k, n))
      /\ Cardinality(S \ UnitsOf(k, n))
           = Cardinality(S) - Cardinality(S \cap UnitsOf(k, n))
  BY FS_Difference
<1> QED BY <1>1, <1>2, <1>3, UnitsOfCounted

\* A row that charges has all of its units in the set of its month, and a
\* row has none in the set of another month or user, or when it is refunded.
RowCharges(b, k, u, p) ==
  /\ reservation[b][k] \in Row
  /\ reservation[b][k].state \in Charging
  /\ reservation[b][k].user = u
  /\ reservation[b][k].period = p

SetMatchesRows ==
  \A b \in Backends, k \in Keys, u \in Users, p \in Periods :
    /\ RowCharges(b, k, u, p)
         => UnitsOf(k, reservation[b][k].units) \subseteq ChargedUnits(b, u, p)
    /\ \A x \in ChargedUnits(b, u, p) :
         /\ RowCharges(b, x[1], u, p)
         /\ x \in UnitsOf(x[1], reservation[b][x[1]].units)

LEMMA UnitsInTheSet == BooksTyped /\ RowsFit => SetMatchesRows
<1> SUFFICES ASSUME BooksTyped, RowsFit, NEW b \in Backends, NEW k \in Keys,
                    NEW u \in Users, NEW p \in Periods
             PROVE  /\ RowCharges(b, k, u, p)
                         => UnitsOf(k, reservation[b][k].units)
                              \subseteq ChargedUnits(b, u, p)
                    /\ \A x \in ChargedUnits(b, u, p) :
                         /\ RowCharges(b, x[1], u, p)
                         /\ x \in UnitsOf(x[1], reservation[b][x[1]].units)
  BY DEF SetMatchesRows
<1>1. ASSUME RowCharges(b, k, u, p)
      PROVE  UnitsOf(k, reservation[b][k].units) \subseteq ChargedUnits(b, u, p)
  <2>1. reservation[b][k] # NoRow /\ reservation[b][k].units \in Nat
    BY <1>1, NoRowHasState DEF RowCharges, Row
  <2>2. reservation[b][k].units <= Limit[u] /\ Limit[u] \in Nat
    BY <1>1, <2>1, QuotaLimits DEF RowsFit, RowCharges
  <2> QED BY <1>1, <2>1, <2>2 DEF UnitsOf, ChargedUnits, RowCharges
<1>2. ASSUME NEW x \in ChargedUnits(b, u, p)
      PROVE  /\ RowCharges(b, x[1], u, p)
             /\ x \in UnitsOf(x[1], reservation[b][x[1]].units)
  <2>1. x \in Keys \X (1..Limit[u]) /\ reservation[b][x[1]] # NoRow
    BY <1>2 DEF ChargedUnits
  <2>2. reservation[b][x[1]] \in Row
    BY <2>1, NoRowHasState DEF BooksTyped
  <2> QED BY <1>2, <2>1, <2>2, QuotaLimits DEF ChargedUnits, RowCharges, UnitsOf, Row
<1> QED BY <1>1, <1>2

LEMMA UnitsInTheNextSet == BooksTyped' /\ RowsFit' => SetMatchesRows'
BY UnitsInTheSet, PTL

\* The rows of the other keys of the store, and of the other store, stay.
OnlyRow(b, k) ==
  \A c \in Backends, j \in Keys :
    c # b \/ j # k => reservation'[c][j] = reservation[c][j]

LEMMA OtherUnitsStay ==
  ASSUME NEW b \in Backends, NEW k \in Keys, OnlyRow(b, k),
         NEW c \in Backends, NEW u \in Users, NEW p \in Periods
  PROVE  /\ \A x \in Keys \X (1..Limit[u]) :
              c # b \/ x[1] # k
                => (x \in ChargedUnits(c, u, p) <=> x \in ChargedUnits(c, u, p)')
         /\ c # b => ChargedUnits(c, u, p)' = ChargedUnits(c, u, p)
<1>1. ASSUME NEW x \in Keys \X (1..Limit[u]), c # b \/ x[1] # k
      PROVE  x \in ChargedUnits(c, u, p) <=> x \in ChargedUnits(c, u, p)'
  <2>1. reservation'[c][x[1]] = reservation[c][x[1]]
    BY <1>1 DEF OnlyRow
  <2> QED BY <2>1 DEF ChargedUnits
<1>2. /\ ChargedUnits(c, u, p) \subseteq Keys \X (1..Limit[u])
      /\ ChargedUnits(c, u, p)' \subseteq Keys \X (1..Limit[u])
  BY DEF ChargedUnits
<1> QED BY <1>1, <1>2

LEMMA PairsOfUnits ==
  ASSUME NEW b \in Backends, NEW u \in Users, NEW p \in Periods
  PROVE  /\ \A x \in ChargedUnits(b, u, p) : x = <<x[1], x[2]>>
         /\ \A x \in ChargedUnits(b, u, p)' : x = <<x[1], x[2]>>
         /\ ChargedUnits(b, u, p) \subseteq Keys \X (1..Limit[u])
         /\ ChargedUnits(b, u, p)' \subseteq Keys \X (1..Limit[u])
BY DEF ChargedUnits

\* What the three lemmas below share: the set of a user and month the row of
\* key k charges neither before nor after stays as it is.
LEMMA UntouchedStays ==
  ASSUME BooksTyped, BooksTyped', RowsFit, RowsFit',
         NEW b \in Backends, NEW k \in Keys, OnlyRow(b, k),
         NEW c \in Backends, NEW u \in Users, NEW p \in Periods,
         c # b \/ (~RowCharges(b, k, u, p) /\ ~RowCharges(b, k, u, p)')
  PROVE  ChargedUnits(c, u, p)' = ChargedUnits(c, u, p)
<1>1. CASE c # b
  BY <1>1, OtherUnitsStay
<1>2. CASE c = b /\ ~RowCharges(b, k, u, p) /\ ~RowCharges(b, k, u, p)'
  <2>1. /\ \A x \in ChargedUnits(c, u, p) : x[1] # k
        /\ \A x \in ChargedUnits(c, u, p)' : x[1] # k
    BY <1>2, UnitsInTheSet, UnitsInTheNextSet DEF SetMatchesRows
  <2> QED BY <2>1, OtherUnitsStay, PairsOfUnits
<1> QED BY <1>1, <1>2

\* The units of a row join the set of its month: a reservation or a retry.
LEMMA JoinKeepsBooked ==
  ASSUME BooksTyped, BooksTyped', RowsFit, RowsFit', Booked,
         NEW b \in Backends, NEW k \in Keys, OnlyRow(b, k),
         NEW u \in Users, NEW p \in Periods, NEW n \in Nat,
         \A v \in Users, q \in Periods : ~RowCharges(b, k, v, q),
         RowCharges(b, k, u, p)', reservation'[b][k].units = n,
         used' = [used EXCEPT ![b][u][p] = @ + n]
  PROVE  Booked'
<1> SUFFICES ASSUME NEW c \in Backends, NEW v \in Users, NEW q \in Periods
             PROVE  /\ IsFiniteSet(ChargedUnits(c, v, q)')
                    /\ used'[c][v][q] = Cardinality(ChargedUnits(c, v, q)')
  BY DEF Booked
<1>1. /\ IsFiniteSet(ChargedUnits(c, v, q))
      /\ used[c][v][q] = Cardinality(ChargedUnits(c, v, q))
  BY DEF Booked
<1>2. CASE c # b \/ v # u \/ q # p
  <2>1. used'[c][v][q] = used[c][v][q]
    BY <1>2 DEF BooksTyped
  <2>2. c # b \/ (~RowCharges(b, k, v, q) /\ ~RowCharges(b, k, v, q)')
    BY <1>2 DEF RowCharges
  <2> QED BY <1>1, <2>1, <2>2, UntouchedStays
<1>3. CASE c = b /\ v = u /\ q = p
  <2>1. /\ \A x \in ChargedUnits(c, v, q) : x[1] # k
        /\ UnitsOf(k, n) \subseteq ChargedUnits(c, v, q)'
        /\ \A x \in ChargedUnits(c, v, q)' : x[1] = k => x \in UnitsOf(k, n)
    BY <1>3, UnitsInTheSet, UnitsInTheNextSet DEF SetMatchesRows
  <2>2. \A x \in UnitsOf(k, n) : x[1] = k
    BY DEF UnitsOf
  <2>3. /\ ChargedUnits(c, v, q)' = ChargedUnits(c, v, q) \cup UnitsOf(k, n)
        /\ ChargedUnits(c, v, q) \cap UnitsOf(k, n) = {}
    BY <2>1, <2>2, OtherUnitsStay, PairsOfUnits
  <2>4. used'[c][v][q] = used[c][v][q] + n
    BY <1>3 DEF BooksTyped
  <2> QED BY <1>1, <2>3, <2>4, UnitsJoin
<1> QED BY <1>2, <1>3

\* They leave it: a refund.
LEMMA LeaveKeepsBooked ==
  ASSUME BooksTyped, BooksTyped', RowsFit, RowsFit', Booked,
         NEW b \in Backends, NEW k \in Keys, OnlyRow(b, k),
         NEW u \in Users, NEW p \in Periods, NEW n \in Nat,
         RowCharges(b, k, u, p), reservation[b][k].units = n,
         \A v \in Users, q \in Periods : ~RowCharges(b, k, v, q)',
         used' = [used EXCEPT ![b][u][p] = IF @ > n THEN @ - n ELSE 0]
  PROVE  Booked'
<1> SUFFICES ASSUME NEW c \in Backends, NEW v \in Users, NEW q \in Periods
             PROVE  /\ IsFiniteSet(ChargedUnits(c, v, q)')
                    /\ used'[c][v][q] = Cardinality(ChargedUnits(c, v, q)')
  BY DEF Booked
<1>1. /\ IsFiniteSet(ChargedUnits(c, v, q))
      /\ used[c][v][q] = Cardinality(ChargedUnits(c, v, q))
  BY DEF Booked
<1>2. CASE c # b \/ v # u \/ q # p
  <2>1. used'[c][v][q] = used[c][v][q]
    BY <1>2 DEF BooksTyped
  <2>2. c # b \/ (~RowCharges(b, k, v, q) /\ ~RowCharges(b, k, v, q)')
    BY <1>2 DEF RowCharges
  <2> QED BY <1>1, <2>1, <2>2, UntouchedStays
<1>3. CASE c = b /\ v = u /\ q = p
  <2>1. /\ \A x \in ChargedUnits(c, v, q)' : x[1] # k
        /\ UnitsOf(k, n) \subseteq ChargedUnits(c, v, q)
        /\ \A x \in ChargedUnits(c, v, q) : x[1] = k => x \in UnitsOf(k, n)
    BY <1>3, UnitsInTheSet, UnitsInTheNextSet DEF SetMatchesRows
  <2>2. \A x \in UnitsOf(k, n) : x[1] = k
    BY DEF UnitsOf
  <2>3. ChargedUnits(c, v, q)' = ChargedUnits(c, v, q) \ UnitsOf(k, n)
    BY <2>1, <2>2, OtherUnitsStay, PairsOfUnits
  <2>4. /\ IsFiniteSet(ChargedUnits(c, v, q)')
        /\ Cardinality(ChargedUnits(c, v, q)') = used[c][v][q] - n
        /\ n <= used[c][v][q]
    BY <1>1, <2>1, <2>3, UnitsLeave
  <2>5. used'[c][v][q] = used[c][v][q] - n
    <3>1. used[b][u][p] \in Nat
      BY DEF BooksTyped
    <3>2. used'[b][u][p] = IF used[b][u][p] > n THEN used[b][u][p] - n ELSE 0
      BY DEF BooksTyped
    <3> QED BY <1>3, <2>4, <3>1, <3>2
  <2> QED BY <2>4, <2>5
<1> QED BY <1>2, <1>3

\* They stay: a verdict that charges.
LEMMA VerdictKeepsBooked ==
  ASSUME BooksTyped, BooksTyped', Booked,
         NEW b \in Backends, NEW k \in Keys, OnlyRow(b, k),
         reservation[b][k] \in Row, reservation[b][k].state \in Charging,
         NEW s \in Charging,
         reservation'[b][k] = [reservation[b][k] EXCEPT !.state = s],
         used' = used
  PROVE  Booked'
<1>1. ASSUME NEW c \in Backends, NEW u \in Users, NEW p \in Periods
      PROVE  ChargedUnits(c, u, p)' = ChargedUnits(c, u, p)
  <2>1. reservation[b][k] # NoRow /\ reservation'[b][k] # NoRow
    BY NoRowHasState DEF Row, NoRow
  <2>2. \A x \in Keys \X (1..Limit[u]) : c = b /\ x[1] = k =>
          (x \in ChargedUnits(c, u, p) <=> x \in ChargedUnits(c, u, p)')
    BY <2>1 DEF ChargedUnits, Row
  <2>3. \A x \in Keys \X (1..Limit[u]) : c # b \/ x[1] # k =>
          (x \in ChargedUnits(c, u, p) <=> x \in ChargedUnits(c, u, p)')
    BY OtherUnitsStay
  <2> QED BY <2>2, <2>3, PairsOfUnits
<1> QED BY <1>1 DEF Booked

\* Every transaction changes one row, and fits and books it.
LEMMA TransactionBooks ==
  ASSUME BooksTyped, BooksTyped', period \in Periods, WithinLimit, RowsFit, Booked,
         Transaction
  PROVE  RowsFit' /\ Booked'
<1>1. CASE UNCHANGED <<used, reservation>>
  BY <1>1 DEF RowsFit, Booked, ChargedUnits
<1>2. ASSUME NEW b \in Backends, NEW a \in Attempts, InsertReservation(b, a)
      PROVE  RowsFit' /\ Booked'
  <2> DEFINE k == KeyOf[a]  u == UserOf[a]  n == UnitCosts[OperationOf[a]]
  <2>1. k \in Keys /\ u \in Users /\ n \in Nat /\ Limit[u] \in Nat
    BY QuotaKeys, QuotaUsers, QuotaOperations, QuotaCosts, QuotaLimits
  <2>2. /\ reservation[b][k] = NoRow
        /\ used[b][u][period] + n <= Limit[u]
        /\ used' = [used EXCEPT ![b][u][period] = @ + n]
    BY <1>2 DEF InsertReservation, Debits
  <2>3. /\ OnlyRow(b, k)
        /\ reservation'[b][k] = [user |-> u, operation |-> OperationOf[a], units |-> n,
                                 period |-> period, state |-> "reserved"]
    BY <1>2, <2>1 DEF InsertReservation, OnlyRow, BooksTyped
  <2>4. RowsFit'
    <3>1. n <= Limit[u]
      BY <2>1, <2>2 DEF BooksTyped
    <3> QED BY <2>3, <3>1 DEF RowsFit, OnlyRow
  <2>5. \A v \in Users, q \in Periods : ~RowCharges(b, k, v, q)
    BY <2>2, NoRowHasState DEF RowCharges, Charging, NoRow
  <2>6. PICK q \in Periods : q = period
    OBVIOUS
  <2>7. reservation'[b][k] \in Row
    BY <2>1, <2>3, QuotaOperations DEF Row, Charging
  <2>8. RowCharges(b, k, u, q)'
    BY <2>3, <2>6, <2>7 DEF RowCharges, Charging
  <2>9. /\ reservation'[b][k].units = n
        /\ used' = [used EXCEPT ![b][u][q] = @ + n]
    BY <2>2, <2>3, <2>6
  <2>10. OnlyRow(b, k)
    BY <2>3
  <2> HIDE DEF k, u, n
  <2> QED BY <2>1, <2>4, <2>5, <2>8, <2>9, <2>10, JoinKeepsBooked
<1>3. ASSUME NEW b \in Backends, NEW a \in Attempts, Reactivate(b, a)
      PROVE  RowsFit' /\ Booked'
  <2> DEFINE k == KeyOf[a]  row == reservation[b][k]
  <2>1. k \in Keys /\ row \in Row /\ row # NoRow
    BY <1>3, QuotaKeys, NoRowHasState DEF BooksTyped, Reactivate, SameOperation
  <2>2. /\ row.state \in Refunded
        /\ used' = [used EXCEPT ![b][row.user][period] = @ + row.units]
    BY <1>3 DEF Reactivate, Debits
  <2>3. OnlyRow(b, k)
    BY <1>3, <2>1 DEF Reactivate, OnlyRow, BooksTyped
  <2>4. reservation'[b][k] = [row EXCEPT !.state = "reserved", !.period = period]
    BY <1>3, <2>1 DEF Reactivate, BooksTyped, Row
  <2>5. RowsFit'
    <3>1. reservation'[b][k].units = row.units /\ reservation'[b][k].user = row.user
      BY <2>1, <2>4 DEF Row
    <3> QED BY <2>1, <2>3, <3>1 DEF RowsFit, OnlyRow
  <2>6. \A v \in Users, q \in Periods : ~RowCharges(b, k, v, q)
    BY <2>2 DEF RowCharges, Charging, Refunded
  <2>7. PICK u \in Users, q \in Periods, n \in Nat :
          u = row.user /\ q = period /\ n = row.units
    BY <2>1 DEF Row
  <2>8. reservation'[b][k] \in Row
    BY <2>1, <2>4 DEF Row, Charging
  <2>9. RowCharges(b, k, u, q)' /\ reservation'[b][k].units = n
    BY <2>1, <2>4, <2>7, <2>8 DEF RowCharges, Charging, Row
  <2> QED BY <2>1, <2>2, <2>3, <2>5, <2>6, <2>7, <2>9, JoinKeepsBooked
<1>4. ASSUME NEW b \in Backends, NEW a \in Attempts,
             NEW v \in {"finalized", "unknown", "failed"}, Finalize(b, KeyOf[a], v)
      PROVE  RowsFit' /\ Booked'
  <2> DEFINE k == KeyOf[a]  row == reservation[b][k]
  <2>1. k \in Keys
    BY QuotaKeys
  <2>2. CASE ~(row # NoRow /\ row.state = "reserved")
    BY <1>1, <1>4, <2>2 DEF Finalize
  <2>3. CASE row # NoRow /\ row.state = "reserved"
    <3>1. row \in Row
      BY <2>1, <2>3, NoRowHasState DEF BooksTyped
    <3>2. OnlyRow(b, k) /\ reservation'[b][k] = [row EXCEPT !.state = v]
      BY <1>4, <2>1, <2>3, <3>1 DEF Finalize, OnlyRow, BooksTyped
    <3>3. RowsFit'
      BY <2>3, <3>1, <3>2 DEF RowsFit, OnlyRow, Row
    <3>4. CASE v = "failed"
      <4>0. PICK u \in Users, q \in Periods, n \in Nat :
              u = row.user /\ q = row.period /\ n = row.units
        BY <3>1 DEF Row
      <4>1. used' = [used EXCEPT ![b][u][q] = IF @ > n THEN @ - n ELSE 0]
        BY <1>4, <2>3, <3>4, <4>0 DEF Finalize, Refunded
      <4>2. RowCharges(b, k, u, q)
        BY <2>3, <3>1, <4>0 DEF RowCharges, Charging
      <4>3. \A w \in Users, x \in Periods : ~RowCharges(b, k, w, x)'
        BY <3>1, <3>2, <3>4 DEF RowCharges, Charging, Row
      <4> QED BY <2>1, <3>2, <3>3, <4>0, <4>1, <4>2, <4>3,
                 LeaveKeepsBooked
    <3>5. CASE v \in {"finalized", "unknown"}
      <4>1. used' = used /\ v \in Charging /\ row.state \in Charging
        BY <1>4, <2>3, <3>5 DEF Finalize, Refunded, Charging
      <4> QED BY <2>1, <3>1, <3>2, <3>3, <4>1, VerdictKeepsBooked
    <3> QED BY <3>4, <3>5
  <2> QED BY <2>2, <2>3
<1> QED BY <1>1, <1>2, <1>3, <1>4 DEF Transaction

LEMMA QuotaInvHolds == Spec => []QuotaInv
<1>1. Init => QuotaInv
  <2> SUFFICES ASSUME Init PROVE RowsFit /\ Booked /\ TypeOK /\ WithinLimit
    BY DEF QuotaInv
  <2>1. RowsFit
    BY DEF Init, RowsFit
  <2>2. \A b \in Backends, u \in Users, p \in Periods : ChargedUnits(b, u, p) = {}
    BY DEF Init, ChargedUnits
  <2>3. Booked
    BY <2>2, FS_EmptySet DEF Init, Booked
  <2>4. TypeOK /\ WithinLimit
    BY PeriodsAreNumbers, QuotaLimits DEF Init, TypeOK, Call, Backends, NoRow, WithinLimit
  <2> QED BY <2>1, <2>3, <2>4
<1>2. QuotaInv /\ TypeOK' /\ WithinLimit' /\ [Next]_vars => QuotaInv'
  <2>1. ASSUME QuotaInv, TypeOK', WithinLimit', Next PROVE QuotaInv'
    <3>1. BooksTyped' /\ BooksTyped /\ period \in Periods
      BY <2>1 DEF QuotaInv, TypeOK, BooksTyped
    <3> QED BY <2>1, <3>1, StepsAreTransactions, TransactionBooks DEF QuotaInv
  <2>2. ASSUME QuotaInv, TypeOK', WithinLimit', UNCHANGED vars PROVE QuotaInv'
    BY <2>2 DEF QuotaInv, RowsFit, Booked, ChargedUnits, vars
  <2> QED BY <2>1, <2>2
<1> QED BY <1>1, <1>2, Typed, LimitHolds, PTL DEF Spec

\* What a user has used in a month is, in every state and each store, the
\* number of units the rows of that month charge.
THEOREM UsageIsCharged == Spec => []UsedIsCharged
<1>1. QuotaInv => UsedIsCharged
  BY DEF QuotaInv, Booked, UsedIsCharged
<1> QED BY <1>1, QuotaInvHolds, PTL

OwnMonthRefunded ==
  \A b \in Backends, u \in Users, p \in Periods :
    used'[b][u][p] < used[b][u][p]
      => \E k \in Keys :
           /\ reservation[b][k] # NoRow
           /\ reservation[b][k].user = u /\ reservation[b][k].period = p
           /\ reservation[b][k].state = "reserved"
           /\ reservation'[b][k].state \in Refunded
           /\ used[b][u][p] - used'[b][u][p] = reservation[b][k].units

\* A verdict refunds the month that was debited, and what was debited: the
\* floor of the refund at zero is never reached.
THEOREM RefundIsExact == Spec => RefundsOwnMonth
<1>1. QuotaInv /\ [Next]_vars => [OwnMonthRefunded]_vars
  <2> SUFFICES ASSUME QuotaInv, Next PROVE OwnMonthRefunded
    OBVIOUS
  <2>1. BooksTyped /\ RowsFit /\ Booked /\ period \in Periods /\ Transaction
    BY StepsAreTransactions DEF QuotaInv, TypeOK, BooksTyped
  <2> SUFFICES ASSUME NEW c \in Backends, NEW u \in Users, NEW p \in Periods,
                      used'[c][u][p] < used[c][u][p]
               PROVE  \E k \in Keys :
                        /\ reservation[c][k] # NoRow
                        /\ reservation[c][k].user = u /\ reservation[c][k].period = p
                        /\ reservation[c][k].state = "reserved"
                        /\ reservation'[c][k].state \in Refunded
                        /\ used[c][u][p] - used'[c][u][p] = reservation[c][k].units
    BY DEF OwnMonthRefunded
  <2>2. used[c][u][p] \in Nat
    BY <2>1 DEF BooksTyped
  <2>3. ASSUME NEW b \in Backends, NEW v \in Users, NEW n \in Nat, Debits(b, v, n)
        PROVE  FALSE
    BY <2>1, <2>2, <2>3 DEF Debits, BooksTyped
  <2>4. ASSUME NEW b \in Backends, NEW a \in Attempts, InsertReservation(b, a)
        PROVE  FALSE
    BY <2>3, <2>4, QuotaUsers, QuotaOperations, QuotaCosts DEF InsertReservation
  <2>5. ASSUME NEW b \in Backends, NEW a \in Attempts, Reactivate(b, a)
        PROVE  FALSE
    <3>1. reservation[b][KeyOf[a]] \in Row
      BY <2>1, <2>5, QuotaKeys, NoRowHasState DEF BooksTyped, Reactivate, SameOperation
    <3> QED BY <2>3, <2>5, <3>1 DEF Reactivate, Row
  <2>6. PICK b \in Backends, a \in Attempts, v \in {"finalized", "unknown", "failed"} :
          Finalize(b, KeyOf[a], v) /\ used' # used
    BY <2>1, <2>2, <2>4, <2>5 DEF Transaction
  <2> DEFINE k == KeyOf[a]  row == reservation[b][k]
  <2>7. /\ row # NoRow /\ row.state = "reserved" /\ v \in Refunded
        /\ reservation' = [reservation EXCEPT ![b][k].state = v]
        /\ used' = [used EXCEPT ![b][row.user][row.period] =
                       IF @ > row.units THEN @ - row.units ELSE 0]
    BY <2>6 DEF Finalize
  <2>8. k \in Keys /\ row \in Row
    BY <2>1, <2>7, QuotaKeys, NoRowHasState DEF BooksTyped
  <2>9. b = c /\ row.user = u /\ row.period = p
    <3>1. PICK x : used' = [used EXCEPT ![b][row.user][row.period] = x]
      BY <2>7
    <3>2. PICK w \in Users, q \in Periods : w = row.user /\ q = row.period
      BY <2>8 DEF Row
    <3>3. used' = [used EXCEPT ![b][w][q] = x]
      BY <3>1, <3>2
    <3>4. b # c \/ w # u \/ q # p => used'[c][u][p] = used[c][u][p]
      BY <2>1, <3>3 DEF BooksTyped
    <3> QED BY <2>2, <3>2, <3>4
  <2>10. reservation'[b][k].state = v
    BY <2>1, <2>7, <2>8 DEF BooksTyped, Row
  <2>11. row.units \in Nat /\ row.units <= used[b][u][p]
    <3>1. RowCharges(b, k, u, p)
      BY <2>7, <2>8, <2>9 DEF RowCharges, Charging
    <3>2. UnitsOf(k, row.units) \subseteq ChargedUnits(b, u, p)
      BY <2>1, <2>8, <3>1, UnitsInTheSet DEF SetMatchesRows
    <3>3. row.units \in Nat
      BY <2>8 DEF Row
    <3>4. PICK n \in Nat : n = row.units
      BY <3>3
    <3>5. /\ IsFiniteSet(ChargedUnits(b, u, p))
          /\ used[b][u][p] = Cardinality(ChargedUnits(b, u, p))
      BY <2>1 DEF Booked
    <3>6. UnitsOf(k, n) \subseteq ChargedUnits(b, u, p)
      BY <3>2, <3>4
    <3>7. n <= Cardinality(ChargedUnits(b, u, p))
      BY <3>5, <3>6, UnitsLeave
    <3> QED BY <3>3, <3>4, <3>5, <3>7
  <2>12. used'[b][u][p] = IF used[b][u][p] > row.units THEN used[b][u][p] - row.units ELSE 0
    BY <2>1, <2>7, <2>9 DEF BooksTyped
  <2>13. used[b][u][p] - used'[b][u][p] = row.units
    BY <2>2, <2>9, <2>11, <2>12
  <2> QED BY <2>7, <2>8, <2>9, <2>10, <2>13
<1>2. [][OwnMonthRefunded]_vars => RefundsOwnMonth
  BY DEF OwnMonthRefunded, RefundsOwnMonth
<1> QED BY <1>1, <1>2, QuotaInvHolds, PTL DEF Spec

\* In every state and each store, usage is what is charged, within the limit.
THEOREM AccountsAlwaysAgree == Spec => []AccountsAgree
<1>1. UsedIsCharged /\ WithinLimit => AccountsAgree
  BY DEF AccountsAgree
<1> QED BY <1>1, UsageIsCharged, LimitHolds, PTL

\* A verdict is final and refunds exactly what its reservation debited.
THEOREM VerdictsAlwaysSettle == Spec => VerdictsSettle
BY SettledForGood, RefundIsExact DEF VerdictsSettle

-----------------------------------------------------------------------------
(* Deliveries.  Where attempts with one key do not overlap, an attempt     *)
(* that may still deliver holds an open row, which only it can settle; and *)
(* where nothing is cut short, an open row has an attempt that settles it. *)

Working(a) == call[a].pc \notin {"idle"} \cup Finished

\* No attempt with the key of a is at work.
Alone(a) == \A o \in Attempts \ {a} : KeyOf[o] = KeyOf[a] => ~Working(o)

\* The row of the key of an attempt, in its store.
RowOf(a) == reservation[call[a].store][KeyOf[a]]

\* Steps of a quota without overlaps, and of one where nothing is cut short.
RetriesNext ==
  \/ \E a \in Attempts : Step(a) /\ (call[a].pc = "idle" => Alone(a))
  \/ Crash \/ NextMonth \/ SwitchStorage
LeaksNext ==
  \/ \E a \in Attempts :
       \/ \E b \in Backends : Reserve(a, b)
       \/ Refuse(a) \/ Submit(a) \/ ProviderReturns(a) \/ Save(a) \/ Settles(a)
  \/ NextMonth \/ SwitchStorage

LEMMA RetriesAreSteps == Retries!Next => RetriesNext
<1> USE DEF Retries!At, At, Retries!Goto, Goto, Retries!Settle, Settle, Retries!Finished, Finished
<1>1. ASSUME NEW a \in Attempts, Retries!MayStart(a)
      PROVE  MayStart(a) /\ Alone(a)
  BY <1>1 DEF Retries!MayStart, MayStart, Alone, Working
<1>2. ASSUME NEW a \in Attempts, NEW b \in Backends, Retries!Reserve(a, b)
      PROVE  Reserve(a, b) /\ Alone(a)
  <2>1. Retries!MayStart(a) /\ Retries!Reachable(b) /\ UNCHANGED <<storage, period>>
    BY <1>2 DEF Retries!Reserve
  <2>2. MayStart(a) /\ Alone(a) /\ Reachable(b)
    BY <1>1, <2>1 DEF Retries!Reachable, Reachable
  <2>3. \/ InsertReservation(b, a) /\ Replies(a, b, TRUE)
        \/ Reactivate(b, a) /\ Replies(a, b, TRUE)
        \/ ReadReservation(b, a) /\ Replies(a, b, reservation[b][KeyOf[a]].state = "reserved")
    BY <1>2 DEF Retries!Reserve, Retries!InsertReservation, InsertReservation, Retries!Reactivate,
                Reactivate, Retries!ReadReservation, ReadReservation, Retries!Replies, Replies,
                Retries!Debits, Debits, Retries!SameOperation, SameOperation, Retries!NoRow, NoRow,
                Retries!Refunded, Refunded, Retries!Charging, Charging
  <2> QED BY <2>1, <2>2, <2>3 DEF Reserve
<1>3. ASSUME NEW a \in Attempts, Retries!Refuse(a)
      PROVE  Refuse(a) /\ Alone(a)
  BY <1>1, <1>3 DEF Retries!Refuse, Refuse
<1>4. ASSUME NEW a \in Attempts, NEW b, NEW v, Retries!Finalize(b, KeyOf[a], v)
      PROVE  Finalize(b, KeyOf[a], v)
  BY <1>4 DEF Retries!Finalize, Finalize, Retries!NoRow, NoRow, Retries!Refunded, Refunded
<1>5. ASSUME NEW a \in Attempts,
             \/ Retries!Submit(a) \/ Retries!ProviderReturns(a) \/ Retries!Save(a)
             \/ Retries!Settles(a) \/ Retries!SettleInterrupted(a) \/ Retries!ReserveLost(a)
             \/ Retries!CancelCall(a)
      PROVE  Step(a) /\ call[a].pc # "idle"
  <2>1. CASE Retries!Submit(a)
    BY <2>1 DEF Retries!Submit, Submit, Step
  <2>2. CASE Retries!ProviderReturns(a)
    BY <2>2 DEF Retries!ProviderReturns, ProviderReturns, Step
  <2>3. CASE Retries!Save(a)
    BY <2>3 DEF Retries!Save, Save, Step
  <2>4. CASE Retries!Settles(a)
    BY <1>4, <2>4 DEF Retries!Settles, Settles, Retries!AtFinalize, AtFinalize, Step
  <2>5. CASE Retries!SettleInterrupted(a)
    BY <1>4, <2>5
    DEF Retries!SettleInterrupted, SettleInterrupted, Retries!AtFinalize, AtFinalize, Step
  <2>6. CASE Retries!ReserveLost(a)
    BY <2>6 DEF Retries!ReserveLost, ReserveLost, Step
  <2>7. CASE Retries!CancelCall(a)
    BY <2>7 DEF Retries!CancelCall, CancelCall, Step
  <2> QED BY <1>5, <2>1, <2>2, <2>3, <2>4, <2>5, <2>6, <2>7
<1>6. ASSUME NEW a \in Attempts, Retries!Step(a)
      PROVE  Step(a) /\ (call[a].pc = "idle" => Alone(a))
  <2>1. CASE \E b \in Backends : Retries!Reserve(a, b)
    BY <1>2, <2>1 DEF Step
  <2>2. CASE Retries!Refuse(a)
    BY <1>3, <2>2 DEF Step
  <2> QED BY <1>5, <1>6, <2>1, <2>2 DEF Retries!Step, Retries!Backends, Backends
<1>7. Retries!Crash => Crash
  BY DEF Retries!Crash, Crash
<1>8. Retries!NextMonth => NextMonth
  BY DEF Retries!NextMonth, NextMonth
<1>9. Retries!SwitchStorage => SwitchStorage
  BY DEF Retries!SwitchStorage, SwitchStorage, Retries!Backends, Backends
<1> QED BY <1>6, <1>7, <1>8, <1>9 DEF Retries!Next, RetriesNext

LEMMA LeaksAreSteps == Leaks!Next => LeaksNext
<1> USE DEF Leaks!At, At, Leaks!Goto, Goto, Leaks!Settle, Settle, Leaks!Finished, Finished
<1>1. ASSUME NEW a \in Attempts, Leaks!MayStart(a)
      PROVE  MayStart(a)
  BY <1>1 DEF Leaks!MayStart, MayStart
<1>2. ASSUME NEW a \in Attempts, NEW b \in Backends, Leaks!Reserve(a, b)
      PROVE  Reserve(a, b)
  <2>1. Leaks!MayStart(a) /\ Leaks!Reachable(b) /\ UNCHANGED <<storage, period>>
    BY <1>2 DEF Leaks!Reserve
  <2>2. MayStart(a) /\ Reachable(b)
    BY <1>1, <2>1 DEF Leaks!Reachable, Reachable
  <2>3. \/ InsertReservation(b, a) /\ Replies(a, b, TRUE)
        \/ Reactivate(b, a) /\ Replies(a, b, TRUE)
        \/ ReadReservation(b, a) /\ Replies(a, b, reservation[b][KeyOf[a]].state = "reserved")
    BY <1>2 DEF Leaks!Reserve, Leaks!InsertReservation, InsertReservation, Leaks!Reactivate,
                Reactivate, Leaks!ReadReservation, ReadReservation, Leaks!Replies, Replies,
                Leaks!Debits, Debits, Leaks!SameOperation, SameOperation, Leaks!NoRow, NoRow,
                Leaks!Refunded, Refunded, Leaks!Charging, Charging
  <2> QED BY <2>1, <2>2, <2>3 DEF Reserve
<1>4. ASSUME NEW a \in Attempts, NEW b, NEW v, Leaks!Finalize(b, KeyOf[a], v)
      PROVE  Finalize(b, KeyOf[a], v)
  BY <1>4 DEF Leaks!Finalize, Finalize, Leaks!NoRow, NoRow, Leaks!Refunded, Refunded
<1>5. ASSUME NEW a \in Attempts, Leaks!Step(a)
      PROVE  \/ \E b \in Backends : Reserve(a, b)
             \/ Refuse(a) \/ Submit(a) \/ ProviderReturns(a) \/ Save(a) \/ Settles(a)
  <2>1. CASE \E b \in Backends : Leaks!Reserve(a, b)
    BY <1>2, <2>1
  <2>2. CASE Leaks!Refuse(a)
    BY <1>1, <2>2 DEF Leaks!Refuse, Refuse
  <2>3. CASE Leaks!Submit(a)
    BY <2>3 DEF Leaks!Submit, Submit
  <2>4. CASE Leaks!ProviderReturns(a)
    BY <2>4 DEF Leaks!ProviderReturns, ProviderReturns
  <2>5. CASE Leaks!Save(a)
    BY <2>5 DEF Leaks!Save, Save
  <2>6. CASE Leaks!Settles(a)
    BY <1>4, <2>6 DEF Leaks!Settles, Settles, Leaks!AtFinalize, AtFinalize
  <2>7. ~Leaks!SettleInterrupted(a) /\ ~Leaks!ReserveLost(a) /\ ~Leaks!CancelCall(a)
    BY DEF Leaks!SettleInterrupted, Leaks!ReserveLost, Leaks!CancelCall
  <2> QED BY <1>5, <2>1, <2>2, <2>3, <2>4, <2>5, <2>6, <2>7
          DEF Leaks!Step, Leaks!Backends, Backends
<1>6. ~Leaks!Crash
  BY DEF Leaks!Crash
<1>7. Leaks!NextMonth => NextMonth
  BY DEF Leaks!NextMonth, NextMonth
<1>8. Leaks!SwitchStorage => SwitchStorage
  BY DEF Leaks!SwitchStorage, SwitchStorage, Leaks!Backends, Backends
<1> QED BY <1>5, <1>6, <1>7, <1>8 DEF Leaks!Next, LeaksNext

\* They are steps of the quota.
LEMMA PartsAreSteps == (RetriesNext => Next) /\ (LeaksNext => Next)
BY DEF RetriesNext, LeaksNext, Next, Step

\* An attempt that may still deliver.
Holding(a) ==
  call[a].pc \in {"calling", "saving", "settling"} \/ (call[a].pc = "replying" /\ call[a].granted)

DeliveryInv ==
  /\ TypeOK
  /\ \A a \in Attempts : Working(a) => Alone(a)
  /\ \A a \in Attempts : Holding(a) => RowOf(a).state = "reserved"
  /\ \A a \in Attempts : call[a].pc = "excepting" => call[a].verdict # "finalized"
  /\ DeliveredIsCharged /\ DeliveredOnce

\* One attempt moves, and touches the rows of its own key only.
LEMMA AttemptKeeps ==
  ASSUME DeliveryInv, TypeOK', SettledStays, NEW a \in Attempts, NEW e,
         call' = [call EXCEPT ![a] = e],
         \A b \in Backends, k \in Keys : k # KeyOf[a] => reservation'[b][k] = reservation[b][k],
         Working(a) \/ Alone(a), call[a].pc # "delivered",
         e.pc \in {"calling", "saving", "settling"} \/ (e.pc = "replying" /\ e.granted) =>
           reservation'[e.store][KeyOf[a]].state = "reserved",
         e.pc = "excepting" => e.verdict # "finalized",
         e.pc = "delivered" => /\ reservation'[e.store][KeyOf[a]].state = "finalized"
                               /\ reservation[e.store][KeyOf[a]].state # "finalized"
  PROVE  DeliveryInv'
<1> USE QuotaKeys
<1>0. call \in [Attempts -> Call] /\ TypeOK
  BY DEF DeliveryInv, TypeOK
<1>1. call'[a] = e /\ \A o \in Attempts : o # a => call'[o] = call[o]
  BY <1>0
<1>a. \A o \in Attempts : call[o].store \in Backends /\ KeyOf[o] \in Keys
  BY <1>0 DEF Call
<1>2. Alone(a)
  BY DEF DeliveryInv
<1>3. \A o \in Attempts : Working(o)' => Alone(o)'
  BY <1>1, <1>2 DEF DeliveryInv, Alone, Working
<1>4. ASSUME NEW o \in Attempts, Holding(o)' PROVE RowOf(o)'.state = "reserved"
  <2>1. CASE o = a
    BY <1>1, <1>4, <2>1 DEF Holding, RowOf
  <2>2. CASE o # a
    <3>1. Holding(o) /\ Working(o)
      BY <1>1, <1>4, <2>2 DEF Holding, Working, Finished
    <3>2. KeyOf[o] # KeyOf[a] /\ RowOf(o).state = "reserved"
      BY <1>2, <2>2, <3>1 DEF Alone, DeliveryInv
    <3> QED BY <1>1, <1>a, <2>2, <3>2 DEF RowOf
  <2> QED BY <2>1, <2>2
<1>5. \A o \in Attempts : call'[o].pc = "excepting" => call'[o].verdict # "finalized"
  BY <1>1 DEF DeliveryInv
<1>6. ASSUME NEW o \in Attempts, o # a, call[o].pc = "delivered"
      PROVE  RowOf(o).state = "finalized" /\ RowOf(o)' = RowOf(o)
  <2>1. RowOf(o).state = "finalized"
    BY <1>6 DEF DeliveryInv, DeliveredIsCharged, At, RowOf
  <2>2. RowOf(o) # NoRow
    BY <2>1 DEF NoRow
  <2>3. reservation'[call[o].store][KeyOf[o]] = RowOf(o)
    BY <1>a, <2>1, <2>2 DEF SettledStays, RowOf
  <2> QED BY <1>1, <1>6, <2>1, <2>3 DEF RowOf
<1>7. DeliveredIsCharged'
  BY <1>1, <1>6 DEF DeliveredIsCharged, At, RowOf
<1>8. DeliveredOnce'
  <2> SUFFICES ASSUME NEW o \in Attempts, NEW q \in Attempts, o # q,
                      call'[o].pc = "delivered", call'[q].pc = "delivered",
                      KeyOf[o] = KeyOf[q], call'[o].store = call'[q].store
               PROVE  FALSE
    BY DEF DeliveredOnce, At
  <2>1. o = a \/ q = a
    BY <1>1 DEF DeliveryInv, DeliveredOnce, At
  <2>2. PICK w \in {o, q} : w # a
    OBVIOUS
  <2>3. RowOf(w).state = "finalized"
    BY <1>1, <1>6, <2>2
  <2>4. RowOf(w) = reservation[e.store][KeyOf[a]] /\ e.pc = "delivered"
    BY <1>1, <2>1, <2>2 DEF RowOf
  <2> QED BY <2>3, <2>4
<1> QED BY <1>3, <1>4, <1>5, <1>7, <1>8 DEF DeliveryInv

\* The record of an attempt that goes on.
LEMMA GotoMoves ==
  ASSUME TypeOK, NEW a \in Attempts, NEW pc, Goto(a, pc)
  PROVE  \E e : /\ call' = [call EXCEPT ![a] = e]
                /\ e.pc = pc /\ e.store = call[a].store /\ e.verdict = call[a].verdict
                /\ e.granted <=> call[a].granted
<1> DEFINE e == [call[a] EXCEPT !.pc = pc]
<1>1. /\ e.pc = pc /\ e.store = call[a].store /\ e.verdict = call[a].verdict
      /\ e.granted <=> call[a].granted
  BY DEF TypeOK, Call
<1>2. call' = [call EXCEPT ![a] = e]
  BY DEF Goto
<1> HIDE DEF e
<1> QED BY <1>1, <1>2

LEMMA SettleMoves ==
  ASSUME TypeOK, NEW a \in Attempts, NEW pc, NEW v, Settle(a, pc, v)
  PROVE  \E e : /\ call' = [call EXCEPT ![a] = e]
                /\ e.pc = pc /\ e.store = call[a].store /\ e.verdict = v
                /\ e.granted <=> call[a].granted
<1>0. call \in [Attempts -> Call] /\ call[a] \in Call
  BY DEF TypeOK
<1> DEFINE e == [call[a] EXCEPT !.pc = pc, !.verdict = v]
<1>1. /\ e.pc = pc /\ e.store = call[a].store /\ e.verdict = v
      /\ e.granted <=> call[a].granted
  BY <1>0 DEF Call
<1>2. call' = [call EXCEPT ![a] = e]
  BY <1>0 DEF Settle, Call
<1> HIDE DEF e
<1> QED BY <1>1, <1>2

\* finalize settles an open row, and only that.
LEMMA FinalizeSettles ==
  ASSUME TypeOK, NEW b \in Backends, NEW k \in Keys, NEW v \in {"finalized", "unknown", "failed"},
         Finalize(b, k, v)
  PROVE  /\ \A c \in Backends, j \in Keys : c # b \/ j # k => reservation'[c][j] = reservation[c][j]
         /\ reservation[b][k].state = "reserved" => reservation'[b][k].state = v
         /\ reservation[b][k].state # "reserved" => reservation'[b][k] = reservation[b][k]
<1>1. reservation \in [Backends -> [Keys -> Row \cup {NoRow}]]
  BY DEF TypeOK
<1>2. CASE reservation[b][k].state = "reserved"
  <2>1. reservation[b][k] # NoRow /\ reservation[b][k] \in Row
    BY <1>1, <1>2, NoRowHasState DEF NoRow
  <2>2. reservation' = [reservation EXCEPT ![b][k] = [reservation[b][k] EXCEPT !.state = v]]
    BY <1>1, <1>2, <2>1 DEF Finalize, Row
  <2>3. [reservation[b][k] EXCEPT !.state = v].state = v
    BY <2>1 DEF Row
  <2> QED BY <1>1, <1>2, <2>2, <2>3
<1>3. CASE reservation[b][k].state # "reserved"
  BY <1>3 DEF Finalize
<1> QED BY <1>2, <1>3

\* A reservation, a retry or a read leaves the row open if the tool goes on.
LEMMA ReserveGrants ==
  ASSUME TypeOK, NEW a \in Attempts, NEW b \in Backends, Reserve(a, b)
  PROVE  /\ \A c \in Backends, j \in Keys :
              c # b \/ j # KeyOf[a] => reservation'[c][j] = reservation[c][j]
         /\ \E e :
              /\ call' = [call EXCEPT ![a] = e]
              /\ e.pc = "replying" /\ e.store = b
              /\ e.granted <=> reservation'[b][KeyOf[a]].state = "reserved"
<1> USE QuotaKeys
<1>0. reservation \in [Backends -> [Keys -> Row \cup {NoRow}]] /\ call[a] \in Call
      /\ call \in [Attempts -> Call]
  BY DEF TypeOK
<1>1. ASSUME NEW g \in BOOLEAN, Replies(a, b, g)
      PROVE  \E e : /\ call' = [call EXCEPT ![a] = e]
                    /\ e.pc = "replying" /\ e.store = b /\ (e.granted <=> g)
  <2> DEFINE e == [call[a] EXCEPT !.pc = "replying", !.store = b, !.granted = g]
  <2>1. e.pc = "replying" /\ e.store = b /\ (e.granted <=> g)
    BY <1>0 DEF Call
  <2>2. call' = [call EXCEPT ![a] = e]
    BY <1>0, <1>1 DEF Replies, Call
  <2> HIDE DEF e
  <2> QED BY <2>1, <2>2
<1>2. CASE InsertReservation(b, a) /\ Replies(a, b, TRUE)
  <2> DEFINE row == [user |-> UserOf[a], operation |-> OperationOf[a],
                     units |-> UnitCosts[OperationOf[a]], period |-> period, state |-> "reserved"]
  <2>1. row.state = "reserved" /\ reservation' = [reservation EXCEPT ![b][KeyOf[a]] = row]
    BY <1>2 DEF InsertReservation
  <2> HIDE DEF row
  <2> QED BY <1>0, <1>1, <1>2, <2>1
<1>3. CASE Reactivate(b, a) /\ Replies(a, b, TRUE)
  <2>1. reservation[b][KeyOf[a]] \in Row
    BY <1>0, <1>3, NoRowHasState DEF Reactivate, SameOperation
  <2> DEFINE row == [reservation[b][KeyOf[a]] EXCEPT !.state = "reserved", !.period = period]
  <2>2. row.state = "reserved"
    BY <2>1 DEF Row
  <2>3. reservation' = [reservation EXCEPT ![b][KeyOf[a]] = row]
    BY <1>0, <1>3, <2>1 DEF Reactivate, Row
  <2> HIDE DEF row
  <2> QED BY <1>0, <1>1, <1>3, <2>2, <2>3
<1>4. CASE /\ ReadReservation(b, a)
           /\ Replies(a, b, reservation[b][KeyOf[a]].state = "reserved")
  BY <1>0, <1>1, <1>4 DEF ReadReservation
<1> QED BY <1>2, <1>3, <1>4 DEF Reserve

\* A step on one key leaves the others alone, and what is settled.
LEMMA DeliveriesKept ==
  ASSUME DeliveryInv, TypeOK', SettledStays, RetriesNext
  PROVE  DeliveryInv'
<1> USE QuotaKeys
<1>0. /\ TypeOK /\ call \in [Attempts -> Call]
      /\ \A o \in Attempts : call[o].store \in Backends /\ KeyOf[o] \in Keys
                             /\ call[o].verdict \in {"finalized", "unknown", "failed"}
  BY DEF DeliveryInv, TypeOK, Call
<1>1. ASSUME NEW a \in Attempts, Step(a), call[a].pc = "idle" => Alone(a)
      PROVE  DeliveryInv'
  <2>1. ASSUME NEW b \in Backends, Reserve(a, b) PROVE DeliveryInv'
    <3>1. call[a].pc = "idle"
      BY <2>1 DEF Reserve, MayStart, At
    <3>2. PICK e : /\ call' = [call EXCEPT ![a] = e]
                   /\ e.pc = "replying" /\ e.store = b
                   /\ e.granted <=> reservation'[b][KeyOf[a]].state = "reserved"
      BY <1>0, <2>1, ReserveGrants
    <3>3. \A c \in Backends, k \in Keys : k # KeyOf[a] => reservation'[c][k] = reservation[c][k]
      BY <1>0, <2>1, ReserveGrants
    <3> QED BY <1>1, <3>1, <3>2, <3>3, AttemptKeeps
  <2>2. ASSUME NEW pc \in {"calling", "saving", "settling", "excepting", "ended"},
               NEW v \in {"finalized", "unknown", "failed"},
               (Goto(a, pc) /\ v = call[a].verdict) \/ Settle(a, pc, v),
               pc \in {"calling", "saving", "settling"} => Holding(a),
               pc = "excepting" => v # "finalized",
               Working(a) \/ call[a].pc = "idle", UNCHANGED reservation
        PROVE  DeliveryInv'
    <3>1. PICK e : /\ call' = [call EXCEPT ![a] = e]
                   /\ e.pc = pc /\ e.store = call[a].store /\ e.verdict = v
      BY <1>0, <2>2, GotoMoves, SettleMoves
    <3>2. Holding(a) => reservation'[call[a].store][KeyOf[a]].state = "reserved"
      BY <2>2 DEF DeliveryInv, RowOf
    <3>3. call[a].pc # "delivered"
      BY <2>2 DEF Working, Finished
    <3> QED BY <1>1, <2>2, <3>1, <3>2, <3>3, AttemptKeeps
  <2>3. CASE Refuse(a)
    BY <1>0, <2>2, <2>3 DEF Refuse, MayStart, At
  <2>4. CASE Submit(a)
    BY <1>0, <2>2, <2>4 DEF Submit, At, Holding, Working, Finished
  <2>5. CASE ProviderReturns(a)
    BY <1>0, <2>2, <2>5 DEF ProviderReturns, At, Holding, Working, Finished
  <2>6. CASE Save(a)
    BY <1>0, <2>2, <2>6 DEF Save, At, Holding, Working, Finished
  <2>7. CASE ReserveLost(a)
    BY <1>0, <2>2, <2>7 DEF ReserveLost, At, Working, Finished
  <2>8. CASE CancelCall(a)
    BY <1>0, <2>2, <2>8 DEF CancelCall, At, Working, Finished
  <2>9. CASE Settles(a)
    <3> DEFINE pc == IF call[a].verdict = "finalized" THEN "delivered" ELSE "ended"
    <3>1. /\ call[a].pc \in {"settling", "excepting"} /\ Goto(a, pc)
          /\ Finalize(call[a].store, KeyOf[a], call[a].verdict)
      BY <2>9 DEF Settles, AtFinalize, At
    <3>2. PICK e : call' = [call EXCEPT ![a] = e] /\ e.pc = pc /\ e.store = call[a].store
      BY <1>0, <3>1, GotoMoves, SettleMoves
    <3>3. \A c \in Backends, k \in Keys : k # KeyOf[a] => reservation'[c][k] = reservation[c][k]
      BY <1>0, <3>1, FinalizeSettles
    <3>4. pc = "delivered" => /\ reservation[call[a].store][KeyOf[a]].state = "reserved"
                              /\ call[a].verdict = "finalized"
      BY <3>1 DEF DeliveryInv, Holding, RowOf
    <3>5. pc = "delivered" => reservation'[call[a].store][KeyOf[a]].state = "finalized"
      BY <1>0, <3>1, <3>4, FinalizeSettles
    <3>6. Working(a) /\ pc \in {"delivered", "ended"} /\ call[a].pc # "delivered"
      BY <3>1 DEF Working, Finished
    <3> HIDE DEF pc
    <3> QED BY <3>2, <3>3, <3>4, <3>5, <3>6, AttemptKeeps
  <2>10. CASE SettleInterrupted(a)
    <3>1. /\ call[a].pc \in {"settling", "excepting"}
          /\ \/ UNCHANGED reservation
             \/ Finalize(call[a].store, KeyOf[a], call[a].verdict)
          /\ Settle(a, "excepting", "unknown") \/ Goto(a, "ended")
      BY <2>10 DEF SettleInterrupted, AtFinalize, At
    <3>2. PICK e : /\ call' = [call EXCEPT ![a] = e] /\ e.pc \in {"excepting", "ended"}
                   /\ e.pc = "excepting" => e.verdict = "unknown"
      BY <1>0, <3>1, GotoMoves, SettleMoves
    <3>3. \A c \in Backends, k \in Keys : k # KeyOf[a] => reservation'[c][k] = reservation[c][k]
      BY <1>0, <3>1, FinalizeSettles
    <3>4. Working(a) /\ call[a].pc # "delivered"
      BY <3>1 DEF Working, Finished
    <3> QED BY <3>2, <3>3, <3>4, AttemptKeeps
  <2> QED BY <1>1, <2>1, <2>3, <2>4, <2>5, <2>6, <2>7, <2>8, <2>9, <2>10 DEF Step
<1>2. ASSUME \A o \in Attempts : call'[o] = call[o] \/ call'[o].pc = "dead",
             UNCHANGED reservation
      PROVE  DeliveryInv'
  <2>1. \A o \in Attempts : call'[o] = call[o] \/ ~Working(o)'
    BY <1>2 DEF Working, Finished
  <2>2. \A o \in Attempts : Working(o)' => Alone(o)'
    BY <1>2, <2>1 DEF DeliveryInv, Alone, Working
  <2>3. \A o \in Attempts : Holding(o)' => RowOf(o)'.state = "reserved"
    BY <1>2 DEF DeliveryInv, Holding, RowOf
  <2>4. \A o \in Attempts : call'[o].pc = "excepting" => call'[o].verdict # "finalized"
    BY <1>2 DEF DeliveryInv
  <2>5. DeliveredIsCharged' /\ DeliveredOnce'
    BY <1>2 DEF DeliveryInv, DeliveredIsCharged, DeliveredOnce, At
  <2> QED BY <2>2, <2>3, <2>4, <2>5 DEF DeliveryInv
<1>3. CASE Crash
  <2>1. \A o \in Attempts : [call[o] EXCEPT !.pc = "dead"].pc = "dead"
    BY <1>0 DEF Call
  <2> QED BY <1>2, <1>3, <2>1 DEF Crash
<1>4. CASE NextMonth \/ SwitchStorage
  BY <1>2, <1>4 DEF NextMonth, SwitchStorage
<1> QED BY <1>1, <1>3, <1>4 DEF RetriesNext

LEMMA OpenStaysWorkedOn ==
  ASSUME TypeOK, TypeOK', OpenIsWorkedOn, LeaksNext
  PROVE  OpenIsWorkedOn'
<1> USE QuotaKeys
<1>0. /\ call \in [Attempts -> Call]
      /\ \A o \in Attempts : call[o].store \in Backends /\ KeyOf[o] \in Keys
                             /\ call[o].verdict \in {"finalized", "unknown", "failed"}
  BY DEF TypeOK, Call
<1>a. \A b \in Backends, k \in Keys : reservation[b][k] \in Row \cup {NoRow}
  BY DEF TypeOK
<1>b. NoRow.state # "reserved"
  BY DEF NoRow
<1> DEFINE Worked(b, k) ==
      \E a \in Attempts : KeyOf[a] = k /\ call[a].store = b /\ call[a].granted /\ Working(a)
<1>1. OpenIsWorkedOn <=>
        \A b \in Backends, k \in Keys : reservation[b][k].state = "reserved" => Worked(b, k)
  BY <1>b DEF OpenIsWorkedOn, Working
<1>2. OpenIsWorkedOn' <=>
        \A b \in Backends, k \in Keys : reservation'[b][k].state = "reserved" => Worked(b, k)'
  <2>1. NoRow.state # "reserved" /\ \A b \in Backends, k \in Keys :
          reservation'[b][k].state = "reserved" => reservation'[b][k] # NoRow
    BY <1>b
  <2> QED BY <2>1 DEF OpenIsWorkedOn, Working
<1>3. ASSUME NEW a \in Attempts, NEW e, call' = [call EXCEPT ![a] = e],
             NEW b \in Backends, NEW k \in Keys, Worked(b, k),
             KeyOf[a] = k /\ call[a].store = b /\ call[a].granted /\ Working(a) =>
               e.store = b /\ e.granted /\ e.pc \notin {"idle"} \cup Finished
      PROVE  Worked(b, k)'
  <2>1. call'[a] = e /\ \A o \in Attempts : o # a => call'[o] = call[o]
    BY <1>0, <1>3
  <2> QED BY <1>3, <2>1 DEF Working
<1>4. ASSUME NEW a \in Attempts, NEW b \in Backends, Reserve(a, b) PROVE OpenIsWorkedOn'
  <2>1. PICK e : /\ call' = [call EXCEPT ![a] = e]
                 /\ e.pc = "replying" /\ e.store = b
                 /\ e.granted <=> reservation'[b][KeyOf[a]].state = "reserved"
    BY <1>4, ReserveGrants
  <2>2. \A c \in Backends, k \in Keys : c # b \/ k # KeyOf[a] => reservation'[c][k] = reservation[c][k]
    BY <1>4, ReserveGrants
  <2>3. ~Working(a)
    BY <1>4 DEF Reserve, MayStart, At, Working
  <2> SUFFICES ASSUME NEW c \in Backends, NEW k \in Keys, reservation'[c][k].state = "reserved"
               PROVE  Worked(c, k)'
    BY <1>2
  <2>4. CASE c = b /\ k = KeyOf[a]
    <3>1. call'[a] = e
      BY <1>0, <2>1
    <3> QED BY <2>1, <2>4, <3>1 DEF Working, Finished
  <2>5. CASE c # b \/ k # KeyOf[a]
    <3>1. Worked(c, k)
      BY <1>1, <2>2, <2>5
    <3> HIDE DEF Worked
    <3> QED BY <1>3, <2>1, <2>3, <3>1
  <2> QED BY <2>4, <2>5
<1>5. ASSUME NEW a \in Attempts, NEW pc, Goto(a, pc) \/ (\E v : Settle(a, pc, v)),
             UNCHANGED reservation,
             pc \notin {"idle"} \cup Finished \/ ~Working(a) \/ ~call[a].granted
      PROVE  OpenIsWorkedOn'
  <2>1. PICK e : /\ call' = [call EXCEPT ![a] = e]
                 /\ e.pc = pc /\ e.store = call[a].store /\ (e.granted <=> call[a].granted)
    BY <1>5, GotoMoves, SettleMoves
  <2> SUFFICES ASSUME NEW c \in Backends, NEW k \in Keys, reservation'[c][k].state = "reserved"
               PROVE  Worked(c, k)'
    BY <1>2
  <2>2. Worked(c, k)
    BY <1>1, <1>5
  <2> HIDE DEF Worked
  <2> QED BY <1>3, <1>5, <2>1, <2>2
<1>6. ASSUME NEW a \in Attempts, Settles(a) PROVE OpenIsWorkedOn'
  <2>1. PICK pc : Goto(a, pc) /\ Finalize(call[a].store, KeyOf[a], call[a].verdict)
    BY <1>6 DEF Settles
  <2>2. PICK e : call' = [call EXCEPT ![a] = e]
    BY <2>1, GotoMoves, SettleMoves
  <2> SUFFICES ASSUME NEW c \in Backends, NEW k \in Keys, reservation'[c][k].state = "reserved"
               PROVE  Worked(c, k)'
    BY <1>2
  <2>3. c # call[a].store \/ k # KeyOf[a]
    <3>1. call[a].verdict # "reserved" /\ call[a].store \in Backends /\ KeyOf[a] \in Keys
      BY <1>0
    <3>2. reservation'[call[a].store][KeyOf[a]].state # "reserved"
      BY <1>0, <2>1, <3>1, FinalizeSettles
    <3> QED BY <3>2
  <2>4. reservation'[c][k] = reservation[c][k]
    BY <1>0, <2>1, <2>3, FinalizeSettles
  <2>5. Worked(c, k)
    BY <1>1, <2>4
  <2> HIDE DEF Worked
  <2> QED BY <1>3, <2>2, <2>3, <2>5
<1>7. ASSUME NEW a \in Attempts, Refuse(a) \/ Submit(a) \/ ProviderReturns(a) \/ Save(a)
      PROVE  OpenIsWorkedOn'
  <2>1. CASE Refuse(a)
    <3>1. Goto(a, "ended") /\ UNCHANGED reservation /\ ~Working(a)
      BY <2>1 DEF Refuse, MayStart, At, Working
    <3> QED BY <1>5, <3>1
  <2>2. CASE Submit(a)
    <3>1. /\ Goto(a, "calling") \/ (Goto(a, "ended") /\ ~call[a].granted)
          /\ UNCHANGED reservation
      BY <2>2 DEF Submit
    <3> QED BY <1>5, <3>1 DEF Finished
  <2>3. CASE ProviderReturns(a) \/ Save(a)
    <3>1. /\ \/ Goto(a, "saving")
             \/ \E v : Settle(a, "settling", v) \/ Settle(a, "excepting", v)
          /\ UNCHANGED reservation
      BY <2>3 DEF ProviderReturns, Save
    <3> QED BY <1>5, <3>1 DEF Finished
  <2> QED BY <1>7, <2>1, <2>2, <2>3
<1>8. CASE NextMonth \/ SwitchStorage
  BY <1>8 DEF NextMonth, SwitchStorage, OpenIsWorkedOn
<1> QED BY <1>4, <1>6, <1>7, <1>8 DEF LeaksNext

\* Media that reached the user is charged, and once per key and store, as long as attempts
\* with one key do not overlap, whatever is cancelled, lost or retried; and while nothing
\* crashes, is cancelled or loses its connection, no reservation is left open without an
\* attempt that settles it (MediaQuotaRepository and the media tools).
THEOREM DeliveriesStayCharged == ToolsSpec => []DeliveriesAreCharged
<1> DEFINE Inv ==
      /\ part \in {"accounts", "retries", "leaks"} => TypeOK
      /\ part = "retries" => DeliveryInv
      /\ part = "leaks" => OpenIsWorkedOn
<1>1. ToolsInit => Inv
  <2> SUFFICES ASSUME Init PROVE TypeOK /\ DeliveryInv /\ OpenIsWorkedOn
    BY DEF ToolsInit
  <2>1. TypeOK
    BY PeriodsAreNumbers DEF Init, TypeOK, Call, Backends, NoRow
  <2>2. \A a \in Attempts : call[a].pc = "idle"
    BY DEF Init
  <2>3. OpenIsWorkedOn
    BY QuotaKeys DEF Init, OpenIsWorkedOn
  <2> QED BY <2>1, <2>2, <2>3
          DEF DeliveryInv, Working, Holding, DeliveredIsCharged, DeliveredOnce, At
<1>2. Inv /\ [ToolsNext]_toolVars => Inv'
  <2> SUFFICES ASSUME Inv, [ToolsNext]_toolVars PROVE Inv'
    OBVIOUS
  <2>0. ASSUME TypeOK, Next PROVE TypeOK' /\ SettledStays
    BY <2>0, StepsAreTransactions, CallsTyped, TransactionTyped, TypeSplits, StepsKeepSettled
    DEF TypeOK, BooksTyped
  <2>1. CASE UNCHANGED quotaVars /\ UNCHANGED part
    BY <2>1 DEF quotaVars, TypeOK, DeliveryInv, Working, Alone, Holding, RowOf,
                DeliveredIsCharged, DeliveredOnce, At, OpenIsWorkedOn
  <2>2. CASE UNCHANGED part /\ part = "accounts" /\ Next
    BY <2>0, <2>2
  <2>3. CASE UNCHANGED part /\ part = "retries" /\ Retries!Next
    BY <2>0, <2>3, RetriesAreSteps, PartsAreSteps, DeliveriesKept
  <2>4. CASE UNCHANGED part /\ part = "leaks" /\ Leaks!Next
    BY <2>0, <2>4, LeaksAreSteps, PartsAreSteps, OpenStaysWorkedOn
  <2> QED BY <2>1, <2>2, <2>3, <2>4 DEF ToolsNext, toolVars
<1>3. Inv => DeliveriesAreCharged
  <2>1. DeliveryInv => Retries!DeliveredIsCharged /\ Retries!DeliveredOnce
    BY DEF DeliveryInv, DeliveredIsCharged, DeliveredOnce, At, Retries!DeliveredIsCharged,
           Retries!DeliveredOnce, Retries!At
  <2>2. OpenIsWorkedOn => Leaks!OpenIsWorkedOn
    BY DEF OpenIsWorkedOn, Leaks!OpenIsWorkedOn, Leaks!Backends, Backends, Leaks!NoRow, NoRow,
           Leaks!Finished, Finished
  <2> QED BY <2>1, <2>2 DEF DeliveriesAreCharged
<1> QED BY <1>1, <1>2, <1>3, PTL DEF ToolsSpec

-----------------------------------------------------------------------------
(* Questions: while nothing is stopped and no write fails, the holder of   *)
(* the lock writes the state that is, the file agrees with the memory but  *)
(* for the question it is about, and what was told is in both.             *)

Unspoilt == spent.stops = 0 /\ spent.errors = 0

\* The event of a question is set once it is decided, and a request that saves has
\* decided it.
Decided ==
  /\ \A k \in Topics : event[k] => question[k] \notin {"none", "pending"}
  /\ \A r \in Requests : at[r] = "saving" => question[TopicOf[r]] = ReplyOf[r]

\* Who heard a reply heard the state that the question has.
HeardIsKept ==
  \A x \in Store!Actors : result[x] \in Store!Replies => question[TopicOf[x]] = result[x]

\* Only the holder of the lock has a thread that writes, and it writes the memory.
Locked ==
  /\ \A x \in Store!Actors :
       /\ at[x] \in {"saving", "closing"} <=> lock = x
       /\ thread[x].step # "failed"
       /\ thread[x].step \in {"queued", "written"} => lock = x
       /\ lock = x => thread[x].step # "idle" /\ thread[x].values = question
       /\ thread[x].step = "written" => tmp = thread[x].values
       /\ lock = x /\ thread[x].step = "done" => file = question

\* The file has the state of a question, or the pending one that a restart expired; or it
\* is one change behind, while that is written.
Agrees(k) ==
  file[k] = question[k] \/ (file[k] = "pending" /\ question[k] = "expired")
Behind(k) ==
  /\ question[k] = "pending" => file[k] = "none"
  /\ question[k] # "pending" => file[k] = "pending"
FileFollows ==
  \A k \in Topics :
    Agrees(k) \/ (Behind(k) /\ \E x \in Store!Actors : lock = x /\ TopicOf[x] = k)

\* What was told is in the memory and in the file; who only waited may have heard it
\* before it was written, and a restart then expires the question.
TellsAre ==
  /\ \A r \in Requests : result[r] \in Store!Replies =>
       question[TopicOf[r]] = result[r] /\ file[TopicOf[r]] = result[r]
  /\ \A a \in Asks : result[a] \in Store!Replies =>
       /\ question[TopicOf[a]] \in {result[a], "expired"}
       /\ file[TopicOf[a]] \in {result[a], "pending", "expired"}

StoreInv ==
  /\ Store!TypeOK /\ Decided
  /\ spent.crashes = 0 => HeardIsKept
  /\ Unspoilt => Locked /\ FileFollows /\ TellsAre /\ Store!AnswersAgree /\ Store!PendingIsAsked

LEMMA QuestionTypes ==
  /\ Asks \cap Requests = {} /\ None \notin Store!Actors
  /\ TopicOf \in [Store!Actors -> Topics] /\ ReplyOf \in [Requests -> Store!Replies]
  /\ Asks \subseteq Store!Actors /\ Requests \subseteq Store!Actors
  /\ Store!Replies \cap {"none", "pending", "expired", "timeout", "stopped", "error"} = {}
  /\ \A x \in Store!Actors : x \in Asks \/ x \in Requests
BY QuestionParameters DEF Store!Parameters, Store!Actors, Store!Replies

LEMMA StoreBegins == Store!Init => StoreInv
<1> SUFFICES ASSUME Store!Init PROVE StoreInv
  OBVIOUS
<1> USE QuestionTypes DEF Store!Init
<1>1. Store!Nothing \in Store!Snapshots /\ \A k \in Topics : Store!Nothing[k] = "none"
  BY DEF Store!Nothing, Store!Snapshots, Store!States
<1>2. Store!TypeOK
  <2>1. thread \in [Store!Actors -> [step : {"idle", "queued", "written", "done", "failed"},
                                     values : Store!Snapshots]]
    BY <1>1
  <2>2. spent \in [stops : Nat, errors : Nat, crashes : Nat]
    OBVIOUS
  <2>3. result \in [Store!Actors -> Store!Results]
    BY DEF Store!Results
  <2> QED BY <1>1, <2>1, <2>2, <2>3 DEF Store!TypeOK
<1>3. \A x \in Store!Actors : result[x] = "none" /\ at[x] = "new" /\ thread[x].step = "idle"
  OBVIOUS
<1>4. Decided /\ HeardIsKept /\ TellsAre /\ Store!AnswersAgree
  BY <1>1, <1>3 DEF Decided, HeardIsKept, TellsAre, Store!AnswersAgree
<1>5. Locked /\ FileFollows /\ Store!PendingIsAsked
  BY <1>1, <1>3 DEF Locked, FileFollows, Agrees, Store!PendingIsAsked
<1> QED BY <1>2, <1>4, <1>5 DEF StoreInv

-----------------------------------------------------------------------------
(* The kinds of steps.                                                     *)

\* Where a call or request goes, and the values its thread writes.
LEMMA StoreFacts ==
  ASSUME StoreInv
  PROVE  /\ Store!TypeOK /\ Decided
         /\ question \in [Topics -> Store!States] /\ event \in [Topics -> BOOLEAN]
         /\ lock \in Store!Actors \cup {None}
         /\ at \in [Store!Actors -> {"new", "creating", "entering", "saving", "waiting",
                                     "expiring", "closing", "over"}]
         /\ result \in [Store!Actors -> Store!Results]
         /\ thread \in [Store!Actors -> [step : {"idle", "queued", "written", "done", "failed"},
                                         values : [Topics -> Store!States]]]
         /\ tmp \in [Topics -> Store!States] \cup {<<>>} /\ file \in [Topics -> Store!States]
         /\ spent \in [stops : Nat, errors : Nat, crashes : Nat]
BY DEF StoreInv, Store!TypeOK, Store!Snapshots

\* The memory and the disk stay; a call or request moves outside the lock, and may hear
\* what the question is.
LEMMA MovesKeep ==
  ASSUME StoreInv, UNCHANGED <<question, event, lock, thread, tmp, file, spent>>,
         NEW x \in Store!Actors,
         NEW p \in {"creating", "entering", "waiting", "expiring", "over"},
         NEW v \in Store!Results,
         at' = [at EXCEPT ![x] = p], result' = [result EXCEPT ![x] = v],
         at[x] \notin {"saving", "closing"},
         v = result[x] \/ (v \in Store!Replies =>
                             v = question[TopicOf[x]] /\ (x \in Asks \/ lock = None)),
         question[TopicOf[x]] = "pending" /\ at[x] \in {"waiting", "expiring"} =>
           p \in {"waiting", "expiring"}
  PROVE  StoreInv'
<1> USE QuestionTypes, StoreFacts
<1>1. Store!TypeOK'
  BY DEF Store!TypeOK
<1>2. Decided'
  BY DEF Decided
<1>3. \A y \in Store!Actors : y # x => at'[y] = at[y] /\ result'[y] = result[y]
  OBVIOUS
<1>4. at'[x] = p /\ result'[x] = v
  OBVIOUS
<1>5. ASSUME HeardIsKept PROVE HeardIsKept'
  BY <1>3, <1>4, <1>5 DEF HeardIsKept
<1>6. ASSUME Locked, FileFollows, TellsAre, Store!AnswersAgree, Store!PendingIsAsked
      PROVE  (Locked /\ FileFollows /\ TellsAre /\ Store!AnswersAgree /\ Store!PendingIsAsked)'
  <2>1. Locked'
    BY <1>3, <1>4, <1>6 DEF Locked
  <2>2. FileFollows'
    BY <1>6 DEF FileFollows, Agrees, Behind
  <2>3. ASSUME v \in Store!Replies, v # result[x]
        PROVE  /\ v = question[TopicOf[x]] /\ file[TopicOf[x]] \in {v, "pending", "expired"}
               /\ x \in Requests => file[TopicOf[x]] = v
    <3>1. v = question[TopicOf[x]] /\ (x \in Asks \/ lock = None)
      BY <2>3
    <3>2. Agrees(TopicOf[x])
            \/ (Behind(TopicOf[x]) /\ \E y \in Store!Actors : lock = y /\ TopicOf[y] = TopicOf[x])
      BY <1>6 DEF FileFollows
    <3>3. v \notin {"none", "pending", "expired"}
      BY <2>3
    <3>4. file[TopicOf[x]] \in {v, "pending", "expired"}
      BY <3>1, <3>2, <3>3 DEF Agrees, Behind
    <3>5. lock = None => file[TopicOf[x]] = v
      BY <3>1, <3>2, <3>3 DEF Agrees
    <3> QED BY <3>1, <3>4, <3>5
  <2>4. TellsAre'
    <3>1. ASSUME NEW r \in Requests, result'[r] \in Store!Replies
          PROVE  question'[TopicOf[r]] = result'[r] /\ file'[TopicOf[r]] = result'[r]
      BY <1>3, <1>4, <1>6, <2>3, <3>1 DEF TellsAre
    <3>2. ASSUME NEW a \in Asks, result'[a] \in Store!Replies
          PROVE  /\ question'[TopicOf[a]] \in {result'[a], "expired"}
                 /\ file'[TopicOf[a]] \in {result'[a], "pending", "expired"}
      BY <1>3, <1>4, <1>6, <2>3, <3>2 DEF TellsAre
    <3> QED BY <3>1, <3>2 DEF TellsAre
  <2>5. Store!AnswersAgree'
    <3> SUFFICES ASSUME NEW y \in Store!Actors, NEW z \in Store!Actors, TopicOf[y] = TopicOf[z],
                        {result'[y], result'[z]} \subseteq Store!Replies, result'[y] # result'[z]
                 PROVE  FALSE
      BY DEF Store!AnswersAgree
    <3>1. \A w \in {y, z} : result[w] \in Store!Replies =>
            question[TopicOf[y]] \in {result[w], "expired"}
      BY <1>6 DEF TellsAre
    <3>2. CASE y # x /\ z # x
      BY <1>3, <1>6, <3>2 DEF Store!AnswersAgree
    <3>3. CASE y = x \/ z = x
      <4>1. v = result[x] => FALSE
        BY <1>3, <1>4, <1>6, <3>3 DEF Store!AnswersAgree
      <4>2. v = question[TopicOf[y]] /\ v \in Store!Replies
        BY <1>4, <2>3, <3>3, <4>1
      <4>3. \A w \in {y, z} : result'[w] = v
        BY <1>3, <1>4, <3>1, <4>2
      <4> QED BY <4>3
    <3> QED BY <3>2, <3>3
  <2>6. Store!PendingIsAsked'
    BY <1>3, <1>4, <1>6 DEF Store!PendingIsAsked
  <2> QED BY <2>1, <2>2, <2>4, <2>5, <2>6
<1> QED BY <1>1, <1>2, <1>5, <1>6 DEF StoreInv, Unspoilt

\* A question changes, and the change is on its way to the file.
LEMMA ChangesKeep ==
  ASSUME StoreInv, NEW x \in Store!Actors, NEW state \in Store!States,
         NEW p \in {"saving", "closing"}, Store!Change(x, state), Store!Save(x, question'),
         at' = [at EXCEPT ![x] = p], UNCHANGED <<result, spent>>, lock = None,
         \/ question[TopicOf[x]] = "none" /\ state = "pending" /\ p = "saving" /\ x \in Asks
         \/ question[TopicOf[x]] = "pending" /\ state = "expired" /\ p = "closing"
         \/ question[TopicOf[x]] = "pending" /\ x \in Requests /\ state = ReplyOf[x]
  PROVE  StoreInv'
<1> USE QuestionTypes, StoreFacts
<1> DEFINE k == TopicOf[x]
           e == [step |-> "queued", values |-> question']
<1>0. k \in Topics /\ question[k] \in {"none", "pending"} /\ state \notin {"none", question[k]}
  OBVIOUS
<1>1. /\ question' = [question EXCEPT ![k] = state]
      /\ event' = [event EXCEPT ![k] = event[k] \/ state \in Store!Replies]
      /\ lock' = x /\ thread' = [thread EXCEPT ![x] = e] /\ UNCHANGED <<tmp, file>>
  BY DEF Store!Change, Store!Save
<1>2. question' \in [Topics -> Store!States] /\ question'[k] = state
      /\ \A j \in Topics : j # k => question'[j] = question[j]
  BY <1>0, <1>1
<1>3. e \in [step : {"idle", "queued", "written", "done", "failed"}, values : [Topics -> Store!States]]
  BY <1>2
<1>4. thread'[x] = e /\ \A y \in Store!Actors : y # x => thread'[y] = thread[y]
  BY <1>1
<1>5. \A y \in Store!Actors : y # x => at'[y] = at[y]
  OBVIOUS
<1>a. e.step = "queued" /\ e.values = question'
  OBVIOUS
<1>6. Store!TypeOK'
  <2> HIDE DEF e, k
  <2>1. thread' \in [Store!Actors -> [step : {"idle", "queued", "written", "done", "failed"},
                                      values : [Topics -> Store!States]]]
    BY <1>1, <1>3
  <2>2. event' \in [Topics -> BOOLEAN]
    BY <1>1, Zenon
  <2> QED BY <1>1, <1>2, <2>1, <2>2 DEF Store!TypeOK, Store!Snapshots
<1> HIDE DEF e
<1>7. Decided'
  <2>1. ASSUME NEW j \in Topics, event'[j] PROVE question'[j] \notin {"none", "pending"}
    <3>1. CASE j = k
      <4>1. event[k] => FALSE
        BY <1>0 DEF Decided
      <4>2. event'[k] = (event[k] \/ state \in Store!Replies)
        BY <1>0, <1>1
      <4>3. state \in Store!Replies
        BY <2>1, <3>1, <4>1, <4>2
      <4> QED BY <1>2, <3>1, <4>3
    <3>2. CASE j # k
      BY <1>1, <1>2, <2>1, <3>2 DEF Decided
    <3> QED BY <3>1, <3>2
  <2>2. ASSUME NEW r \in Requests, at'[r] = "saving" PROVE question'[TopicOf[r]] = ReplyOf[r]
    <3>1. CASE r = x
      BY <1>2, <2>2, <3>1
    <3>2. CASE r # x
      <4>1. question[TopicOf[r]] = ReplyOf[r]
        BY <1>5, <2>2, <3>2 DEF Decided
      <4>2. TopicOf[r] # k /\ TopicOf[r] \in Topics
        BY <1>0, <4>1
      <4> QED BY <1>2, <4>1, <4>2
    <3> QED BY <3>1, <3>2
  <2> QED BY <2>1, <2>2 DEF Decided
<1>8. ASSUME HeardIsKept PROVE HeardIsKept'
  BY <1>0, <1>2, <1>8 DEF HeardIsKept
<1>9. ASSUME Locked, FileFollows, TellsAre, Store!AnswersAgree, Store!PendingIsAsked
      PROVE  (Locked /\ FileFollows /\ TellsAre /\ Store!AnswersAgree /\ Store!PendingIsAsked)'
  <2>1. Locked'
    <3>1. \A y \in Store!Actors : lock # y
      OBVIOUS
    <3> QED BY <1>1, <1>4, <1>5, <1>9, <1>a, <3>1 DEF Locked
  <2>2. \A j \in Topics : Agrees(j)
    BY <1>9 DEF FileFollows
  <2>3. file[k] = question[k]
    BY <1>0, <2>2 DEF Agrees
  <2>4. FileFollows'
    <3>1. ASSUME NEW j \in Topics, j # k PROVE Agrees(j)'
      <4>1. file'[j] = file[j] /\ question'[j] = question[j]
        BY <1>1, <1>2, <3>1
      <4> QED BY <2>2, <4>1 DEF Agrees
    <3>2. Behind(k)'
      <4>1. /\ question'[k] = "pending" => file'[k] = "none"
            /\ question'[k] # "pending" => file'[k] = "pending"
        BY <1>0, <1>1, <1>2, <2>3
      <4> QED BY <1>1, <1>2, <4>1 DEF Behind
    <3> QED BY <1>1, <3>1, <3>2 DEF FileFollows
  <2>5. TellsAre'
    <3>1. ASSUME NEW r \in Requests, result[r] \in Store!Replies
          PROVE  question'[TopicOf[r]] = result[r] /\ file'[TopicOf[r]] = result[r]
      BY <1>0, <1>1, <1>2, <1>9, <3>1 DEF TellsAre
    <3>2. ASSUME NEW a \in Asks, result[a] \in Store!Replies
          PROVE  /\ question'[TopicOf[a]] \in {result[a], "expired"}
                 /\ file'[TopicOf[a]] \in {result[a], "pending", "expired"}
      BY <1>0, <1>1, <1>2, <1>9, <3>2 DEF TellsAre
    <3> QED BY <3>1, <3>2 DEF TellsAre
  <2>6. Store!AnswersAgree'
    BY <1>9 DEF Store!AnswersAgree
  <2>7. Store!PendingIsAsked'
    <3> SUFFICES ASSUME NEW j \in Topics, question'[j] = "pending"
                 PROVE  \E a \in Asks : TopicOf[a] = j /\ at'[a] \in {"saving", "waiting", "expiring"}
      BY DEF Store!PendingIsAsked
    <3>1. CASE j = k
      BY <1>0, <1>2, <3>1
    <3>2. CASE j # k
      <4>1. PICK a \in Asks : TopicOf[a] = j /\ at[a] \in {"saving", "waiting", "expiring"}
        BY <1>2, <1>9, <3>2 DEF Store!PendingIsAsked
      <4> QED BY <1>5, <3>2, <4>1
    <3> QED BY <3>1, <3>2
  <2> QED BY <2>1, <2>4, <2>5, <2>6, <2>7
<1> QED BY <1>6, <1>7, <1>8, <1>9 DEF StoreInv, Unspoilt

\* A change is in the file, or its write failed: the lock is free again.
LEMMA ReleasesKeep ==
  ASSUME StoreInv, NEW x \in Store!Actors, at[x] \in {"saving", "closing"}, Store!Ended(x),
         lock' = None, UNCHANGED <<question, event, thread, tmp, file, spent>>,
         NEW p \in {"waiting", "over"}, at' = [at EXCEPT ![x] = p],
         NEW v \in Store!Results, result' = [result EXCEPT ![x] = v],
         at[x] = "closing" \/ x \in Requests => p = "over",
         thread[x].step = "done" /\ at[x] = "saving" /\ x \in Asks => p = "waiting",
         v = result[x] \/ v \notin Store!Replies \/ (v = question[TopicOf[x]] /\ x \in Requests)
  PROVE  StoreInv'
<1> USE QuestionTypes, StoreFacts
<1>1. Store!TypeOK'
  BY DEF Store!TypeOK
<1>2. Decided'
  BY DEF Decided
<1>3. \A y \in Store!Actors : y # x => at'[y] = at[y] /\ result'[y] = result[y]
  OBVIOUS
<1>4. at'[x] = p /\ result'[x] = v
  OBVIOUS
<1>5. ASSUME HeardIsKept PROVE HeardIsKept'
  BY <1>3, <1>4, <1>5 DEF HeardIsKept
<1>6. ASSUME Locked, FileFollows, TellsAre, Store!AnswersAgree, Store!PendingIsAsked
      PROVE  (Locked /\ FileFollows /\ TellsAre /\ Store!AnswersAgree /\ Store!PendingIsAsked)'
  <2>1. lock = x /\ thread[x].step = "done" /\ file = question
    BY <1>6 DEF Locked, Store!Ended
  <2>2. Locked'
    BY <1>3, <1>4, <1>6, <2>1 DEF Locked
  <2>3. FileFollows'
    BY <2>1 DEF FileFollows, Agrees
  <2>4. TellsAre'
    <3>1. ASSUME NEW r \in Requests, result'[r] \in Store!Replies
          PROVE  question'[TopicOf[r]] = result'[r] /\ file'[TopicOf[r]] = result'[r]
      BY <1>3, <1>4, <1>6, <2>1, <3>1 DEF TellsAre
    <3>2. ASSUME NEW a \in Asks, result'[a] \in Store!Replies
          PROVE  /\ question'[TopicOf[a]] \in {result'[a], "expired"}
                 /\ file'[TopicOf[a]] \in {result'[a], "pending", "expired"}
      BY <1>3, <1>4, <1>6, <2>1, <3>2 DEF TellsAre
    <3> QED BY <3>1, <3>2 DEF TellsAre
  <2>5. Store!AnswersAgree'
    <3> SUFFICES ASSUME NEW y \in Store!Actors, NEW z \in Store!Actors, TopicOf[y] = TopicOf[z],
                        {result'[y], result'[z]} \subseteq Store!Replies, result'[y] # result'[z]
                 PROVE  FALSE
      BY DEF Store!AnswersAgree
    <3>1. \A w \in {y, z} : result[w] \in Store!Replies =>
            question[TopicOf[y]] \in {result[w], "expired"}
      BY <1>6 DEF TellsAre
    <3>2. CASE y # x /\ z # x
      BY <1>3, <1>6, <3>2 DEF Store!AnswersAgree
    <3>3. CASE y = x \/ z = x
      <4>1. v = result[x] => FALSE
        BY <1>3, <1>4, <1>6, <3>3 DEF Store!AnswersAgree
      <4>2. v = question[TopicOf[y]] /\ v \in Store!Replies
        BY <1>4, <3>3, <4>1
      <4>3. \A w \in {y, z} : result'[w] = v
        BY <1>3, <1>4, <3>1, <4>2
      <4> QED BY <4>3
    <3> QED BY <3>2, <3>3
  <2>6. Store!PendingIsAsked'
    <3> SUFFICES ASSUME NEW j \in Topics, question[j] = "pending"
                 PROVE  \E a \in Asks : TopicOf[a] = j /\ at'[a] \in {"saving", "waiting", "expiring"}
      BY DEF Store!PendingIsAsked
    <3>1. PICK a \in Asks : TopicOf[a] = j /\ at[a] \in {"saving", "waiting", "expiring"}
      BY <1>6 DEF Store!PendingIsAsked
    <3>2. a = x => p = "waiting"
      BY <2>1, <3>1
    <3> QED BY <1>3, <1>4, <3>1, <3>2
  <2> QED BY <2>2, <2>3, <2>4, <2>5, <2>6
<1> QED BY <1>1, <1>2, <1>5, <1>6 DEF StoreInv, Unspoilt

\* The values of a snapshot that is of some question are not those of a missing file.
LEMMA SnapshotIsThere ==
  ASSUME NEW s \in [Topics -> Store!States], NEW k \in Topics
  PROVE  s # <<>>
<1>1. DOMAIN s = Topics
  OBVIOUS
<1>2. DOMAIN <<>> = {}
  OBVIOUS
<1> QED BY <1>1, <1>2

\* The thread writes the temporary file and renames it.
LEMMA WritesKeep ==
  ASSUME StoreInv, NEW x \in Store!Actors, Store!Write(x)
  PROVE  StoreInv'
<1> USE QuestionTypes, StoreFacts
<1> DEFINE e(step) == [step |-> step, values |-> thread[x].values]
<1>a. /\ [thread[x] EXCEPT !.step = "written"] = e("written")
      /\ [thread[x] EXCEPT !.step = "done"] = e("done")
      /\ [thread[x] EXCEPT !.step = "failed"] = e("failed")
  OBVIOUS
<1>0. UNCHANGED <<question, event, lock, at, result, spent>>
  BY DEF Store!Write, Store!WriteTmp, Store!Replace, Store!memory
<1>1. \/ /\ thread[x].step = "queued" /\ thread' = [thread EXCEPT ![x] = e("written")]
         /\ tmp' = thread[x].values /\ UNCHANGED file
      \/ /\ thread[x].step = "written" /\ tmp # <<>> /\ thread' = [thread EXCEPT ![x] = e("done")]
         /\ file' = tmp /\ tmp' = <<>>
      \/ /\ thread[x].step = "written" /\ tmp = <<>> /\ thread' = [thread EXCEPT ![x] = e("failed")]
         /\ UNCHANGED <<tmp, file>>
  BY <1>a DEF Store!Write, Store!WriteTmp, Store!Replace
<1>2. \A step \in {"idle", "queued", "written", "done", "failed"} :
        /\ e(step) \in [step : {"idle", "queued", "written", "done", "failed"},
                        values : [Topics -> Store!States]]
        /\ e(step).step = step /\ e(step).values = thread[x].values
  OBVIOUS
<1>3. thread[x].values \in [Topics -> Store!States]
  OBVIOUS
<1> HIDE DEF e
<1>b. /\ thread' \in [Store!Actors -> [step : {"idle", "queued", "written", "done", "failed"},
                                      values : [Topics -> Store!States]]]
      /\ tmp' \in [Topics -> Store!States] \cup {<<>>} /\ file' \in [Topics -> Store!States]
  <2>1. ASSUME NEW step \in {"written", "done", "failed"},
               thread' = [thread EXCEPT ![x] = e(step)]
        PROVE  thread' \in [Store!Actors -> [step : {"idle", "queued", "written", "done", "failed"},
                                            values : [Topics -> Store!States]]]
    <3>1. e(step) \in [step : {"idle", "queued", "written", "done", "failed"},
                       values : [Topics -> Store!States]]
      BY <1>2, <2>1
    <3> QED BY <2>1, <3>1
  <2>2. /\ tmp' \in [Topics -> Store!States] \cup {<<>>} /\ file' \in [Topics -> Store!States]
        /\ \E step \in {"written", "done", "failed"} : thread' = [thread EXCEPT ![x] = e(step)]
    BY <1>1, <1>3
  <2> QED BY <2>1, <2>2
<1>c. /\ question' = question /\ event' = event /\ lock' = lock /\ at' = at
      /\ result' = result /\ spent' = spent
  BY <1>0
<1>4. Store!TypeOK'
  BY <1>b, <1>c DEF Store!TypeOK, Store!Snapshots
<1>5. Decided' /\ (HeardIsKept => HeardIsKept')
  BY <1>0 DEF Decided, HeardIsKept
<1>6. ASSUME Locked, FileFollows, TellsAre, Store!AnswersAgree, Store!PendingIsAsked
      PROVE  (Locked /\ FileFollows /\ TellsAre /\ Store!AnswersAgree /\ Store!PendingIsAsked)'
  <2>1. lock = x /\ thread[x].values = question /\ \A y \in Store!Actors : lock = y => y = x
    BY <1>1, <1>6 DEF Locked
  <2>2. thread[x].step = "written" => tmp = question /\ tmp # <<>>
    BY <1>6, <2>1, SnapshotIsThere DEF Locked
  <2>3. \/ /\ thread[x].step = "queued" /\ thread' = [thread EXCEPT ![x] = e("written")]
           /\ tmp' = question /\ UNCHANGED file
        \/ /\ thread[x].step = "written" /\ thread' = [thread EXCEPT ![x] = e("done")]
           /\ file' = question
    BY <1>1, <2>1, <2>2
  <2>4. \A y \in Store!Actors : y # x => thread'[y] = thread[y] /\ thread[y].step # "written"
    BY <1>6, <2>1, <2>3 DEF Locked
  <2>5. /\ thread'[x].values = question
        /\ \/ thread'[x].step = "written" /\ tmp' = question
           \/ thread'[x].step = "done" /\ file' = question
    BY <1>2, <2>1, <2>3
  <2>6. Locked'
    BY <1>0, <1>6, <2>1, <2>4, <2>5 DEF Locked
  <2>7. FileFollows'
    <3>1. CASE file' = question
      BY <1>0, <3>1 DEF FileFollows, Agrees
    <3>2. CASE UNCHANGED file
      BY <1>0, <1>6, <3>2 DEF FileFollows, Agrees, Behind
    <3> QED BY <2>3, <3>1, <3>2
  <2>8. TellsAre'
    <3>1. ASSUME NEW r \in Requests, result[r] \in Store!Replies
          PROVE  question[TopicOf[r]] = result[r] /\ file'[TopicOf[r]] = result[r]
      BY <1>6, <2>3, <3>1 DEF TellsAre
    <3>2. ASSUME NEW a \in Asks, result[a] \in Store!Replies
          PROVE  /\ question[TopicOf[a]] \in {result[a], "expired"}
                 /\ file'[TopicOf[a]] \in {result[a], "pending", "expired"}
      BY <1>6, <2>3, <3>2 DEF TellsAre
    <3> QED BY <1>0, <3>1, <3>2 DEF TellsAre
  <2>9. (Store!AnswersAgree /\ Store!PendingIsAsked)'
    BY <1>0, <1>6 DEF Store!AnswersAgree, Store!PendingIsAsked
  <2> QED BY <2>6, <2>7, <2>8, <2>9
<1> QED BY <1>0, <1>4, <1>5, <1>6 DEF StoreInv, Unspoilt

LEMMA SpentGrows ==
  ASSUME NEW old \in [stops : Nat, errors : Nat, crashes : Nat], NEW new
  PROVE  /\ new = [old EXCEPT !.errors = old.errors + 1] =>
              /\ new \in [stops : Nat, errors : Nat, crashes : Nat]
              /\ new.errors # 0 /\ new.crashes = old.crashes
         /\ new = [old EXCEPT !.crashes = old.crashes + 1] =>
              /\ new \in [stops : Nat, errors : Nat, crashes : Nat]
              /\ new.crashes # 0 /\ new.errors = old.errors /\ new.stops = old.stops
OBVIOUS

\* A turn is stopped, or a write fails: what holds until a restart goes on.
LEMMA FaultsKeep ==
  ASSUME StoreInv,
         (\E a \in Asks : Store!Stop(a)) \/ (\E x \in Store!Actors : Store!WriteFails(x))
  PROVE  StoreInv'
<1> USE QuestionTypes, StoreFacts
<1>1. ASSUME NEW a \in Asks, Store!Stop(a) PROVE StoreInv'
  <2>1. /\ UNCHANGED <<question, event, thread, tmp, file>> /\ lock' \in Store!Actors \cup {None}
        /\ at' = [at EXCEPT ![a] = "over"] /\ result' = [result EXCEPT ![a] = "stopped"]
        /\ spent' = [spent EXCEPT !.stops = spent.stops + 1]
    BY <1>1 DEF Store!Stop, Store!Return, Store!Go, Store!disk
  <2>2. spent' \in [stops : Nat, errors : Nat, crashes : Nat] /\ ~Unspoilt'
        /\ spent'.crashes = spent.crashes
    BY <2>1 DEF Unspoilt
  <2>3. result' \in [Store!Actors -> Store!Results]
    BY <2>1 DEF Store!Results
  <2>4. Store!TypeOK'
    BY <2>1, <2>2, <2>3 DEF Store!TypeOK
  <2>5. Decided' /\ (HeardIsKept => HeardIsKept')
    BY <2>1 DEF Decided, HeardIsKept
  <2> QED BY <2>2, <2>4, <2>5 DEF StoreInv
<1>2. ASSUME NEW x \in Store!Actors, Store!WriteFails(x) PROVE StoreInv'
  <2> DEFINE e == [step |-> "failed", values |-> thread[x].values]
  <2>1. /\ UNCHANGED <<question, event, lock, at, result, tmp, file>>
        /\ thread' = [thread EXCEPT ![x] = e]
        /\ spent' = [spent EXCEPT !.errors = spent.errors + 1]
    <3>1. [thread[x] EXCEPT !.step = "failed"] = e
      OBVIOUS
    <3> QED BY <1>2, <3>1 DEF Store!WriteFails, Store!memory
  <2>2. spent' \in [stops : Nat, errors : Nat, crashes : Nat] /\ ~Unspoilt'
        /\ spent'.crashes = spent.crashes
    BY <2>1, SpentGrows DEF Unspoilt
  <2>3. e \in [step : {"idle", "queued", "written", "done", "failed"}, values : [Topics -> Store!States]]
    OBVIOUS
  <2> HIDE DEF e
  <2>4. Store!TypeOK'
    BY <2>1, <2>2, <2>3 DEF Store!TypeOK, Store!Snapshots
  <2>5. Decided' /\ (HeardIsKept => HeardIsKept')
    BY <2>1 DEF Decided, HeardIsKept
  <2> QED BY <2>2, <2>4, <2>5 DEF StoreInv
<1> QED BY <1>1, <1>2

\* A restart: the memory is what the file says, and nobody waits.
LEMMA CrashKeeps ==
  ASSUME StoreInv, Store!Crash
  PROVE  StoreInv'
<1> USE QuestionTypes, StoreFacts
<1>1. /\ question' = [k \in Topics |-> IF file[k] = "pending" THEN "expired" ELSE file[k]]
      /\ event' = [k \in Topics |-> question'[k] \notin {"none", "pending"}]
      /\ lock' = None /\ UNCHANGED <<tmp, file>>
      /\ at' = [x \in Store!Actors |-> IF at[x] = "new" THEN "new" ELSE "over"]
      /\ result' = [x \in Store!Actors |-> IF at[x] \in {"new", "over"} THEN result[x] ELSE "stopped"]
      /\ spent' = [spent EXCEPT !.crashes = spent.crashes + 1]
  BY DEF Store!Crash, Store!Loaded
<1>2. thread' = [x \in Store!Actors |-> [step |-> "idle", values |-> thread[x].values]]
  <2>1. \A x \in Store!Actors :
          [thread[x] EXCEPT !.step = "idle"] = [step |-> "idle", values |-> thread[x].values]
    OBVIOUS
  <2> QED BY <2>1 DEF Store!Crash
<1>3. /\ question' \in [Topics -> Store!States] /\ event' \in [Topics -> BOOLEAN]
      /\ \A k \in Topics : question'[k] = IF file[k] = "pending" THEN "expired" ELSE file[k]
  BY <1>1 DEF Store!States
<1>4. /\ thread' \in [Store!Actors -> [step : {"idle", "queued", "written", "done", "failed"},
                                      values : [Topics -> Store!States]]]
      /\ \A x \in Store!Actors : thread'[x].step = "idle"
  BY <1>2
<1>5. /\ at' \in [Store!Actors -> {"new", "over"}] /\ result' \in [Store!Actors -> Store!Results]
      /\ \A x \in Store!Actors : result'[x] \in {result[x], "stopped"}
  BY <1>1 DEF Store!Results
<1>6. spent' \in [stops : Nat, errors : Nat, crashes : Nat] /\ spent'.crashes # 0
      /\ (Unspoilt' <=> Unspoilt)
  BY <1>1, SpentGrows DEF Unspoilt
<1>7. Store!TypeOK'
  BY <1>1, <1>3, <1>4, <1>5, <1>6 DEF Store!TypeOK, Store!Snapshots
<1>8. Decided'
  BY <1>1, <1>3, <1>5 DEF Decided
<1>9. ASSUME Locked, FileFollows, TellsAre, Store!AnswersAgree, Store!PendingIsAsked
      PROVE  (Locked /\ FileFollows /\ TellsAre /\ Store!AnswersAgree /\ Store!PendingIsAsked)'
  <2>1. Locked'
    BY <1>1, <1>4, <1>5 DEF Locked
  <2>2. FileFollows'
    BY <1>1, <1>3 DEF FileFollows, Agrees
  <2>3. TellsAre'
    <3>1. ASSUME NEW r \in Requests, result'[r] \in Store!Replies
          PROVE  question'[TopicOf[r]] = result'[r] /\ file'[TopicOf[r]] = result'[r]
      BY <1>1, <1>3, <1>5, <1>9, <3>1 DEF TellsAre
    <3>2. ASSUME NEW a \in Asks, result'[a] \in Store!Replies
          PROVE  /\ question'[TopicOf[a]] \in {result'[a], "expired"}
                 /\ file'[TopicOf[a]] \in {result'[a], "pending", "expired"}
      BY <1>1, <1>3, <1>5, <1>9, <3>2 DEF TellsAre
    <3> QED BY <3>1, <3>2 DEF TellsAre
  <2>4. Store!AnswersAgree'
    BY <1>5, <1>9 DEF Store!AnswersAgree
  <2>5. Store!PendingIsAsked'
    BY <1>3 DEF Store!PendingIsAsked
  <2> QED BY <2>1, <2>2, <2>3, <2>4, <2>5
<1> QED BY <1>6, <1>7, <1>8, <1>9 DEF StoreInv

\* Every step of a call that asks is one of these kinds.
LEMMA AskKeeps ==
  ASSUME StoreInv, NEW a \in Asks, Store!AskStep(a)
  PROVE  StoreInv'
<1> USE QuestionTypes, StoreFacts
<1>a. result = [result EXCEPT ![a] = result[a]] /\ result[a] \in Store!Results
  OBVIOUS
<1>b. question[TopicOf[a]] \in Store!States /\ Store!Status(a) = question[TopicOf[a]]
  BY DEF Store!Status
<1>c. question[TopicOf[a]] \notin {"none", "pending", "expired"} => question[TopicOf[a]] \in Store!Replies
  BY <1>b DEF Store!States
<1>d. {"none", "timeout", "stopped", "error"} \cup Store!Replies \subseteq Store!Results
  BY DEF Store!Results
<1>1. CASE Store!Ask(a)
  <2>1. at[a] = "new" /\ at' = [at EXCEPT ![a] = "creating"] /\ UNCHANGED result
        /\ UNCHANGED <<question, event, lock, thread, tmp, file, spent>>
    BY <1>1 DEF Store!Ask, Store!Go, Store!Stay, Store!memory, Store!disk
  <2> QED BY <1>a, <2>1, MovesKeep
<1>2. CASE Store!Timeout(a)
  <2>1. at[a] = "waiting" /\ at' = [at EXCEPT ![a] = "expiring"] /\ UNCHANGED result
        /\ UNCHANGED <<question, event, lock, thread, tmp, file, spent>>
    BY <1>2 DEF Store!Timeout, Store!Go, Store!Stay, Store!memory, Store!disk
  <2> QED BY <1>a, <2>1, MovesKeep
<1>3. CASE Store!Create(a)
  <2>1. CASE question[TopicOf[a]] # "none"
    <3>1. at[a] = "creating" /\ at' = [at EXCEPT ![a] = "waiting"] /\ UNCHANGED result
          /\ UNCHANGED <<question, event, lock, thread, tmp, file, spent>>
      BY <1>3, <1>b, <2>1 DEF Store!Create, Store!Go, Store!Stay, Store!memory, Store!disk
    <3> QED BY <1>a, <3>1, MovesKeep
  <2>2. CASE question[TopicOf[a]] = "none"
    <3>1. at' = [at EXCEPT ![a] = "saving"] /\ Store!Change(a, "pending")
          /\ Store!Save(a, question') /\ lock = None /\ UNCHANGED <<result, spent>>
      BY <1>3, <1>b, <2>2 DEF Store!Create, Store!Go
    <3>2. "pending" \in Store!States
      BY DEF Store!States
    <3> QED BY <2>2, <3>1, <3>2, ChangesKeep
  <2> QED BY <2>1, <2>2
<1>4. CASE Store!Created(a)
  <2>1. at[a] = "saving" /\ Store!Ended(a) /\ lock' = None
        /\ UNCHANGED <<question, event, thread, tmp, file, spent>>
    BY <1>4 DEF Store!Created, Store!disk
  <2>2. CASE thread[a].step = "done"
    <3>1. at' = [at EXCEPT ![a] = "waiting"] /\ UNCHANGED result
      BY <1>4, <2>2 DEF Store!Created, Store!Go
    <3> QED BY <1>a, <2>1, <3>1, ReleasesKeep
  <2>3. CASE thread[a].step # "done"
    <3>1. at' = [at EXCEPT ![a] = "over"] /\ result' = [result EXCEPT ![a] = "error"]
      BY <1>4, <2>3 DEF Store!Created, Store!Return, Store!Go
    <3> QED BY <1>d, <2>1, <2>3, <3>1, ReleasesKeep
  <2> QED BY <2>2, <2>3
<1>5. CASE Store!Wake(a)
  <2>1. at[a] = "waiting" /\ event[TopicOf[a]] /\ at' = [at EXCEPT ![a] = "over"]
        /\ result' = [result EXCEPT ![a] =
             IF question[TopicOf[a]] = "expired" THEN "timeout" ELSE question[TopicOf[a]]]
        /\ UNCHANGED <<question, event, lock, thread, tmp, file, spent>>
    BY <1>5, <1>b DEF Store!Wake, Store!Return, Store!Go, Store!Stay, Store!memory, Store!disk
  <2>2. question[TopicOf[a]] \notin {"none", "pending"}
    BY <2>1 DEF Decided
  <2> DEFINE v == IF question[TopicOf[a]] = "expired" THEN "timeout" ELSE question[TopicOf[a]]
  <2>3. v \in Store!Results /\ (v \in Store!Replies => v = question[TopicOf[a]])
    BY <1>c, <1>d, <2>2
  <2>4. result' = [result EXCEPT ![a] = v]
    BY <2>1
  <2> HIDE DEF v
  <2> QED BY <2>1, <2>2, <2>3, <2>4, MovesKeep
<1>6. CASE Store!Expire(a)
  <2>1. CASE question[TopicOf[a]] = "pending"
    <3>1. at' = [at EXCEPT ![a] = "closing"] /\ Store!Change(a, "expired")
          /\ Store!Save(a, question') /\ lock = None /\ UNCHANGED <<result, spent>>
      BY <1>6, <1>b, <2>1 DEF Store!Expire, Store!Go
    <3>2. "expired" \in Store!States
      BY DEF Store!States
    <3> QED BY <2>1, <3>1, <3>2, ChangesKeep
  <2>2. CASE question[TopicOf[a]] # "pending"
    <3>1. at[a] = "expiring" /\ at' = [at EXCEPT ![a] = "over"]
          /\ result' = [result EXCEPT ![a] = "timeout"]
          /\ UNCHANGED <<question, event, lock, thread, tmp, file, spent>>
      BY <1>6, <1>b, <2>2
      DEF Store!Expire, Store!Return, Store!Go, Store!Stay, Store!memory, Store!disk
    <3> QED BY <1>d, <2>2, <3>1, MovesKeep
  <2> QED BY <2>1, <2>2
<1>7. CASE Store!Expired(a)
  <2>1. at[a] = "closing" /\ Store!Ended(a) /\ lock' = None
        /\ UNCHANGED <<question, event, thread, tmp, file, spent>>
        /\ at' = [at EXCEPT ![a] = "over"]
        /\ result' = [result EXCEPT ![a] = IF thread[a].step = "done" THEN "timeout" ELSE "error"]
    BY <1>7 DEF Store!Expired, Store!Return, Store!Go, Store!disk
  <2> DEFINE v == IF thread[a].step = "done" THEN "timeout" ELSE "error"
  <2>2. v \in Store!Results /\ v \notin Store!Replies
    BY <1>d
  <2>3. result' = [result EXCEPT ![a] = v]
    BY <2>1
  <2> HIDE DEF v
  <2> QED BY <2>1, <2>2, <2>3, ReleasesKeep
<1> QED BY <1>1, <1>2, <1>3, <1>4, <1>5, <1>6, <1>7 DEF Store!AskStep

\* And every step of a request that answers.
LEMMA ReplyKeeps ==
  ASSUME StoreInv, NEW r \in Requests, Store!ReplyStep(r)
  PROVE  StoreInv'
<1> USE QuestionTypes, StoreFacts
<1>a. result = [result EXCEPT ![r] = result[r]] /\ result[r] \in Store!Results
  OBVIOUS
<1>b. question[TopicOf[r]] \in Store!States /\ Store!Status(r) = question[TopicOf[r]]
  BY DEF Store!Status
<1>d. {"none", "timeout", "stopped", "error"} \cup Store!Replies \subseteq Store!Results
  BY DEF Store!Results
<1>e. r \notin Asks
  OBVIOUS
<1>1. CASE Store!Send(r)
  <2>1. at[r] = "new" /\ at' = [at EXCEPT ![r] = "entering"] /\ UNCHANGED result
        /\ UNCHANGED <<question, event, lock, thread, tmp, file, spent>>
    BY <1>1 DEF Store!Send, Store!Go, Store!Stay, Store!memory, Store!disk
  <2> QED BY <1>a, <2>1, MovesKeep
<1>2. CASE Store!Reply(r)
  <2>1. CASE question[TopicOf[r]] = "pending"
    <3>1. at' = [at EXCEPT ![r] = "saving"] /\ Store!Change(r, ReplyOf[r])
          /\ Store!Save(r, question') /\ lock = None /\ UNCHANGED <<result, spent>>
      BY <1>2, <1>b, <2>1 DEF Store!Reply, Store!Go
    <3>2. ReplyOf[r] \in Store!States
      BY DEF Store!States
    <3> QED BY <2>1, <3>1, <3>2, ChangesKeep
  <2>2. CASE question[TopicOf[r]] # "pending"
    <3> DEFINE v == IF question[TopicOf[r]] \in Store!Replies THEN question[TopicOf[r]] ELSE "none"
    <3>1. at[r] = "entering" /\ lock = None /\ at' = [at EXCEPT ![r] = "over"]
          /\ result' = [result EXCEPT ![r] = v]
          /\ UNCHANGED <<question, event, lock, thread, tmp, file, spent>>
      BY <1>2, <1>b, <2>2
      DEF Store!Reply, Store!Return, Store!Go, Store!Stay, Store!memory, Store!disk
    <3>2. v \in Store!Results /\ (v \in Store!Replies => v = question[TopicOf[r]])
      BY <1>d
    <3> HIDE DEF v
    <3> QED BY <2>2, <3>1, <3>2, MovesKeep
  <2> QED BY <2>1, <2>2
<1>3. CASE Store!Replied(r)
  <2> DEFINE v == IF thread[r].step = "done" THEN question[TopicOf[r]] ELSE "error"
  <2>1. at[r] = "saving" /\ Store!Ended(r) /\ lock' = None
        /\ UNCHANGED <<question, event, thread, tmp, file, spent>>
        /\ at' = [at EXCEPT ![r] = "over"] /\ result' = [result EXCEPT ![r] = v]
    BY <1>3, <1>b DEF Store!Replied, Store!Return, Store!Go, Store!disk
  <2>2. question[TopicOf[r]] = ReplyOf[r]
    BY <2>1 DEF Decided
  <2>3. v \in Store!Results /\ (v \notin Store!Replies \/ v = question[TopicOf[r]])
    BY <1>d, <2>2
  <2> HIDE DEF v
  <2> QED BY <1>e, <2>1, <2>3, ReleasesKeep
<1> QED BY <1>1, <1>2, <1>3 DEF Store!ReplyStep

\* While no turn is stopped and no write fails, a client's answer is kept, a question is
\* pending only while a call asks it, and all that hear a reply to it hear the same, through
\* timeouts, restarts and answers that meet; until a restart they hear the same whatever is
\* stopped or fails (StructuredQuestionStore, ask_user_question).
THEOREM QuestionsStayKept == ToolsSpec => []QuestionsAreKept
<1>1. ToolsInit => StoreInv
  BY StoreBegins DEF ToolsInit
<1>2. StoreInv /\ [ToolsNext]_toolVars => StoreInv'
  <2> SUFFICES ASSUME StoreInv, [ToolsNext]_toolVars PROVE StoreInv'
    OBVIOUS
  <2>1. CASE Store!Next
    BY <2>1, AskKeeps, ReplyKeeps, WritesKeep, FaultsKeep, CrashKeeps DEF Store!Next
  <2>2. CASE UNCHANGED questionVars
    BY <2>2 DEF questionVars, StoreInv, Store!TypeOK, Decided, HeardIsKept, Unspoilt, Locked,
                FileFollows, Agrees, Behind, TellsAre, Store!AnswersAgree, Store!PendingIsAsked
  <2>3. Store!Next \/ UNCHANGED questionVars
    BY DEF ToolsNext, toolVars
  <2> QED BY <2>1, <2>2, <2>3
<1>3. StoreInv => QuestionsAreKept
  <2> SUFFICES ASSUME StoreInv
               PROVE  /\ Store!TypeOK
                      /\ Unspoilt => Store!ToldIsKept /\ Store!PendingIsAsked
                      /\ Unspoilt \/ spent.crashes = 0 => Store!AnswersAgree
    BY DEF QuestionsAreKept, Unspoilt
  <2>1. HeardIsKept => Store!AnswersAgree
    BY DEF HeardIsKept, Store!AnswersAgree
  <2>2. TellsAre => Store!ToldIsKept
    BY DEF TellsAre, Store!ToldIsKept, Store!Status
  <2> QED BY <2>1, <2>2 DEF StoreInv
<1> QED BY <1>1, <1>2, <1>3, PTL DEF ToolsSpec

-----------------------------------------------------------------------------
(* Delegations: a call with an intent that leads is the one in flight for  *)
(* it, so there is one; a follower has a leader whose future is a promise; *)
(* and a turn has spawned at least the children it has rows for.           *)

\* The calls that lead a run of their own, and have begun.
Leading == {"preparing", "announcing", "running", "stopping", "closing"}
Leads(c) == delegated[c].at \in Leading
Begun == {c \in Calls : delegated[c].at # "new"}

\* A leader is in flight for its intent.
Registered ==
  \A c \in Calls : Leads(c) /\ CorrelationOf[c] # None => inFlight[Subagents!Key(c)] = c

\* Whom others may wait for has a future; the result of a future is the answer of a
\* call that is over; and who follows never leads.
Promised ==
  /\ \A i \in Subagents!IntentKeys : inFlight[i] # None => future[inFlight[i]] # "none"
  /\ \A c \in Calls : leader[c] # None => future[leader[c]] # "none"
  /\ \A c \in Calls : future[c] \notin {"none", "pending", "cancelled"} =>
       delegated[c] = [at |-> "over", answer |-> future[c]]
  /\ \A c \in Calls : leader[c] # None => delegated[c].at \in {"following", "over"}
  /\ \A c \in Calls : delegated[c].at = "following" => leader[c] # None

\* Who followed to the end heard what its leader was told.
Heard ==
  \A c \in Calls :
    leader[c] # None /\ delegated[c].at = "over" /\ delegated[c].answer # "cancelled" =>
      delegated[leader[c]] = delegated[c]

\* A conversation goes on while its call waits for it, or was left behind; it has a row.
Accompanied ==
  \A c \in Calls :
    /\ child[c] \in Subagents!Alive =>
         \/ delegated[c].at \in {"running", "stopping"}
         \/ delegated[c] = [at |-> "over", answer |-> "cancelled"]
    /\ child[c] \in Subagents!Alive \/ delegated[c].at \in {"announcing", "running", "stopping"} =>
         childRow[c] # "none"

\* The spawns of a turn count the children with a row and those to come.
Spawned(t) ==
  {c \in Calls : TurnOf[c] = t /\ (childRow[c] # "none" \/ delegated[c].at = "preparing")}
Counted ==
  \A t \in Turns :
    Cardinality(Spawned(t)) <= spawns[t] /\ spawns[t] <= Cardinality(Begun)

DelegInv ==
  Subagents!TypeOK /\ Registered /\ Promised /\ Heard /\ Accompanied /\ Counted

LEMMA DelegationTypes ==
  /\ TurnOf \in [Calls -> Turns] /\ CorrelationOf \in [Calls -> Correlations \cup {None}]
  /\ IdentityOf \in [Calls -> Identities] /\ None \notin Calls \cup Correlations
  /\ IsFiniteSet(Calls) /\ Cap \in Nat /\ MaxFaults \in Nat /\ Budgeted \in BOOLEAN
  /\ Cardinality(Calls) \in Nat /\ Subagents!Cardinality(Calls) = Cardinality(Calls)
<1>2. Subagents!Cardinality(Calls) = Cardinality(Calls)
  BY DEF Subagents!Cardinality, Cardinality
<1>3. Subagents!IsFiniteSet(Calls) <=> IsFiniteSet(Calls)
  BY DEF Subagents!IsFiniteSet, IsFiniteSet
<1>1. /\ TurnOf \in [Calls -> Turns] /\ CorrelationOf \in [Calls -> Correlations \cup {None}]
      /\ IdentityOf \in [Calls -> Identities] /\ None \notin Calls \cup Correlations
      /\ IsFiniteSet(Calls) /\ Cap \in Nat /\ MaxFaults \in Nat /\ Budgeted \in BOOLEAN
  BY <1>3, DelegationParameters DEF Subagents!Parameters
<1> QED BY <1>1, <1>2, FS_CardinalityType

LEMMA DelegationBegins == Subagents!Init => DelegInv
<1> SUFFICES ASSUME Subagents!Init PROVE DelegInv
  OBVIOUS
<1> USE DelegationTypes DEF Subagents!Init
<1>1. Subagents!TypeOK
  <2>1. 0 \in 0..(IF Budgeted THEN Cap ELSE Cardinality(Calls))
    OBVIOUS
  <2>2. delegated \in [Calls -> [at : Subagents!Positions, answer : Subagents!Answers \cup {None}]]
    BY DEF Subagents!Positions
  <2>3. spawns \in [Turns -> 0..(IF Budgeted THEN Cap ELSE Cardinality(Calls))]
    BY <2>1
  <2>4. faults \in 0..MaxFaults
    OBVIOUS
  <2>5. stopped \in [coming : SUBSET Calls, came : SUBSET Calls]
    OBVIOUS
  <2> QED BY <2>2, <2>3, <2>4, <2>5 DEF Subagents!TypeOK
<1>2. Registered /\ Promised /\ Heard /\ Accompanied
  BY DEF Registered, Leads, Leading, Promised, Heard, Accompanied, Subagents!Alive
<1>3. Counted
  <2>1. Begun = {} /\ \A t \in Turns : Spawned(t) = {}
    BY DEF Begun, Spawned
  <2>2. Cardinality({}) = 0
    BY FS_EmptySet
  <2>3. \A t \in Turns : spawns[t] = 0
    OBVIOUS
  <2> SUFFICES ASSUME NEW t \in Turns
               PROVE  Cardinality(Spawned(t)) <= spawns[t] /\ spawns[t] <= Cardinality(Begun)
    BY DEF Counted
  <2>4. Cardinality(Spawned(t)) = 0 /\ Cardinality(Begun) = 0 /\ spawns[t] = 0
    BY <2>1, <2>2, <2>3
  <2> QED BY <2>4
<1> QED BY <1>1, <1>2, <1>3 DEF DelegInv

\* What a call that is not over keeps: its place in the types.
CallType ==
  [at : Subagents!Positions, answer : Subagents!Answers \cup {None}]

LEMMA GoesTo ==
  ASSUME delegated \in [Calls -> CallType], NEW c \in Calls, NEW place \in Subagents!Positions,
         Subagents!Go(c, place)
  PROVE  /\ delegated' \in [Calls -> CallType]
         /\ delegated' = [delegated EXCEPT ![c] = [at |-> place, answer |-> delegated[c].answer]]
<1> DEFINE e == [delegated[c] EXCEPT !.at = place]
<1>1. delegated' = [delegated EXCEPT ![c] = e]
  BY DEF Subagents!Go, CallType
<1>2. e = [at |-> place, answer |-> delegated[c].answer] /\ e \in CallType
  BY DEF CallType
<1> HIDE DEF e
<1> QED BY <1>1, <1>2

LEMMA Closes ==
  ASSUME delegated \in [Calls -> CallType], NEW c \in Calls, NEW answer \in Subagents!Answers,
         Subagents!Close(c, answer)
  PROVE  delegated' \in [Calls -> CallType]
BY DEF Subagents!Close, CallType, Subagents!Positions

LEMMA EndsTyped ==
  ASSUME Subagents!TypeOK, NEW c \in Calls, NEW answer \in Subagents!Answers,
         Subagents!End(c, answer)
  PROVE  /\ delegated' \in [Calls -> CallType]
         /\ future' \in [Calls -> Subagents!Answers \cup {"none", "pending"}]
         /\ inFlight' \in [Subagents!IntentKeys -> Calls \cup {None}]
         /\ active' \in [Correlations -> Calls \cup {None}]
<1>1. delegated' \in [Calls -> CallType]
  BY DEF Subagents!TypeOK, Subagents!End, CallType, Subagents!Positions
<1>2. future' \in [Calls -> Subagents!Answers \cup {"none", "pending"}]
  BY DEF Subagents!TypeOK, Subagents!End, Subagents!Settle
<1>3. inFlight' \in [Subagents!IntentKeys -> Calls \cup {None}]
  BY DEF Subagents!TypeOK, Subagents!End
<1>4. active' \in [Correlations -> Calls \cup {None}]
  BY DelegationTypes DEF Subagents!TypeOK, Subagents!End
<1> QED BY <1>1, <1>2, <1>3, <1>4

\* A step that begins no spawn keeps the count.
LEMMA CountStays ==
  ASSUME Counted, UNCHANGED spawns, spawns \in [Turns -> Nat],
         \A t \in Turns : Spawned(t)' \subseteq Spawned(t), Begun \subseteq Begun'
  PROVE  Counted'
<1> SUFFICES ASSUME NEW t \in Turns
             PROVE  (Cardinality(Spawned(t)) <= spawns[t] /\ spawns[t] <= Cardinality(Begun))'
  BY DEF Counted
<1>1. IsFiniteSet(Spawned(t)) /\ IsFiniteSet(Begun')
  BY DelegationTypes, FS_Subset DEF Spawned, Begun
<1>2. Cardinality(Spawned(t)') <= Cardinality(Spawned(t)) /\ Cardinality(Spawned(t)') \in Nat
  BY <1>1, FS_Subset, FS_CardinalityType
<1>3. Cardinality(Begun) <= Cardinality(Begun') /\ Cardinality(Begun) \in Nat
      /\ Cardinality(Begun') \in Nat /\ Cardinality(Spawned(t)) \in Nat
  BY <1>1, FS_Subset, FS_CardinalityType
<1>4. Cardinality(Spawned(t)) <= spawns[t] /\ spawns[t] <= Cardinality(Begun)
  BY DEF Counted
<1> QED BY <1>2, <1>3, <1>4

\* A call that begins.
LEMMA BeginKeeps ==
  ASSUME DelegInv, NEW c \in Calls, Subagents!Begin(c)
  PROVE  DelegInv'
<1> USE DelegationTypes
<1>0. Subagents!TypeOK /\ Registered /\ Promised /\ Heard /\ Accompanied /\ Counted
  BY DEF DelegInv
<1>a. delegated \in [Calls -> CallType] /\ delegated[c].at = "new" /\ ~Leads(c)
  BY <1>0 DEF Subagents!TypeOK, CallType, Subagents!Begin, Leads, Leading
<1>b. UNCHANGED <<active, child, childRow, stopped, asked, faults>>
  BY DEF Subagents!Begin
<1>c. leader[c] = None /\ future[c] \in {"none", "pending", "cancelled"}
      /\ child[c] \notin Subagents!Alive
  BY <1>0, <1>a DEF Promised, Accompanied
<1>d. spawns \in [Turns -> Nat] /\ spawns[TurnOf[c]] \in Nat
  BY <1>0 DEF Subagents!TypeOK
<1>1. CASE Subagents!Follow(c) /\ Subagents!InFlight(c)
  <2> DEFINE l == inFlight[Subagents!Key(c)]
  <2>1. Subagents!Key(c) \in Subagents!IntentKeys /\ l \in Calls /\ l # None
    BY <1>0, <1>1 DEF Subagents!Key, Subagents!IntentKeys, Subagents!TypeOK, Subagents!InFlight
  <2>2. /\ leader' = [leader EXCEPT ![c] = l] /\ UNCHANGED <<future, inFlight, spawns>>
        /\ Subagents!Go(c, "following")
    BY <1>1 DEF Subagents!Follow
  <2>3. /\ delegated' \in [Calls -> CallType]
        /\ delegated' = [delegated EXCEPT ![c] = [at |-> "following", answer |-> delegated[c].answer]]
    BY <1>a, <2>2, GoesTo DEF Subagents!Positions
  <2>4. Subagents!TypeOK'
    BY <1>0, <1>b, <2>1, <2>2, <2>3 DEF Subagents!TypeOK, CallType
  <2>5. Registered'
    BY <1>0, <1>a, <2>2, <2>3 DEF Registered, Leads, Leading
  <2>6. Promised'
    BY <1>0, <1>a, <2>1, <2>2, <2>3 DEF Promised, Subagents!TypeOK
  <2>7. Heard'
    BY <1>0, <1>a, <2>1, <2>2, <2>3 DEF Heard, Subagents!TypeOK
  <2>8. Accompanied'
    BY <1>0, <1>a, <1>b, <1>c, <2>2, <2>3 DEF Accompanied
  <2>9. Counted'
    <3>1. Begun \subseteq Begun' /\ \A t \in Turns : Spawned(t)' \subseteq Spawned(t)
      BY <1>a, <1>b, <2>3 DEF Begun, Spawned
    <3> QED BY <1>0, <1>d, <2>2, <3>1, CountStays
  <2> QED BY <2>4, <2>5, <2>6, <2>7, <2>8, <2>9 DEF DelegInv
<1>2. CASE Subagents!Refuse(c)
  <2>1. /\ delegated' = [delegated EXCEPT ![c] = [at |-> "over", answer |-> "refused"]]
        /\ UNCHANGED <<leader, future, inFlight, spawns>>
    BY <1>2 DEF Subagents!Refuse
  <2>2. Subagents!TypeOK'
    BY <1>0, <1>b, <2>1 DEF Subagents!TypeOK, Subagents!Positions, Subagents!Answers
  <2>3. Registered' /\ Promised' /\ Heard' /\ Accompanied'
    BY <1>0, <1>a, <1>b, <1>c, <2>1
    DEF Registered, Leads, Leading, Promised, Heard, Accompanied, Subagents!TypeOK
  <2>4. Counted'
    <3>1. Begun \subseteq Begun' /\ \A t \in Turns : Spawned(t)' \subseteq Spawned(t)
      BY <1>a, <1>b, <2>1 DEF Begun, Spawned
    <3> QED BY <1>0, <1>d, <2>1, <3>1, CountStays
  <2> QED BY <2>2, <2>3, <2>4 DEF DelegInv
<1>3. CASE Subagents!Lead(c) /\ ~Subagents!InFlight(c)
  <2>a. PICK i : i = Subagents!Key(c)
    OBVIOUS
  <2>b. PICK t0 \in Turns : t0 = TurnOf[c]
    OBVIOUS
  <2>1. /\ spawns' = [spawns EXCEPT ![t0] = spawns[t0] + 1]
        /\ UNCHANGED leader /\ Subagents!Go(c, "preparing")
    BY <1>3, <2>b DEF Subagents!Lead
  <2>2. /\ CorrelationOf[c] = None => UNCHANGED <<future, inFlight>>
        /\ CorrelationOf[c] # None =>
             /\ future' = [future EXCEPT ![c] = "pending"]
             /\ inFlight[i] = None /\ inFlight' = [inFlight EXCEPT ![i] = c]
             /\ i \in Subagents!IntentKeys
    BY <1>3, <2>a DEF Subagents!Lead, Subagents!InFlight, Subagents!Key, Subagents!IntentKeys
  <2>3. /\ delegated' \in [Calls -> CallType]
        /\ delegated' = [delegated EXCEPT ![c] = [at |-> "preparing", answer |-> delegated[c].answer]]
    BY <1>a, <2>1, GoesTo DEF Subagents!Positions
  <2>4. /\ Begun' = Begun \cup {c} /\ c \notin Begun
        /\ Spawned(t0)' = Spawned(t0) \cup {c}
        /\ \A t \in Turns \ {t0} : Spawned(t)' = Spawned(t)
    <3>1. \A d \in Calls : d # c => delegated'[d] = delegated[d]
      BY <2>3
    <3>2. delegated'[c].at = "preparing"
      BY <2>3
    <3>3. Begun' = Begun \cup {c} /\ c \notin Begun
      BY <1>a, <3>1, <3>2 DEF Begun
    <3>4. Spawned(t0)' = Spawned(t0) \cup {c}
      BY <1>a, <1>b, <2>b, <3>1, <3>2 DEF Spawned
    <3>5. \A t \in Turns \ {t0} : Spawned(t)' = Spawned(t)
      BY <1>a, <1>b, <2>b, <3>1, <3>2 DEF Spawned
    <3> QED BY <3>3, <3>4, <3>5
  <2>5. IsFiniteSet(Begun) /\ \A t \in Turns : IsFiniteSet(Spawned(t))
    BY FS_Subset DEF Begun, Spawned
  <2>6. Cardinality(Begun') = Cardinality(Begun) + 1 /\ Cardinality(Begun) \in Nat
    BY <2>4, <2>5, FS_AddElement, FS_CardinalityType
  <2>7. Cardinality(Spawned(t0)') <= Cardinality(Spawned(t0)) + 1
        /\ \A t \in Turns : Cardinality(Spawned(t)) \in Nat
        /\ Cardinality(Spawned(t0)') \in Nat
    <3>1. Cardinality(Spawned(t0) \cup {c})
            = IF c \in Spawned(t0) THEN Cardinality(Spawned(t0)) ELSE Cardinality(Spawned(t0)) + 1
      BY <2>5, FS_AddElement
    <3>2. \A t \in Turns : Cardinality(Spawned(t)) \in Nat
      BY <2>5, FS_CardinalityType
    <3>3. Cardinality(Spawned(t0)') = Cardinality(Spawned(t0) \cup {c})
      BY <2>4
    <3>4. Cardinality(Spawned(t0)) \in Nat
      BY <3>2
    <3>5. Cardinality(Spawned(t0) \cup {c})
            \in {Cardinality(Spawned(t0)), Cardinality(Spawned(t0)) + 1}
      BY <3>1
    <3>6. Cardinality(Spawned(t0)') \in {Cardinality(Spawned(t0)), Cardinality(Spawned(t0)) + 1}
      BY <3>3, <3>5
    <3>7. Cardinality(Spawned(t0)') \in Nat
          /\ Cardinality(Spawned(t0)') <= Cardinality(Spawned(t0)) + 1
      BY <3>4, <3>6
    <3> QED BY <3>2, <3>7
  <2>8. Counted'
    <3> SUFFICES ASSUME NEW t \in Turns
                 PROVE  (Cardinality(Spawned(t)) <= spawns[t] /\ spawns[t] <= Cardinality(Begun))'
      BY DEF Counted
    <3>1. Cardinality(Spawned(t)) <= spawns[t] /\ spawns[t] <= Cardinality(Begun) /\ spawns[t] \in Nat
      BY <1>0, <1>d DEF Counted
    <3>2. CASE t = t0
      BY <1>d, <2>1, <2>6, <2>7, <3>1, <3>2
    <3>3. CASE t # t0
      BY <1>d, <2>1, <2>4, <2>6, <3>1, <3>3
    <3> QED BY <3>2, <3>3
  <2>9. spawns' \in [Turns -> 0..(IF Budgeted THEN Cap ELSE Cardinality(Calls))]
    <3>1. Begun' \subseteq Calls
      BY DEF Begun
    <3>2. Cardinality(Begun') <= Cardinality(Calls) /\ Cardinality(Begun') \in Nat
      BY <3>1, FS_Subset, FS_CardinalityType
    <3>3. spawns[t0] + 1 \in 0..(IF Budgeted THEN Cap ELSE Cardinality(Calls))
      <4>1. CASE Budgeted
        BY <1>3, <1>d, <2>b, <4>1 DEF Subagents!Lead, Subagents!Spent
      <4>2. CASE ~Budgeted
        <5>1. spawns'[t0] <= Cardinality(Begun') /\ spawns'[t0] = spawns[t0] + 1
          BY <1>d, <2>1, <2>8 DEF Counted
        <5> QED BY <1>d, <3>2, <4>2, <5>1
      <4> QED BY <4>1, <4>2
    <3> QED BY <1>0, <2>1, <3>3 DEF Subagents!TypeOK
  <2>10. Subagents!TypeOK'
    <3>1. future' \in [Calls -> Subagents!Answers \cup {"none", "pending"}]
      BY <1>0, <2>2 DEF Subagents!TypeOK
    <3>2. inFlight' \in [Subagents!IntentKeys -> Calls \cup {None}]
      BY <1>0, <2>2 DEF Subagents!TypeOK
    <3> QED BY <1>0, <1>b, <2>1, <2>3, <2>9, <3>1, <3>2 DEF Subagents!TypeOK, CallType
  <2>11. Registered'
    <3> SUFFICES ASSUME NEW d \in Calls, Leads(d)', CorrelationOf[d] # None
                 PROVE  inFlight'[Subagents!Key(d)] = d
      BY DEF Registered, Subagents!Key
    <3>1. CASE d = c
      <4>1. Subagents!Key(d) = i /\ inFlight' = [inFlight EXCEPT ![i] = c]
            /\ i \in Subagents!IntentKeys
        BY <2>a, <2>2, <3>1 DEF Subagents!Key
      <4> QED BY <1>0, <3>1, <4>1 DEF Subagents!TypeOK
    <3>2. CASE d # c
      <4>1. Leads(d)
        BY <2>3, <3>2 DEF Leads
      <4>2. inFlight[Subagents!Key(d)] = d
        BY <1>0, <4>1 DEF Registered
      <4>3. CorrelationOf[c] # None => Subagents!Key(d) # i
        BY <2>2, <4>2
      <4>4. Subagents!Key(d) \in Subagents!IntentKeys
        BY DEF Subagents!Key, Subagents!IntentKeys
      <4> QED BY <1>0, <2>2, <4>2, <4>3, <4>4 DEF Subagents!TypeOK
    <3> QED BY <3>1, <3>2
  <2>12. Promised'
    <3>1. future'[c] # "none" \/ CorrelationOf[c] = None
      BY <1>0, <2>2 DEF Subagents!TypeOK
    <3>2. \A d \in Calls : d # c \/ CorrelationOf[c] = None => future'[d] = future[d]
      BY <1>0, <2>2 DEF Subagents!TypeOK
    <3>3. \A d \in Calls : future[d] # "none" => future'[d] # "none"
      BY <3>1, <3>2
    <3>4. \A j \in Subagents!IntentKeys : inFlight'[j] # None => future'[inFlight'[j]] # "none"
      <4> SUFFICES ASSUME NEW j \in Subagents!IntentKeys, inFlight'[j] # None
                   PROVE  future'[inFlight'[j]] # "none"
        OBVIOUS
      <4>1. CASE inFlight'[j] = inFlight[j]
        <5>1. inFlight[j] \in Calls /\ future[inFlight[j]] # "none"
          BY <1>0, <4>1 DEF Subagents!TypeOK, Promised
        <5> QED BY <3>3, <4>1, <5>1
      <4>2. CASE inFlight'[j] # inFlight[j]
        <5>1. inFlight'[j] = c /\ CorrelationOf[c] # None
          BY <1>0, <2>2, <4>2 DEF Subagents!TypeOK
        <5> QED BY <3>1, <5>1
      <4> QED BY <4>1, <4>2
    <3>5. \A d \in Calls : leader'[d] # None => future'[leader'[d]] # "none"
      BY <1>0, <2>1, <3>3 DEF Promised, Subagents!TypeOK
    <3>6. \A d \in Calls : future'[d] \notin {"none", "pending", "cancelled"} =>
            delegated'[d] = [at |-> "over", answer |-> future'[d]]
      <4> SUFFICES ASSUME NEW d \in Calls, future'[d] \notin {"none", "pending", "cancelled"}
                   PROVE  delegated'[d] = [at |-> "over", answer |-> future'[d]]
        OBVIOUS
      <4>1. d # c
        BY <1>0, <1>c, <2>2 DEF Subagents!TypeOK
      <4> QED BY <1>0, <2>3, <3>2, <4>1 DEF Promised
    <3>7. /\ \A d \in Calls : leader'[d] # None => delegated'[d].at \in {"following", "over"}
          /\ \A d \in Calls : delegated'[d].at = "following" => leader'[d] # None
      BY <1>0, <1>a, <1>c, <2>1, <2>3 DEF Promised
    <3> USE DEF Promised
    <3> QED BY <3>4, <3>5, <3>6, <3>7, Zenon
  <2>13. Heard'
    BY <1>0, <1>a, <1>c, <2>1, <2>3 DEF Heard, Subagents!TypeOK
  <2>14. Accompanied'
    BY <1>0, <1>a, <1>b, <1>c, <2>3 DEF Accompanied
  <2> QED BY <2>8, <2>10, <2>11, <2>12, <2>13, <2>14 DEF DelegInv
<1> QED BY <1>1, <1>2, <1>3 DEF Subagents!Begin

\* A call that is over keeps what holds: it gave up its place, and told its followers.
LEMMA EndKeeps ==
  ASSUME DelegInv, NEW c \in Calls, NEW answer \in Subagents!Answers,
         Subagents!End(c, answer), delegated[c].at # "over",
         leader[c] # None \/ child[c] \in Subagents!Alive => answer = "cancelled",
         childRow' \in [Calls -> {"none", "running", "settled", "failed", "cancelled"}],
         \A d \in Calls : childRow'[d] # "none" <=> childRow[d] # "none",
         stopped' \in [coming : SUBSET Calls, came : SUBSET Calls],
         faults' \in 0..MaxFaults, UNCHANGED <<leader, child, spawns, asked>>
  PROVE  DelegInv'
<1> USE DelegationTypes
<1>0. Subagents!TypeOK /\ Registered /\ Promised /\ Heard /\ Accompanied /\ Counted
  BY DEF DelegInv
<1>a. /\ delegated' = [delegated EXCEPT ![c] = [at |-> "over", answer |-> answer]]
      /\ delegated \in [Calls -> CallType]
      /\ future' = Subagents!Settle(c, answer)
      /\ inFlight' = [i \in Subagents!IntentKeys |-> IF inFlight[i] = c THEN None ELSE inFlight[i]]
  BY <1>0 DEF Subagents!End, Subagents!TypeOK, CallType
<1>b. /\ delegated'[c] = [at |-> "over", answer |-> answer]
      /\ \A d \in Calls : d # c => delegated'[d] = delegated[d]
  BY <1>a
<1>c. \A d \in Calls : /\ future'[d] # "none" <=> future[d] # "none"
                       /\ d # c => future'[d] = future[d]
                       /\ future'[c] \in {answer, future[c]}
                       /\ future[c] = "pending" => future'[c] = answer
  BY <1>0, <1>a DEF Subagents!Settle, Subagents!TypeOK, Subagents!Answers
<1>1. Subagents!TypeOK'
  BY <1>0, EndsTyped DEF Subagents!TypeOK, CallType
<1>2. Registered'
  <2> SUFFICES ASSUME NEW d \in Calls, Leads(d)', CorrelationOf[d] # None
               PROVE  inFlight'[Subagents!Key(d)] = d
    BY DEF Registered, Subagents!Key
  <2>1. d # c
    BY <1>b DEF Leads, Leading
  <2>2. inFlight[Subagents!Key(d)] = d
    BY <1>0, <1>b, <2>1 DEF Registered, Leads
  <2>3. Subagents!Key(d) \in Subagents!IntentKeys
    BY DEF Subagents!Key, Subagents!IntentKeys
  <2> QED BY <1>a, <2>1, <2>2, <2>3
<1>3. Promised'
  <2>1. \A i \in Subagents!IntentKeys : inFlight'[i] # None => future'[inFlight'[i]] # "none"
    BY <1>0, <1>a, <1>c DEF Promised, Subagents!TypeOK
  <2>2. \A d \in Calls : leader'[d] # None => future'[leader'[d]] # "none"
    BY <1>0, <1>c DEF Promised, Subagents!TypeOK
  <2>3. \A d \in Calls : future'[d] \notin {"none", "pending", "cancelled"} =>
          delegated'[d] = [at |-> "over", answer |-> future'[d]]
    <3> SUFFICES ASSUME NEW d \in Calls, future'[d] \notin {"none", "pending", "cancelled"}
                 PROVE  delegated'[d] = [at |-> "over", answer |-> future'[d]]
      OBVIOUS
    <3>1. CASE d # c
      BY <1>0, <1>b, <1>c, <3>1 DEF Promised
    <3>2. CASE d = c
      <4>1. future[c] \in {"none", "pending", "cancelled"}
        <5> SUFFICES ASSUME future[c] \notin {"none", "pending", "cancelled"} PROVE FALSE
          OBVIOUS
        <5>1. delegated[c] = [at |-> "over", answer |-> future[c]]
          BY <1>0 DEF Promised
        <5> QED BY <5>1
      <4> QED BY <1>b, <1>c, <3>2, <4>1
    <3> QED BY <3>1, <3>2
  <2>4. \A d \in Calls : leader'[d] # None => delegated'[d].at \in {"following", "over"}
    BY <1>0, <1>b DEF Promised
  <2>5. \A d \in Calls : delegated'[d].at = "following" => leader'[d] # None
    BY <1>0, <1>b DEF Promised
  <2> USE DEF Promised
  <2> QED BY <2>1, <2>2, <2>3, <2>4, <2>5, Zenon
<1>4. Heard'
  BY <1>0, <1>b DEF Heard, Subagents!TypeOK
<1>5. Accompanied'
  BY <1>0, <1>b DEF Accompanied
<1>6. Counted'
  <2>1. Begun \subseteq Begun' /\ \A t \in Turns : Spawned(t)' \subseteq Spawned(t)
    BY <1>0, <1>b DEF Begun, Spawned
  <2>2. spawns \in [Turns -> Nat]
    BY <1>0 DEF Subagents!TypeOK
  <2> QED BY <1>0, <2>1, <2>2, CountStays
<1> QED BY <1>1, <1>2, <1>3, <1>4, <1>5, <1>6 DEF DelegInv

\* A call that goes on, or closes, and its child with it.
LEMMA MoveKeeps ==
  ASSUME DelegInv, NEW c \in Calls, NEW e \in CallType,
         delegated' = [delegated EXCEPT ![c] = e],
         e.at \in Leading, Leads(c),
         e.at = "preparing" => delegated[c].at = "preparing",
         child' \in [Calls -> Subagents!Alive \cup Subagents!Ended \cup {"none"}],
         childRow' \in [Calls -> {"none", "running", "settled", "failed", "cancelled"}],
         \A d \in Calls : /\ d # c => child'[d] = child[d]
                          /\ childRow[d] # "none" => childRow'[d] # "none"
                          /\ childRow'[d] # "none" =>
                               childRow[d] # "none" \/ (d = c /\ delegated[c].at = "preparing"),
         child'[c] \in Subagents!Alive => e.at \in {"running", "stopping"},
         e.at \in {"announcing", "running", "stopping"} => childRow'[c] # "none",
         active' \in [Correlations -> Calls \cup {None}],
         stopped' \in [coming : SUBSET Calls, came : SUBSET Calls],
         faults' \in 0..MaxFaults, UNCHANGED <<leader, future, inFlight, spawns, asked>>
  PROVE  DelegInv'
<1> USE DelegationTypes
<1>0. Subagents!TypeOK /\ Registered /\ Promised /\ Heard /\ Accompanied /\ Counted
  BY DEF DelegInv
<1>b. /\ delegated'[c] = e /\ delegated \in [Calls -> CallType]
      /\ \A d \in Calls : d # c => delegated'[d] = delegated[d]
  BY <1>0 DEF Subagents!TypeOK, CallType
<1>1. Subagents!TypeOK'
  BY <1>0, <1>b DEF Subagents!TypeOK, CallType
<1>2. Registered'
  BY <1>0, <1>b DEF Registered, Leads, Subagents!Key
<1>c. leader[c] = None /\ future[c] \in {"none", "pending", "cancelled"}
  <2>1. leader[c] = None
    BY <1>0 DEF Promised, Leads, Leading
  <2>2. future[c] \notin {"none", "pending", "cancelled"} =>
          delegated[c] = [at |-> "over", answer |-> future[c]]
    BY <1>0 DEF Promised
  <2>3. delegated[c] # [at |-> "over", answer |-> future[c]]
    BY DEF Leads, Leading
  <2> QED BY <2>1, <2>2, <2>3
<1>3. Promised'
  <2>1. \A i \in Subagents!IntentKeys : inFlight'[i] # None => future'[inFlight'[i]] # "none"
    BY <1>0 DEF Promised
  <2>2. \A d \in Calls : leader'[d] # None => future'[leader'[d]] # "none"
    BY <1>0 DEF Promised
  <2>3. \A d \in Calls : future'[d] \notin {"none", "pending", "cancelled"} =>
          delegated'[d] = [at |-> "over", answer |-> future'[d]]
    BY <1>0, <1>b, <1>c DEF Promised
  <2>4. \A d \in Calls : leader'[d] # None => delegated'[d].at \in {"following", "over"}
    BY <1>0, <1>b, <1>c DEF Promised
  <2>5. \A d \in Calls : delegated'[d].at = "following" => leader'[d] # None
    BY <1>0, <1>b DEF Promised, Leading
  <2> USE DEF Promised
  <2> QED BY <2>1, <2>2, <2>3, <2>4, <2>5, Zenon
<1>4. Heard'
  <2> SUFFICES ASSUME NEW d \in Calls, leader[d] # None, delegated'[d].at = "over",
                      delegated'[d].answer # "cancelled"
               PROVE  delegated'[leader[d]] = delegated'[d]
    BY DEF Heard
  <2>1. d # c
    BY <1>c
  <2>2. delegated[leader[d]] = delegated[d] /\ delegated[d].at = "over"
    BY <1>0, <1>b, <2>1 DEF Heard
  <2>3. leader[d] # c /\ leader[d] \in Calls
    BY <1>0, <2>2 DEF Leads, Leading, Subagents!TypeOK
  <2> QED BY <1>b, <2>1, <2>2, <2>3
<1>5. Accompanied'
  <2> SUFFICES ASSUME NEW d \in Calls
      PROVE  (/\ child[d] \in Subagents!Alive =>
                   \/ delegated[d].at \in {"running", "stopping"}
                   \/ delegated[d] = [at |-> "over", answer |-> "cancelled"]
              /\ child[d] \in Subagents!Alive \/ delegated[d].at \in {"announcing", "running", "stopping"} =>
                   childRow[d] # "none")'
    BY DEF Accompanied
  <2>1. CASE d = c
    BY <1>b, <2>1
  <2>2. CASE d # c
    BY <1>0, <1>b, <2>2 DEF Accompanied
  <2> QED BY <2>1, <2>2
<1>6. Counted'
  <2>1. Begun \subseteq Begun'
    BY <1>b DEF Begun, Leading
  <2>2. \A t \in Turns : Spawned(t)' \subseteq Spawned(t)
    BY <1>b DEF Spawned
  <2>3. spawns \in [Turns -> Nat]
    BY <1>0 DEF Subagents!TypeOK
  <2> QED BY <1>0, <2>1, <2>2, <2>3, CountStays
<1> QED BY <1>1, <1>2, <1>3, <1>4, <1>5, <1>6 DEF DelegInv

\* Only the conversations, their rows, or the promise to followers change.
LEMMA ChildKeeps ==
  ASSUME DelegInv, UNCHANGED <<delegated, leader, inFlight, active, spawns>>,
         child' \in [Calls -> Subagents!Alive \cup Subagents!Ended \cup {"none"}],
         childRow' \in [Calls -> {"none", "running", "settled", "failed", "cancelled"}],
         \A d \in Calls : /\ child'[d] \in Subagents!Alive => child[d] \in Subagents!Alive
                          /\ childRow'[d] # "none" <=> childRow[d] # "none",
         future' \in [Calls -> Subagents!Answers \cup {"none", "pending"}],
         \A d \in Calls : future'[d] = future[d] \/ (future[d] # "none" /\ future'[d] = "cancelled"),
         stopped' \in [coming : SUBSET Calls, came : SUBSET Calls], asked' \subseteq Calls,
         faults' \in 0..MaxFaults
  PROVE  DelegInv'
<1> USE DelegationTypes
<1>0. Subagents!TypeOK /\ Registered /\ Promised /\ Heard /\ Accompanied /\ Counted
  BY DEF DelegInv
<1>1. Subagents!TypeOK'
  BY <1>0 DEF Subagents!TypeOK
<1>2. Registered' /\ Heard'
  BY <1>0 DEF Registered, Leads, Subagents!Key, Heard
<1>3. Promised'
  <2>1. \A i \in Subagents!IntentKeys : inFlight'[i] # None => future'[inFlight'[i]] # "none"
    BY <1>0 DEF Promised, Subagents!TypeOK
  <2>2. \A d \in Calls : leader'[d] # None => future'[leader'[d]] # "none"
    BY <1>0 DEF Promised, Subagents!TypeOK
  <2>3. \A d \in Calls : future'[d] \notin {"none", "pending", "cancelled"} =>
          delegated'[d] = [at |-> "over", answer |-> future'[d]]
    BY <1>0 DEF Promised
  <2>4. \A d \in Calls : leader'[d] # None => delegated'[d].at \in {"following", "over"}
    BY <1>0 DEF Promised
  <2>5. \A d \in Calls : delegated'[d].at = "following" => leader'[d] # None
    BY <1>0 DEF Promised
  <2> USE DEF Promised
  <2> QED BY <2>1, <2>2, <2>3, <2>4, <2>5, Zenon
<1>5. Accompanied'
  BY <1>0 DEF Accompanied
<1>6. Counted'
  <2>1. Begun \subseteq Begun' /\ \A t \in Turns : Spawned(t)' \subseteq Spawned(t)
    BY DEF Begun, Spawned
  <2>2. spawns \in [Turns -> Nat]
    BY <1>0 DEF Subagents!TypeOK
  <2> QED BY <1>0, <2>1, <2>2, CountStays
<1> QED BY <1>1, <1>2, <1>3, <1>5, <1>6 DEF DelegInv

\* A follower returns what its leader was told.
LEMMA JoinKeeps ==
  ASSUME DelegInv, NEW c \in Calls, Subagents!Join(c)
  PROVE  DelegInv'
<1> USE DelegationTypes
<1>0. Subagents!TypeOK /\ Registered /\ Promised /\ Heard /\ Accompanied /\ Counted
  BY DEF DelegInv
<1> DEFINE answer == future[leader[c]]
<1>1. /\ delegated[c].at = "following" /\ leader[c] # None /\ leader[c] \in Calls
      /\ answer # "pending" /\ answer # "none"
  BY <1>0 DEF Promised, Subagents!TypeOK, Subagents!Join
<1>2. answer \in Subagents!Answers
  BY <1>0, <1>1 DEF Subagents!TypeOK
<1>3. /\ delegated' = [delegated EXCEPT ![c] = [at |-> "over", answer |-> answer]]
      /\ delegated \in [Calls -> CallType]
      /\ UNCHANGED <<leader, future, inFlight, active, child, childRow, spawns, stopped, asked, faults>>
  BY <1>0 DEF Subagents!Join, Subagents!TypeOK, CallType
<1>4. answer # "cancelled" => delegated[leader[c]] = [at |-> "over", answer |-> answer]
  BY <1>0, <1>1 DEF Promised
<1>5. child[c] \notin Subagents!Alive
  <2>1. child[c] \in Subagents!Alive =>
          \/ delegated[c].at \in {"running", "stopping"}
          \/ delegated[c] = [at |-> "over", answer |-> "cancelled"]
    BY <1>0 DEF Accompanied
  <2>2. delegated[c] # [at |-> "over", answer |-> "cancelled"]
    BY <1>1
  <2> QED BY <1>1, <2>1, <2>2
<1>b. /\ delegated'[c] = [at |-> "over", answer |-> answer]
      /\ \A d \in Calls : d # c => delegated'[d] = delegated[d]
  BY <1>3
<1> HIDE DEF answer
<1>6. Subagents!TypeOK'
  <2>1. [at |-> "over", answer |-> answer] \in CallType
    BY <1>2 DEF CallType, Subagents!Positions
  <2>2. delegated' \in [Calls -> CallType]
    BY <1>3, <2>1
  <2> QED BY <1>0, <1>3, <2>2 DEF Subagents!TypeOK, CallType
<1>7. Registered'
  BY <1>0, <1>3, <1>b DEF Registered, Leads, Leading, Subagents!Key
<1>8. Promised'
  <2>1. \A i \in Subagents!IntentKeys : inFlight'[i] # None => future'[inFlight'[i]] # "none"
    BY <1>0, <1>3 DEF Promised
  <2>2. \A d \in Calls : leader'[d] # None => future'[leader'[d]] # "none"
    BY <1>0, <1>3 DEF Promised
  <2>3. \A d \in Calls : future'[d] \notin {"none", "pending", "cancelled"} =>
          delegated'[d] = [at |-> "over", answer |-> future'[d]]
    <3> SUFFICES ASSUME NEW d \in Calls, future[d] \notin {"none", "pending", "cancelled"}
                 PROVE  delegated'[d] = [at |-> "over", answer |-> future[d]]
      BY <1>3
    <3>1. delegated[d] = [at |-> "over", answer |-> future[d]]
      BY <1>0 DEF Promised
    <3>2. d # c
      BY <1>1, <3>1
    <3> QED BY <1>b, <3>1, <3>2
  <2>4. \A d \in Calls : leader'[d] # None => delegated'[d].at \in {"following", "over"}
    BY <1>0, <1>3, <1>b DEF Promised
  <2>5. \A d \in Calls : delegated'[d].at = "following" => leader'[d] # None
    BY <1>0, <1>3, <1>b DEF Promised
  <2> USE DEF Promised
  <2> QED BY <2>1, <2>2, <2>3, <2>4, <2>5, Zenon
<1>9. Heard'
  <2> SUFFICES ASSUME NEW d \in Calls, leader[d] # None, delegated'[d].at = "over",
                      delegated'[d].answer # "cancelled"
               PROVE  delegated'[leader[d]] = delegated'[d]
    BY <1>3 DEF Heard
  <2>1. CASE d = c
    <3>1. delegated[leader[c]] = [at |-> "over", answer |-> answer]
      BY <1>4, <1>b, <2>1
    <3>2. leader[c] # c
      BY <1>1, <3>1
    <3> QED BY <1>1, <1>b, <2>1, <3>1, <3>2
  <2>2. CASE d # c
    <3>1. delegated[d].at = "over" /\ delegated[leader[d]] = delegated[d]
      BY <1>0, <1>b, <2>2 DEF Heard
    <3>2. leader[d] \in Calls /\ leader[d] # c
      BY <1>0, <1>1, <3>1 DEF Subagents!TypeOK
    <3> QED BY <1>b, <2>2, <3>1, <3>2
  <2> QED BY <2>1, <2>2
<1>10. Accompanied'
  <2> SUFFICES ASSUME NEW d \in Calls
      PROVE  (/\ child[d] \in Subagents!Alive =>
                   \/ delegated[d].at \in {"running", "stopping"}
                   \/ delegated[d] = [at |-> "over", answer |-> "cancelled"]
              /\ child[d] \in Subagents!Alive \/ delegated[d].at \in {"announcing", "running", "stopping"} =>
                   childRow[d] # "none")'
    BY DEF Accompanied
  <2>1. CASE d = c
    BY <1>3, <1>5, <1>b, <2>1
  <2>2. CASE d # c
    BY <1>0, <1>3, <1>b, <2>2 DEF Accompanied
  <2> QED BY <2>1, <2>2
<1>11. Counted'
  <2>1. Begun \subseteq Begun' /\ \A t \in Turns : Spawned(t)' \subseteq Spawned(t)
    BY <1>1, <1>3, <1>b DEF Begun, Spawned
  <2>2. spawns \in [Turns -> Nat]
    BY <1>0 DEF Subagents!TypeOK
  <2> QED BY <1>0, <1>3, <2>1, <2>2, CountStays
<1> QED BY <1>6, <1>7, <1>8, <1>9, <1>10, <1>11 DEF DelegInv

\* The facts of a call that leads.
LEMMA LeadersOf ==
  ASSUME DelegInv, NEW c \in Calls
  PROVE  /\ Subagents!TypeOK /\ delegated \in [Calls -> CallType]
         /\ Leads(c) => leader[c] = None /\ delegated[c].at # "over" /\ delegated[c].at # "following"
         /\ delegated[c].at \in {"new", "preparing", "announcing", "closing", "following"} =>
              child[c] \notin Subagents!Alive
         /\ child[c] \in Subagents!Alive \/ delegated[c].at \in {"announcing", "running", "stopping"} =>
              childRow[c] # "none"
         /\ stopped \in [coming : SUBSET Calls, came : SUBSET Calls] /\ asked \subseteq Calls
         /\ faults \in 0..MaxFaults
         /\ child \in [Calls -> Subagents!Alive \cup Subagents!Ended \cup {"none"}]
         /\ childRow \in [Calls -> {"none", "running", "settled", "failed", "cancelled"}]
         /\ active \in [Correlations -> Calls \cup {None}]
         /\ future \in [Calls -> Subagents!Answers \cup {"none", "pending"}]
<1>1. Subagents!TypeOK /\ delegated \in [Calls -> CallType]
  BY DEF DelegInv, Subagents!TypeOK, CallType
<1>2. Leads(c) => leader[c] = None /\ delegated[c].at # "over" /\ delegated[c].at # "following"
  BY DEF DelegInv, Promised, Leads, Leading
<1>3. child[c] \in Subagents!Alive =>
          \/ delegated[c].at \in {"running", "stopping"}
          \/ delegated[c] = [at |-> "over", answer |-> "cancelled"]
  BY DEF DelegInv, Accompanied
<1>4. child[c] \in Subagents!Alive \/ delegated[c].at \in {"announcing", "running", "stopping"} =>
              childRow[c] # "none"
  BY DEF DelegInv, Accompanied
<1>5. delegated[c].at \in {"new", "preparing", "announcing", "closing", "following"} =>
              child[c] \notin Subagents!Alive
  BY <1>3
<1> QED BY <1>1, <1>2, <1>4, <1>5 DEF Subagents!TypeOK

LEMMA PrepareKeeps ==
  ASSUME DelegInv, NEW c \in Calls, Subagents!Prepare(c)
  PROVE  DelegInv'
<1> USE DelegationTypes, LeadersOf
<1>1. delegated[c].at = "preparing" /\ Leads(c)
      /\ UNCHANGED <<leader, child, spawns, stopped, asked>>
  BY DEF Subagents!Prepare, Leads, Leading
<1>2. CASE /\ Subagents!Go(c, "announcing") /\ childRow' = [childRow EXCEPT ![c] = "running"]
           /\ UNCHANGED <<future, inFlight, active, faults>>
  <2> DEFINE e == [at |-> "announcing", answer |-> delegated[c].answer]
  <2>1. delegated' = [delegated EXCEPT ![c] = e]
    BY <1>2, GoesTo DEF Subagents!Positions
  <2>2. e \in CallType /\ e.at = "announcing"
    BY DEF CallType, Subagents!Positions
  <2>3. childRow' \in [Calls -> {"none", "running", "settled", "failed", "cancelled"}]
        /\ childRow'[c] = "running" /\ \A d \in Calls : d # c => childRow'[d] = childRow[d]
    BY <1>2
  <2> HIDE DEF e
  <2> QED BY <1>1, <1>2, <2>1, <2>2, <2>3, MoveKeeps DEF Leading
<1>3. CASE Subagents!Fault /\ Subagents!End(c, "failed") /\ UNCHANGED childRow
  <2>1. faults' \in 0..MaxFaults
    BY <1>3 DEF Subagents!Fault
  <2>2. "failed" \in Subagents!Answers
    BY DEF Subagents!Answers
  <2> QED BY <1>1, <1>3, <2>1, <2>2, EndKeeps
<1> QED BY <1>2, <1>3 DEF Subagents!Prepare

LEMMA LaunchKeeps ==
  ASSUME DelegInv, NEW c \in Calls, Subagents!Launch(c)
  PROVE  DelegInv'
<1> USE DelegationTypes, LeadersOf
<1>1. delegated[c].at = "announcing" /\ Leads(c)
      /\ UNCHANGED <<leader, future, inFlight, childRow, spawns, stopped, asked, faults>>
      /\ Subagents!Go(c, "running") /\ child' = [child EXCEPT ![c] = "running"]
  BY DEF Subagents!Launch, Leads, Leading
<1> DEFINE e == [at |-> "running", answer |-> delegated[c].answer]
<1>2. delegated' = [delegated EXCEPT ![c] = e]
  BY <1>1, GoesTo DEF Subagents!Positions
<1>3. e \in CallType /\ e.at = "running"
  BY DEF CallType, Subagents!Positions
<1>4. child' \in [Calls -> Subagents!Alive \cup Subagents!Ended \cup {"none"}]
      /\ \A d \in Calls : d # c => child'[d] = child[d]
  BY <1>1 DEF Subagents!Alive
<1>5. active' \in [Correlations -> Calls \cup {None}]
  BY DEF Subagents!Launch
<1> HIDE DEF e
<1> QED BY <1>1, <1>2, <1>3, <1>4, <1>5, MoveKeeps DEF Leading

\* The conversation of a child ends, is silent, or is cancelled.
LEMMA ConversationKeeps ==
  ASSUME DelegInv, NEW c \in Calls, Subagents!ChildEnds(c) \/ Subagents!Silence(c)
  PROVE  DelegInv'
<1> USE DelegationTypes, LeadersOf
<1>1. CASE Subagents!ChildEnds(c)
  <2>1. PICK e \in Subagents!Ended :
          /\ child' = [child EXCEPT ![c] = e]
          /\ childRow' = IF e \in {"text", "paused"} THEN [childRow EXCEPT ![c] = "settled"] ELSE childRow
    BY <1>1 DEF Subagents!ChildEnds
  <2>2. child[c] \in Subagents!Alive /\ childRow[c] # "none"
        /\ UNCHANGED <<delegated, leader, future, inFlight, active, spawns, stopped, asked, faults>>
    BY <1>1 DEF Subagents!ChildEnds
  <2>3. child' \in [Calls -> Subagents!Alive \cup Subagents!Ended \cup {"none"}]
        /\ \A d \in Calls : child'[d] \in Subagents!Alive => child[d] \in Subagents!Alive
    BY <2>1 DEF Subagents!Alive, Subagents!Ended
  <2>4. childRow' \in [Calls -> {"none", "running", "settled", "failed", "cancelled"}]
        /\ \A d \in Calls : childRow'[d] # "none" <=> childRow[d] # "none"
    BY <2>1, <2>2
  <2>5. \A d \in Calls : future'[d] = future[d] \/ (future[d] # "none" /\ future'[d] = "cancelled")
    BY <2>2
  <2> QED BY <2>2, <2>3, <2>4, <2>5, ChildKeeps
<1>2. CASE Subagents!Silence(c)
  <2>1. /\ child[c] = "running" /\ child' = [child EXCEPT ![c] = "silent"]
        /\ UNCHANGED <<delegated, leader, future, inFlight, active, childRow, spawns, stopped, asked>>
        /\ faults' \in 0..MaxFaults
    BY <1>2 DEF Subagents!Silence, Subagents!Fault
  <2>2. child' \in [Calls -> Subagents!Alive \cup Subagents!Ended \cup {"none"}]
        /\ \A d \in Calls : child'[d] \in Subagents!Alive => child[d] \in Subagents!Alive
    BY <2>1 DEF Subagents!Alive
  <2>3. \A d \in Calls : future'[d] = future[d] \/ (future[d] # "none" /\ future'[d] = "cancelled")
    BY <2>1
  <2> QED BY <2>1, <2>2, <2>3, ChildKeeps
<1> QED BY <1>1, <1>2

\* A request to stop reaches a turn, or the registered child.
LEMMA RequestsKeep ==
  ASSUME DelegInv,
         (\E t \in Turns : Subagents!StopTurn(t))
           \/ \E k \in Correlations : Subagents!HardInterrupt(k)
  PROVE  DelegInv'
<1> USE DelegationTypes
<1>0. /\ stopped \in [coming : SUBSET Calls, came : SUBSET Calls] /\ asked \subseteq Calls
      /\ faults \in 0..MaxFaults
      /\ child \in [Calls -> Subagents!Alive \cup Subagents!Ended \cup {"none"}]
      /\ childRow \in [Calls -> {"none", "running", "settled", "failed", "cancelled"}]
      /\ active \in [Correlations -> Calls \cup {None}]
      /\ future \in [Calls -> Subagents!Answers \cup {"none", "pending"}]
  BY DEF DelegInv, Subagents!TypeOK
<1>1. ASSUME NEW t \in Turns, Subagents!StopTurn(t) PROVE DelegInv'
  <2>1. /\ UNCHANGED <<delegated, leader, future, inFlight, active, child, childRow, spawns, asked>>
        /\ stopped' = [stopped EXCEPT !.coming =
             @ \cup {c \in Subagents!CallsOf(t) : Subagents!Current(c)}]
        /\ faults' \in 0..MaxFaults
    BY <1>0, <1>1 DEF Subagents!StopTurn, Subagents!Fault
  <2>2. stopped' \in [coming : SUBSET Calls, came : SUBSET Calls]
    BY <1>0, <2>1 DEF Subagents!CallsOf
  <2>3. \A d \in Calls : future'[d] = future[d] \/ (future[d] # "none" /\ future'[d] = "cancelled")
    BY <2>1
  <2> QED BY <1>0, <2>1, <2>2, <2>3, ChildKeeps
<1>2. ASSUME NEW k \in Correlations, Subagents!HardInterrupt(k) PROVE DelegInv'
  <2>1. PICK c : c = active[k]
    OBVIOUS
  <2>2. c \in Calls /\ child[c] \in Subagents!Alive
        /\ child' = [child EXCEPT ![c] = "cancelling"] /\ asked' = asked \cup {c}
        /\ UNCHANGED <<delegated, leader, future, inFlight, active, childRow, spawns, stopped, faults>>
    BY <1>0, <1>2, <2>1 DEF Subagents!HardInterrupt
  <2>3. child' \in [Calls -> Subagents!Alive \cup Subagents!Ended \cup {"none"}]
        /\ \A d \in Calls : child'[d] \in Subagents!Alive => child[d] \in Subagents!Alive
    BY <1>0, <2>2 DEF Subagents!Alive
  <2>4. \A d \in Calls : future'[d] = future[d] \/ (future[d] # "none" /\ future'[d] = "cancelled")
    BY <2>2
  <2> QED BY <1>0, <2>2, <2>3, <2>4, ChildKeeps
<1> QED BY <1>1, <1>2

\* A call whose child is done, or lost, closes with its answer.
LEMMA CloseKeeps ==
  ASSUME DelegInv, NEW c \in Calls, NEW answer \in Subagents!Answers,
         Subagents!Close(c, answer), delegated[c].at \in {"running", "stopping"},
         child[c] \notin Subagents!Alive,
         stopped' \in [coming : SUBSET Calls, came : SUBSET Calls],
         UNCHANGED <<leader, future, inFlight, active, child, childRow, spawns, asked, faults>>
  PROVE  DelegInv'
<1> USE DelegationTypes, LeadersOf
<1> DEFINE e == [at |-> "closing", answer |-> answer]
<1>1. delegated' = [delegated EXCEPT ![c] = e]
  BY DEF Subagents!Close
<1>2. e \in CallType /\ e.at = "closing"
  BY DEF CallType, Subagents!Positions
<1>3. Leads(c)
  BY DEF Leads, Leading
<1> HIDE DEF e
<1> QED BY <1>1, <1>2, <1>3, MoveKeeps DEF Leading

\* The watchdog cancels a silent child.
LEMMA WatchdogKeeps ==
  ASSUME DelegInv, NEW c \in Calls, Subagents!Watchdog(c)
  PROVE  DelegInv'
<1> USE DelegationTypes, LeadersOf
<1>1. delegated[c].at = "running" /\ Leads(c) /\ Subagents!Go(c, "stopping")
      /\ child' = [child EXCEPT ![c] = "cancelling"]
      /\ UNCHANGED <<leader, future, inFlight, active, childRow, spawns, stopped, asked, faults>>
  BY DEF Subagents!Watchdog, Leads, Leading
<1> DEFINE e == [at |-> "stopping", answer |-> delegated[c].answer]
<1>2. delegated' = [delegated EXCEPT ![c] = e]
  BY <1>1, GoesTo DEF Subagents!Positions
<1>3. e \in CallType /\ e.at = "stopping"
  BY DEF CallType, Subagents!Positions
<1>4. child' \in [Calls -> Subagents!Alive \cup Subagents!Ended \cup {"none"}]
      /\ \A d \in Calls : d # c => child'[d] = child[d]
  BY <1>1 DEF Subagents!Alive
<1> HIDE DEF e
<1> QED BY <1>1, <1>2, <1>3, <1>4, MoveKeeps DEF Leading

\* The call sees that its child is done.
LEMMA AwaitedKeeps ==
  ASSUME DelegInv, NEW c \in Calls, Subagents!Awaited(c)
  PROVE  DelegInv'
<1> USE DelegationTypes, LeadersOf
<1>1. delegated[c].at \in {"running", "stopping"} /\ child[c] \in Subagents!Ended
      /\ child[c] \notin Subagents!Alive
      /\ UNCHANGED <<leader, child, childRow, spawns, stopped, asked, faults>>
  BY DEF Subagents!Awaited, Subagents!Ended, Subagents!Alive
<1>2. CASE Subagents!End(c, "failed")
  <2>1. leader[c] = None
    BY <1>1 DEF Leads, Leading
  <2> QED BY <1>1, <1>2, <2>1, EndKeeps DEF Subagents!Answers
<1>3. ASSUME NEW answer \in Subagents!Answers, Subagents!Close(c, answer),
             UNCHANGED <<future, inFlight, active>>
      PROVE  DelegInv'
  BY <1>1, <1>3, CloseKeeps
<1>4. \/ Subagents!End(c, "failed")
      \/ \E answer \in Subagents!Answers :
           Subagents!Close(c, answer) /\ UNCHANGED <<future, inFlight, active>>
  BY <1>1 DEF Subagents!Awaited, Subagents!Ended, Subagents!Answers
<1> QED BY <1>2, <1>3, <1>4

\* A call that closes knows what it answers.
Known == \A c \in Calls : delegated[c].at = "closing" => delegated[c].answer \in Subagents!Answers

\* The status of the child is written and the call returns.
LEMMA FinishKeeps ==
  ASSUME DelegInv, Known, NEW c \in Calls, Subagents!Finish(c)
  PROVE  DelegInv'
<1> USE DelegationTypes, LeadersOf
<1>1. delegated[c].at = "closing" /\ Subagents!End(c, delegated[c].answer)
      /\ UNCHANGED <<leader, child, spawns, stopped, asked>>
  BY DEF Subagents!Finish
<1>2. delegated[c].answer \in Subagents!Answers
  BY <1>1 DEF Known, CallType
<1>3. leader[c] = None /\ child[c] \notin Subagents!Alive
  BY <1>1 DEF Leads, Leading
<1>4. faults' \in 0..MaxFaults
  BY DEF Subagents!Finish, Subagents!Fault
<1>5. childRow' = [childRow EXCEPT ![c] = Subagents!Mark(c)] \/ UNCHANGED childRow
  BY DEF Subagents!Finish
<1>6. /\ childRow' \in [Calls -> {"none", "running", "settled", "failed", "cancelled"}]
      /\ \A d \in Calls : childRow'[d] # "none" <=> childRow[d] # "none"
  BY <1>5 DEF Subagents!Mark
<1> QED BY <1>1, <1>2, <1>3, <1>4, <1>6, EndKeeps

\* A CancelledError arrives.
LEMMA DeliverKeeps ==
  ASSUME DelegInv, NEW c \in Calls, Subagents!Deliver(c)
  PROVE  DelegInv'
<1> USE DelegationTypes, LeadersOf
<1>1. /\ stopped' = [coming |-> stopped.coming \ {c}, came |-> stopped.came \cup {c}]
      /\ UNCHANGED <<leader, childRow, spawns, asked, faults>>
  BY DEF Subagents!Deliver
<1>2. stopped' \in [coming : SUBSET Calls, came : SUBSET Calls]
  BY <1>1
<1>3. CASE Subagents!End(c, "cancelled") /\ UNCHANGED child /\ delegated[c].at # "over"
  BY <1>1, <1>2, <1>3, EndKeeps DEF Subagents!Answers
<1>4. CASE /\ delegated[c].at = "following" /\ future[leader[c]] = "pending"
           /\ future' = [future EXCEPT ![leader[c]] = "cancelled"]
           /\ UNCHANGED <<delegated, inFlight, active, child>>
  <2>1. leader[c] \in Calls
    BY <1>4 DEF DelegInv, Promised, Subagents!TypeOK
  <2>2. future' \in [Calls -> Subagents!Answers \cup {"none", "pending"}]
        /\ \A d \in Calls : future'[d] = future[d] \/ (future[d] # "none" /\ future'[d] = "cancelled")
    BY <1>4, <2>1 DEF Subagents!Answers
  <2> QED BY <1>1, <1>2, <1>4, <2>2, ChildKeeps
<1>5. CASE /\ child[c] \in Subagents!Alive /\ child' = [child EXCEPT ![c] = "cancelling"]
           /\ UNCHANGED <<delegated, future, inFlight, active>>
  <2>1. child' \in [Calls -> Subagents!Alive \cup Subagents!Ended \cup {"none"}]
        /\ \A d \in Calls : child'[d] \in Subagents!Alive => child[d] \in Subagents!Alive
    BY <1>5 DEF Subagents!Alive
  <2>2. \A d \in Calls : future'[d] = future[d] \/ (future[d] # "none" /\ future'[d] = "cancelled")
    BY <1>5
  <2> QED BY <1>1, <1>2, <1>5, <2>1, <2>2, ChildKeeps
<1>6. ASSUME delegated[c].at \in {"running", "stopping"}, child[c] \notin Subagents!Alive,
             NEW answer \in {"stalled", "interrupted"}, Subagents!Close(c, answer),
             UNCHANGED <<child, future, inFlight, active>>
      PROVE  DelegInv'
  BY <1>1, <1>2, <1>6, CloseKeeps DEF Subagents!Answers
<1>7. CASE UNCHANGED <<delegated, future, inFlight, active, child>>
  <2>1. \A d \in Calls : future'[d] = future[d] \/ (future[d] # "none" /\ future'[d] = "cancelled")
    BY <1>7
  <2> QED BY <1>1, <1>2, <1>7, <2>1, ChildKeeps
<1> QED BY <1>3, <1>4, <1>5, <1>6, <1>7 DEF Subagents!Deliver

LEMMA DelegationKeeps ==
  ASSUME DelegInv, Known, Subagents!Next
  PROVE  DelegInv'
<1>1. ASSUME NEW c \in Calls, Subagents!Own(c) PROVE DelegInv'
  BY <1>1, BeginKeeps, JoinKeeps, PrepareKeeps, LaunchKeeps, AwaitedKeeps, FinishKeeps,
     WatchdogKeeps, DeliverKeeps DEF Subagents!Own
<1> QED BY <1>1, ConversationKeeps, RequestsKeep DEF Subagents!Next

\* Only Awaited and a CancelledError close a call, with an answer.
LEMMA KnownStays ==
  ASSUME DelegInv, Known, Subagents!Next
  PROVE  Known'
<1> USE DelegationTypes
<1>0. delegated \in [Calls -> CallType]
  BY DEF DelegInv, Subagents!TypeOK, CallType
<1>1. ASSUME NEW c \in Calls, NEW place \in Subagents!Positions \ {"closing"}, Subagents!Go(c, place)
      PROVE  Known'
  <2>1. delegated' = [delegated EXCEPT ![c] = [at |-> place, answer |-> delegated[c].answer]]
    BY <1>0, <1>1, GoesTo
  <2> QED BY <1>0, <2>1 DEF Known
<1>2. ASSUME NEW c \in Calls, NEW answer,
             delegated' = [delegated EXCEPT ![c] = [at |-> "over", answer |-> answer]]
      PROVE  Known'
  BY <1>0, <1>2 DEF Known
<1>3. ASSUME NEW c \in Calls, NEW answer \in Subagents!Answers, Subagents!Close(c, answer)
      PROVE  Known'
  BY <1>0, <1>3 DEF Known, Subagents!Close
<1>4. ASSUME UNCHANGED delegated PROVE Known'
  BY <1>4 DEF Known
<1>5. ASSUME NEW c \in Calls, NEW answer, Subagents!End(c, answer) PROVE Known'
  BY <1>2, <1>5 DEF Subagents!End
<1>6. ASSUME NEW c \in Calls, Subagents!Own(c) PROVE Known'
  <2>1. CASE Subagents!Begin(c)
    BY <1>1, <1>2, <2>1
    DEF Subagents!Begin, Subagents!Follow, Subagents!Refuse, Subagents!Lead, Subagents!Positions
  <2>2. CASE Subagents!Join(c)
    BY <1>2, <2>2 DEF Subagents!Join
  <2>3. CASE Subagents!Prepare(c)
    BY <1>1, <1>5, <2>3 DEF Subagents!Prepare, Subagents!Positions
  <2>4. CASE Subagents!Launch(c) \/ Subagents!Watchdog(c)
    BY <1>1, <2>4 DEF Subagents!Launch, Subagents!Watchdog, Subagents!Positions
  <2>5. CASE Subagents!Awaited(c)
    BY <1>3, <1>5, <2>5 DEF Subagents!Awaited, Subagents!Ended, Subagents!Answers
  <2>6. CASE Subagents!Finish(c)
    BY <1>5, <2>6 DEF Subagents!Finish
  <2>7. CASE Subagents!Deliver(c)
    <3>1. CASE Subagents!End(c, "cancelled")
      BY <1>5, <3>1
    <3>2. CASE UNCHANGED delegated
      BY <1>4, <3>2
    <3>3. CASE Subagents!Close(c, IF delegated[c].at = "stopping" THEN "stalled" ELSE "interrupted")
      BY <1>3, <3>3 DEF Subagents!Answers
    <3> QED BY <2>7, <3>1, <3>2, <3>3 DEF Subagents!Deliver
  <2> QED BY <1>6, <2>1, <2>2, <2>3, <2>4, <2>5, <2>6, <2>7 DEF Subagents!Own
<1>7. ASSUME NEW c \in Calls, Subagents!ChildEnds(c) \/ Subagents!Silence(c) PROVE UNCHANGED delegated
  BY <1>7 DEF Subagents!ChildEnds, Subagents!Silence
<1>8. ASSUME NEW t \in Turns, Subagents!StopTurn(t) PROVE UNCHANGED delegated
  BY <1>8 DEF Subagents!StopTurn
<1>9. ASSUME NEW k \in Correlations, Subagents!HardInterrupt(k) PROVE UNCHANGED delegated
  BY <1>9 DEF Subagents!HardInterrupt
<1> QED BY <1>4, <1>6, <1>7, <1>8, <1>9 DEF Subagents!Next

\* What the invariant says of intents and spawns.
LEMMA DelegationMeans ==
  ASSUME DelegInv
  PROVE  /\ Subagents!TypeOK /\ Subagents!OneRunPerIntent /\ Subagents!AnswersAgree
         /\ Budgeted => Subagents!SpawnsWithinCap
<1> USE DelegationTypes
<1>0. Subagents!TypeOK /\ Registered /\ Promised /\ Heard /\ Accompanied /\ Counted
  BY DEF DelegInv
<1>1. Subagents!OneRunPerIntent
  <2> SUFFICES ASSUME NEW c \in Calls, NEW d \in Calls, c # d, CorrelationOf[c] # None,
                      Subagents!Key(c) = Subagents!Key(d),
                      {child[c], child[d]} \subseteq Subagents!Alive,
                      delegated[c].answer # "cancelled", delegated[d].answer # "cancelled"
               PROVE  FALSE
    BY DEF Subagents!OneRunPerIntent
  <2>1. CorrelationOf[d] # None
    BY DEF Subagents!Key
  <2>2. ASSUME NEW x \in {c, d} PROVE Leads(x)
    <3>1. \/ delegated[x].at \in {"running", "stopping"}
          \/ delegated[x] = [at |-> "over", answer |-> "cancelled"]
      BY <1>0 DEF Accompanied
    <3>2. delegated[x] # [at |-> "over", answer |-> "cancelled"]
      OBVIOUS
    <3> QED BY <3>1, <3>2 DEF Leads, Leading
  <2>3. inFlight[Subagents!Key(c)] = c /\ inFlight[Subagents!Key(d)] = d
    BY <1>0, <2>1, <2>2 DEF Registered
  <2> QED BY <2>3
<1>2. Subagents!AnswersAgree
  BY <1>0 DEF Heard, Subagents!AnswersAgree
<1>3. ASSUME Budgeted PROVE Subagents!SpawnsWithinCap
  <2> SUFFICES ASSUME NEW t \in Turns
               PROVE  Subagents!Cardinality({c \in Subagents!CallsOf(t) : childRow[c] # "none"}) <= Cap
    BY DEF Subagents!SpawnsWithinCap
  <2> DEFINE S == {c \in Subagents!CallsOf(t) : childRow[c] # "none"}
  <2>1. Subagents!Cardinality(S) = Cardinality(S)
    BY DEF Subagents!Cardinality, Cardinality
  <2>2. S \subseteq Spawned(t) /\ IsFiniteSet(Spawned(t))
    BY FS_Subset DEF Spawned, Subagents!CallsOf
  <2>3. Cardinality(S) <= Cardinality(Spawned(t)) /\ Cardinality(S) \in Nat
        /\ Cardinality(Spawned(t)) \in Nat
    BY <2>2, FS_Subset, FS_CardinalityType
  <2>4. Cardinality(Spawned(t)) <= spawns[t] /\ spawns[t] \in 0..Cap
    BY <1>0, <1>3 DEF Counted, Subagents!TypeOK
  <2> HIDE DEF S
  <2>5. Cardinality(S) <= Cap
    BY <2>3, <2>4
  <2> QED BY <2>1, <2>5 DEF S
<1> QED BY <1>0, <1>1, <1>2, <1>3

\* Calls with one correlation id and one identity have one child at a time, and those that
\* waited for another hear what it was told; a turn that gives its budget away spawns no
\* more children than its cap, in whatever order its calls begin, end, are stopped,
\* interrupted or found silent (delegate_to_subagent, run_subagent).
THEOREM IntentsStaySingle == ToolsSpec => []IntentsRunOnce
<1> DEFINE Inv == DelegInv /\ Known
<1>1. ToolsInit => Inv
  BY DelegationBegins DEF ToolsInit, Known, Subagents!Init
<1>2. Inv /\ [ToolsNext]_toolVars => Inv'
  <2> SUFFICES ASSUME Inv, [ToolsNext]_toolVars PROVE Inv'
    OBVIOUS
  <2>1. CASE Subagents!Next
    BY <2>1, DelegationKeeps, KnownStays
  <2>2. CASE UNCHANGED delegationVars
    <3>1. Known'
      BY <2>2 DEF delegationVars, Known
    <3>2. Subagents!TypeOK' /\ Registered' /\ Promised' /\ Heard' /\ Accompanied' /\ Counted'
      BY <2>2 DEF delegationVars, DelegInv, Subagents!TypeOK, Registered, Leads, Subagents!Key,
                  Promised, Heard, Accompanied, Counted, Spawned, Begun
    <3> QED BY <3>1, <3>2 DEF DelegInv
  <2>3. Subagents!Next \/ UNCHANGED delegationVars
    BY DEF ToolsNext, toolVars
  <2> QED BY <2>1, <2>2, <2>3
<1>3. Inv => IntentsRunOnce
  BY DelegationMeans DEF IntentsRunOnce
<1> QED BY <1>1, <1>2, <1>3, PTL DEF ToolsSpec
==============================================================================
