------------------------- MODULE ConservationProofs -------------------------
(***************************************************************************)
(* Proof that the concurrent ledger neither creates nor loses money, for any *)
(* threads, addresses, shards, amounts and balance width.  The sums are over *)
(* sets that are finite because a step adds at most one account.            *)
(***************************************************************************)
EXTENDS LedgerProofs, SumProofs

-----------------------------------------------------------------------------
(* The total of an account map.                                            *)

Balances(accts) == [a \in DOMAIN accts |-> accts[a].balance]

\* Total in the form the lemmas on sums speak of.
LEMMA TotalIsSum ==
    ASSUME NEW accts
    PROVE  Total(accts) = SumFunctionOnSet(Balances(accts), DOMAIN accts)
BY DEF Total, SumFunction, Balances

\* The balances of finitely many accounts have a sum.
LEMMA BalancesSummable ==
    ASSUME NEW accts, AccountMap(accts), IsFiniteSet(DOMAIN accts)
    PROVE  /\ Summable(Balances(accts), DOMAIN accts)
           /\ Total(accts) \in Int
<1>1. \A a \in DOMAIN accts : accts[a].balance \in Int
  BY U64Assumption DEF AccountMap, AccountState
<1>2. Summable(Balances(accts), DOMAIN accts)
  BY <1>1 DEF Summable, Balances
<1>3. QED BY <1>2, SumInt, TotalIsSum

\* A new entry adds its balance to the total.
LEMMA TotalNew ==
    ASSUME NEW accts, AccountMap(accts), IsFiniteSet(DOMAIN accts),
           NEW next, NEW a, a \notin DOMAIN accts, DOMAIN next = DOMAIN accts \cup {a},
           \A x \in DOMAIN accts : next[x] = accts[x], next[a].balance \in Int
    PROVE  Total(next) = Total(accts) + next[a].balance
<1> DEFINE f == Balances(accts)  k == Balances(next)
<1>1. Summable(f, DOMAIN f)
  BY BalancesSummable DEF Balances
<1>2. /\ DOMAIN k = DOMAIN f \cup {a} /\ a \notin DOMAIN f
      /\ \A x \in DOMAIN f : f[x] = k[x]
      /\ k[a] = next[a].balance
  BY DEF Balances
<1>3. Total(accts) = SumFunction(f) /\ Total(next) = SumFunction(k)
  BY DEF Total, Balances
<1>4. SumFunction(k) = SumFunction(f) + k[a]
  <2> HIDE DEF f, k
  <2>1. QED BY <1>1, <1>2, SumExtend
<1>5. QED BY <1>2, <1>3, <1>4

\* A changed entry changes the total by the difference.
LEMMA TotalChanged ==
    ASSUME NEW accts, AccountMap(accts), IsFiniteSet(DOMAIN accts),
           NEW next, NEW a \in DOMAIN accts, DOMAIN next = DOMAIN accts,
           \A x \in DOMAIN accts : x # a => next[x] = accts[x], next[a].balance \in Int
    PROVE  Total(next) = Total(accts) - accts[a].balance + next[a].balance
<1> DEFINE f == Balances(accts)  k == Balances(next)  S == DOMAIN accts
<1>1. Summable(f, S) /\ Total(accts) = SumFunctionOnSet(f, S)
  BY BalancesSummable, TotalIsSum
<1>2. /\ \A x \in S \ {a} : f[x] = k[x]
      /\ f[a] = accts[a].balance /\ k[a] = next[a].balance
  BY DEF Balances
<1>3. Total(next) = SumFunctionOnSet(k, S)
  BY TotalIsSum
<1>4. SumFunctionOnSet(k, S) = SumFunctionOnSet(f, S) - f[a] + k[a]
  <2> HIDE DEF f, k
  <2>1. QED BY <1>1, <1>2, SumUpdate
<1>5. QED BY <1>1, <1>2, <1>3, <1>4

\* credit adds its amount to the total, up to the balance width.
LEMMA TotalCredit ==
    ASSUME NEW accts, AccountMap(accts), IsFiniteSet(DOMAIN accts),
           NEW a \in Address, NEW b \in Amounts, NEW c \in Int
    PROVE  LET next == WithCredit(accts, a, b)
           IN  /\ (Total(next) + c) % U64 = (Total(accts) + b + c) % U64
               /\ IsFiniteSet(DOMAIN next) /\ Total(next) \in Int
<1> DEFINE next == WithCredit(accts, a, b)
<1>1. AccountMap(next) /\ DOMAIN next = DOMAIN accts \cup {a}
  BY CreditTyped
<1>2. IsFiniteSet(DOMAIN next)
  BY <1>1, FS_AddElement
<1>3. Total(accts) \in Int /\ b \in Int
  BY BalancesSummable, InputsAssumption, U64Assumption
<1>4. \A x \in DOMAIN accts : x # a => next[x] = accts[x]
  BY CreditMap
<1>5. CASE a \notin DOMAIN accts
  <2>1. next[a] = NewAccount(b)
    BY <1>5 DEF WithCredit, Put
  <2>2. next[a].balance = b
    BY <2>1 DEF NewAccount
  <2>3. \A x \in DOMAIN accts : next[x] = accts[x]
    BY <1>4, <1>5
  <2> HIDE DEF next
  <2>4. Total(next) = Total(accts) + b
    BY <1>1, <1>3, <1>5, <2>2, <2>3, TotalNew
  <2>5. QED BY <1>2, <1>3, <2>4 DEF next
<1>6. CASE a \in DOMAIN accts
  <2> DEFINE y == accts[a].balance + b
  <2>1. next[a] = [balance |-> y % U64, nonce |-> accts[a].nonce]
    BY <1>6, CreditMap
  <2>2. accts[a].balance \in Int /\ y \in Int /\ y % U64 \in Int
    BY <1>3, <1>6, U64Assumption DEF AccountMap, AccountState
  <2>3. next[a].balance = y % U64 /\ DOMAIN next = DOMAIN accts
    <3> HIDE DEF next, y
    <3>1. QED BY <1>1, <1>6, <2>1
  <2> HIDE DEF next
  <2>4. Total(next) = Total(accts) - accts[a].balance + (y % U64)
    BY <1>4, <1>6, <2>2, <2>3, TotalChanged
  <2> DEFINE x == Total(accts) + b + c
  <2>5. Total(next) + c = x - y + (y % U64) /\ x \in Int
    BY <1>3, <2>2, <2>4
  <2>6. (x - y + (y % U64)) % U64 = x % U64
    <3> HIDE DEF x, y
    <3>1. QED BY <2>2, <2>5, ModAbsorb, U64Assumption
  <2>7. (Total(next) + c) % U64 = x % U64
    BY <2>5, <2>6
  <2>8. Total(next) \in Int
    BY <1>3, <2>2, <2>4
  <2>9. QED BY <1>2, <2>7, <2>8 DEF next
<1>7. QED BY <1>5, <1>6

-----------------------------------------------------------------------------
(* The amounts in flight.                                                  *)

Flight == [t \in Threads |-> IF pc[t] = "entry" THEN req[t].amount ELSE 0]

\* So have the amounts between debit and credit.
LEMMA FlightSummable ==
    ASSUME IInv
    PROVE  /\ Summable(Flight, Threads) /\ InFlight = SumFunctionOnSet(Flight, Threads)
           /\ InFlight \in Int
<1>1. \A t \in Threads : Flight[t] \in Int
  BY InputsAssumption, U64Assumption DEF IInv, TypeOK, Request, Flight
<1>2. Summable(Flight, Threads)
  BY <1>1, FiniteAssumption DEF Summable
<1>3. InFlight = SumFunctionOnSet(Flight, Threads)
  BY DEF InFlight, SumFunction, Flight
<1>4. QED BY <1>2, <1>3, SumInt

\* A step that moves one thread into or out of "entry" changes the amount in
\* flight by the amount of that thread.
LEMMA FlightChanged ==
    ASSUME IInv, IInv', NEW t \in Threads, \A u \in Threads \ {t} : Flight'[u] = Flight[u]
    PROVE  InFlight' = InFlight - Flight[t] + Flight'[t]
<1>1. Summable(Flight, Threads) /\ InFlight = SumFunctionOnSet(Flight, Threads)
  BY FlightSummable
<1>2. (Summable(Flight, Threads) /\ InFlight = SumFunctionOnSet(Flight, Threads))'
  BY FlightSummable, PTL
<1>3. Flight'[t] \in Int
  BY <1>2 DEF Summable
<1>4. SumFunctionOnSet(Flight', Threads) =
         SumFunctionOnSet(Flight, Threads) - Flight[t] + Flight'[t]
  BY <1>1, <1>3, SumUpdate
<1>5. QED BY <1>1, <1>2, <1>4

-----------------------------------------------------------------------------
(* Conservation.  With it goes that there are finitely many accounts.       *)

CInv == IsFiniteSet(DOMAIN accounts) /\ Conservation

\* Initially there is no account and no money.
LEMMA InitCInv == Init => CInv
<1> SUFFICES ASSUME Init PROVE CInv
  OBVIOUS
<1>1. DOMAIN accounts = {} /\ minted = 0
  BY DEF Init, EmptyLedger
<1>2. Total(accounts) = 0
  BY <1>1, TotalIsSum, SumEmpty
<1>3. InFlight = 0
  <2>1. IInv
    BY InitIInv
  <2>2. \A t \in Threads : Flight[t] = 0
    BY DEF Init, Flight
  <2>3. InFlight = SumFunctionOnSet(Flight, Threads)
    BY <2>1, FlightSummable
  <2>4. QED BY <2>2, <2>3, SumZero, FiniteAssumption
<1>4. QED BY <1>1, <1>2, <1>3, FS_EmptySet DEF CInv, Conservation

\* Every step keeps the balances and the amount in flight equal to what was
\* brought in.
LEMMA NextCInv == IInv /\ IInv' /\ CInv /\ [Next]_vars => CInv'
<1> SUFFICES ASSUME IInv, IInv', CInv, [Next]_vars PROVE CInv'
  OBVIOUS
<1>0. /\ AccountMap(accounts) /\ IsFiniteSet(DOMAIN accounts)
      /\ Total(accounts) \in Int /\ InFlight \in Int /\ InFlight' \in Int /\ minted \in Int
      /\ (Total(accounts) + InFlight) % U64 = minted % U64
  <2>1. AccountMap(accounts) /\ IsFiniteSet(DOMAIN accounts)
    BY DEF IInv, TypeOK, AccountMap, CInv
  <2>2. InFlight \in Int
    BY FlightSummable
  <2>3. (InFlight \in Int)'
    BY FlightSummable, PTL
  <2>4. QED BY <2>1, <2>2, <2>3, BalancesSummable DEF IInv, TypeOK, CInv, Conservation
<1>1. ASSUME Flight' = Flight PROVE InFlight' = InFlight
  BY <1>1 DEF InFlight, Flight
<1>2. ASSUME UNCHANGED <<accounts, minted>>, Flight' = Flight
      PROVE  CInv'
  <2>1. InFlight' = InFlight
    BY <1>1, <1>2
  <2>2. Total(accounts') = Total(accounts) /\ minted' = minted
    BY <1>2
  <2>3. QED BY <1>0, <1>2, <2>1, <2>2 DEF CInv, Conservation
\* A sum that grows by b with what was minted.
<1>3. ASSUME NEW b \in Int, minted' = minted + b, IsFiniteSet(DOMAIN accounts'),
             (Total(accounts') + InFlight') % U64 = (Total(accounts) + b + InFlight) % U64
      PROVE  CInv'
  <2>1. ((Total(accounts) + InFlight) + b) % U64 = (minted + b) % U64
    <3> DEFINE x == Total(accounts) + InFlight
    <3>1. x \in Int /\ x % U64 = minted % U64 /\ minted \in Int
      BY <1>0
    <3> HIDE DEF x
    <3>2. (x + b) % U64 = (minted + b) % U64
      BY <3>1, ModAdd, U64Assumption
    <3>3. QED BY <3>2 DEF x
  <2>2. (Total(accounts) + InFlight) + b = Total(accounts) + b + InFlight
    BY <1>0
  <2>3. QED BY <1>3, <2>1, <2>2 DEF CInv, Conservation
<1>4. ASSUME NEW t \in Threads, NEW a \in Address, NEW b \in Amounts, Register(t, a, b)
      PROVE  CInv'
  <2>1. Flight' = Flight
    BY <1>4 DEF Register, Flight
  <2>2. accounts' = WithRegistered(accounts, a, b)
    BY <1>4 DEF Register
  <2>3. CASE a \in DOMAIN accounts
    BY <1>2, <1>4, <2>1, <2>2, <2>3 DEF Register, WithRegistered
  <2>4. CASE a \notin DOMAIN accounts
    <3>1. /\ DOMAIN WithRegistered(accounts, a, b) = DOMAIN accounts \cup {a}
          /\ \A x \in DOMAIN accounts : WithRegistered(accounts, a, b)[x] = accounts[x]
          /\ WithRegistered(accounts, a, b)[a] = NewAccount(b)
      <4>1. /\ DOMAIN WithRegistered(accounts, a, b) = DOMAIN accounts \cup {a}
            /\ \A x \in DOMAIN accounts : WithRegistered(accounts, a, b)[x] = accounts[x]
        BY <1>0, RegisterMap
      <4>2. WithRegistered(accounts, a, b)[a] = NewAccount(b)
        BY <2>4 DEF WithRegistered, Put
      <4>3. QED BY <4>1, <4>2
    <3>2. b \in Int /\ NewAccount(b).balance = b
      BY InputsAssumption, U64Assumption DEF NewAccount
    <3>3. Total(WithRegistered(accounts, a, b)) = Total(accounts) + b
      BY <1>0, <2>4, <3>1, <3>2, TotalNew
    <3>4. IsFiniteSet(DOMAIN accounts')
      BY <1>0, <2>2, <3>1, FS_AddElement
    <3>5. minted' = minted + b
      BY <1>4, <2>4 DEF Register
    <3>6. (Total(accounts') + InFlight') = (Total(accounts) + b + InFlight)
      BY <1>1, <2>1, <2>2, <3>3
    <3>7. QED BY <1>3, <3>2, <3>4, <3>5, <3>6
  <2>5. QED BY <2>3, <2>4
<1>5. ASSUME NEW t \in Threads, NEW a \in Address, NEW b \in Amounts, Credit(t, a, b)
      PROVE  CInv'
  <2>1. Flight' = Flight
    BY <1>5 DEF Credit, Flight
  <2>2. accounts' = WithCredit(accounts, a, b) /\ minted' = minted + b
    BY <1>5 DEF Credit
  <2>3. /\ (Total(accounts') + InFlight) % U64 = (Total(accounts) + b + InFlight) % U64
        /\ IsFiniteSet(DOMAIN accounts')
    BY <1>0, <2>2, TotalCredit
  <2>4. b \in Int
    BY InputsAssumption, U64Assumption
  <2>5. QED BY <1>1, <1>3, <2>1, <2>2, <2>3, <2>4
<1>6. ASSUME NEW t \in Threads, Debit(t)
      PROVE  CInv'
  <2> DEFINE from == req[t].from  b == req[t].amount
  <2>1. /\ from \in DOMAIN accounts /\ accounts[from] \in AccountState
        /\ DOMAIN accounts' = DOMAIN accounts
        /\ \A x \in DOMAIN accounts : x # from => accounts'[x] = accounts[x]
        /\ accounts'[from] = [balance |-> accounts[from].balance - b,
                              nonce   |-> accounts[from].nonce + 1]
    BY <1>6, DebitEffect
  <2>2. /\ b \in Int /\ pc[t] = "validate" /\ pc' = [pc EXCEPT ![t] = "entry"]
        /\ req' = req /\ minted' = minted
    BY <1>6, InputsAssumption, U64Assumption DEF Debit, Goto, IInv, TypeOK, Request
  <2>3. Flight[t] = 0 /\ Flight'[t] = b /\ \A u \in Threads \ {t} : Flight'[u] = Flight[u]
    BY <2>2 DEF Flight, IInv, TypeOK
  <2>4. InFlight' = InFlight - Flight[t] + Flight'[t]
    BY <2>3, FlightChanged
  <2>5. accounts[from].balance \in Int /\ accounts'[from].balance = accounts[from].balance - b
    BY <2>1, U64Assumption DEF AccountState
  <2> HIDE DEF from, b
  <2>6. Total(accounts') = Total(accounts) - accounts[from].balance + accounts'[from].balance
    BY <1>0, <2>1, <2>2, <2>5, TotalChanged
  <2>7. Total(accounts') + InFlight' = Total(accounts) + InFlight
    BY <1>0, <2>2, <2>3, <2>4, <2>5, <2>6
  <2>8. QED BY <1>0, <2>1, <2>2, <2>7 DEF CInv, Conservation
<1>7. ASSUME NEW t \in Threads, CreditReceiver(t)
      PROVE  CInv'
  <2> DEFINE to == req[t].to  b == req[t].amount
  <2>1. /\ to \in Address /\ b \in Amounts /\ b \in Int /\ pc[t] = "entry"
        /\ pc' = [pc EXCEPT ![t] = "idle"] /\ req' = [req EXCEPT ![t] = NoReq]
        /\ minted' = minted /\ accounts' = WithCredit(accounts, to, b)
    BY <1>7, InputsAssumption, U64Assumption
       DEF CreditReceiver, Return, Goto, IInv, TypeOK, Request
  <2>2. Flight[t] = b /\ Flight'[t] = 0 /\ \A u \in Threads \ {t} : Flight'[u] = Flight[u]
    BY <2>1 DEF Flight, IInv, TypeOK
  <2>3. InFlight' = InFlight - Flight[t] + Flight'[t]
    BY <2>2, FlightChanged
  <2> HIDE DEF to, b
  <2>4. /\ (Total(accounts') + InFlight') % U64 = (Total(accounts) + b + InFlight') % U64
        /\ IsFiniteSet(DOMAIN accounts')
    BY <1>0, <2>1, TotalCredit
  <2>5. Total(accounts) + b + InFlight' = Total(accounts) + InFlight
    BY <1>0, <2>1, <2>2, <2>3
  <2>6. QED BY <1>0, <2>1, <2>4, <2>5 DEF CInv, Conservation
<1>8. ASSUME NEW t \in Threads, NEW r \in Request, Transfer(t, r)
      PROVE  CInv'
  <2>1. Flight' = Flight
    BY <1>8 DEF Transfer, Enter, Goto, Flight, IInv, TypeOK
  <2>2. QED BY <1>2, <1>8, <2>1 DEF Transfer
<1>9. ASSUME NEW t \in Threads, TakeTransferLock(t)
      PROVE  CInv'
  <2>1. Flight' = Flight
    BY <1>9 DEF TakeTransferLock, Goto, Flight, IInv, TypeOK
  <2>2. QED BY <1>2, <1>9, <2>1 DEF TakeTransferLock
<1>10. ASSUME NEW t \in Threads, GetMut(t)
       PROVE  CInv'
  <2>1. Flight' = Flight
    BY <1>10 DEF GetMut, Goto, Return, Flight, IInv, TypeOK
  <2>2. QED BY <1>2, <1>10, <2>1 DEF GetMut
<1>11. ASSUME NEW t \in Threads, Reject(t)
       PROVE  CInv'
  <2>1. Flight' = Flight
    BY <1>11 DEF Reject, Goto, Return, Flight, IInv, TypeOK
  <2>2. QED BY <1>2, <1>11, <2>1 DEF Reject
<1>12. ASSUME NEW t \in Threads, Snapshot(t) \/ SnapshotShard(t)
       PROVE  CInv'
  <2>1. Flight' = Flight
    BY <1>12 DEF Snapshot, SnapshotShard, Enter, Goto, Flight, IInv, TypeOK
  <2>2. QED BY <1>2, <1>12, <2>1 DEF Snapshot, SnapshotShard
<1>13. CASE UNCHANGED vars
  <2>1. Flight' = Flight
    BY <1>13 DEF vars, Flight
  <2>2. QED BY <1>2, <1>13, <2>1 DEF vars
<1>14. QED
  BY <1>4, <1>5, <1>6, <1>7, <1>8, <1>9, <1>10, <1>11, <1>12, <1>13 DEF Next, Call, Step

\* No interleaving of transfers, credits and registrations creates or loses
\* money: the balances plus the amount of the transfer that has debited and not
\* yet credited are what was registered and credited (ledger.rs:8-9).
THEOREM MoneyConserved == Spec => []Conservation
<1>1. Spec => [](IInv /\ CInv)
  BY InitIInv, NextIInv, InitCInv, NextCInv, PTL DEF Spec
<1>2. CInv => Conservation
  BY DEF CInv
<1>3. QED BY <1>1, <1>2, PTL
=============================================================================
