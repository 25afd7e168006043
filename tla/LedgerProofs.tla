---------------------------- MODULE LedgerProofs ----------------------------
(***************************************************************************)
(* Proofs about the concurrent ledger, for any threads, addresses, shards,  *)
(* amounts, balance width and bounds.                                       *)
(***************************************************************************)
EXTENDS Ledger, TLAPS

-----------------------------------------------------------------------------
(* What the updates of the account map preserve.                           *)

\* A map from some addresses to account states.
AccountMap(accts) ==
    DOMAIN accts \subseteq Address /\ accts \in [DOMAIN accts -> AccountState]

\* Reduction modulo the balance width stays in range.
LEMMA WrapInRange ==
  ASSUME NEW x \in Nat
  PROVE  x % U64 \in 0 .. (U64 - 1)
BY U64Assumption

\* Replacing or creating one entry by an account state gives an account map.
LEMMA PutMap ==
  ASSUME NEW accts, AccountMap(accts), NEW a \in Address, NEW st \in AccountState
  PROVE  /\ AccountMap(Put(accts, a, st))
         /\ DOMAIN Put(accts, a, st) = DOMAIN accts \cup {a}
         /\ Put(accts, a, st)[a] = st
         /\ \A x \in DOMAIN accts : x # a => Put(accts, a, st)[x] = accts[x]
BY DEF AccountMap, Put

\* register yields an account map and leaves existing accounts alone.
LEMMA RegisterMap ==
  ASSUME NEW accts, AccountMap(accts), NEW a \in Address, NEW b \in Amounts
  PROVE  /\ AccountMap(WithRegistered(accts, a, b))
         /\ DOMAIN WithRegistered(accts, a, b) = DOMAIN accts \cup {a}
         /\ \A x \in DOMAIN accts : WithRegistered(accts, a, b)[x] = accts[x]
         /\ a \notin DOMAIN accts => WithRegistered(accts, a, b)[a] = NewAccount(b)
<1>1. NewAccount(b) \in AccountState
  BY InputsAssumption DEF NewAccount, AccountState
<1>2. CASE a \in DOMAIN accts
  <2>1. WithRegistered(accts, a, b) = accts
    BY <1>2 DEF WithRegistered
  <2>2. DOMAIN accts = DOMAIN accts \cup {a}
    BY <1>2
  <2>3. QED  BY <1>2, <2>1, <2>2
<1>3. CASE a \notin DOMAIN accts
  <2>1. WithRegistered(accts, a, b) = Put(accts, a, NewAccount(b))
    BY <1>3 DEF WithRegistered
  <2>2. QED  BY <1>1, <1>3, <2>1, PutMap
<1>4. QED  BY <1>2, <1>3

\* credit yields an account map, changes one balance and no nonce.
LEMMA CreditMap ==
  ASSUME NEW accts, AccountMap(accts), NEW a \in Address, NEW b \in Amounts
  PROVE  /\ AccountMap(WithCredit(accts, a, b))
         /\ DOMAIN WithCredit(accts, a, b) = DOMAIN accts \cup {a}
         /\ \A x \in DOMAIN accts : x # a => WithCredit(accts, a, b)[x] = accts[x]
         /\ a \in DOMAIN accts => WithCredit(accts, a, b)[a] =
               [balance |-> (accts[a].balance + b) % U64, nonce |-> accts[a].nonce]
         /\ a \notin DOMAIN accts => WithCredit(accts, a, b)[a] = NewAccount(b)
<1>1. NewAccount(b) \in AccountState
  BY InputsAssumption DEF NewAccount, AccountState
<1>2. CASE a \notin DOMAIN accts
  <2>1. WithCredit(accts, a, b) = Put(accts, a, NewAccount(b))
    BY <1>2 DEF WithCredit
  <2>2. /\ AccountMap(Put(accts, a, NewAccount(b)))
        /\ DOMAIN Put(accts, a, NewAccount(b)) = DOMAIN accts \cup {a}
        /\ Put(accts, a, NewAccount(b))[a] = NewAccount(b)
        /\ \A x \in DOMAIN accts : x # a => Put(accts, a, NewAccount(b))[x] = accts[x]
    BY <1>1, PutMap
  <2>3. QED  BY <1>2, <2>1, <2>2
<1>3. CASE a \in DOMAIN accts
  <2> DEFINE st == [balance |-> (accts[a].balance + b) % U64, nonce |-> accts[a].nonce]
  <2>1. accts[a] \in AccountState
    BY <1>3 DEF AccountMap
  <2>2. [accts[a] EXCEPT !.balance = (@ + b) % U64] = st
    BY <2>1 DEF AccountState
  <2>3. accts[a].balance + b \in Nat
    BY <2>1, InputsAssumption, U64Assumption DEF AccountState
  <2>4. st \in AccountState
    BY <2>1, <2>3, WrapInRange DEF AccountState
  <2>5. WithCredit(accts, a, b) = Put(accts, a, st)
    BY <1>3, <2>2 DEF WithCredit
  <2> HIDE DEF st
  <2>6. /\ AccountMap(Put(accts, a, st))
        /\ DOMAIN Put(accts, a, st) = DOMAIN accts \cup {a}
        /\ Put(accts, a, st)[a] = st
        /\ \A x \in DOMAIN accts : x # a => Put(accts, a, st)[x] = accts[x]
    BY <2>4, PutMap
  <2>7. QED  BY <1>3, <2>5, <2>6 DEF st
<1>4. QED  BY <1>2, <1>3

\* The same, without the values: what register and credit do to the key set.
LEMMA RegisterTyped ==
  ASSUME NEW accts, AccountMap(accts), NEW a \in Address, NEW b \in Amounts
  PROVE  /\ AccountMap(WithRegistered(accts, a, b))
         /\ DOMAIN WithRegistered(accts, a, b) = DOMAIN accts \cup {a}
BY RegisterMap

\* What credit does to the key set.
LEMMA CreditTyped ==
  ASSUME NEW accts, AccountMap(accts), NEW a \in Address, NEW b \in Amounts
  PROVE  /\ AccountMap(WithCredit(accts, a, b))
         /\ DOMAIN WithCredit(accts, a, b) = DOMAIN accts \cup {a}
BY CreditMap

\* A debit within the funds yields an account map with the next nonce.
LEMMA DebitMap ==
  ASSUME NEW accts, AccountMap(accts), NEW a \in DOMAIN accts,
         NEW b \in Amounts, accts[a].balance >= b
  PROVE  /\ AccountMap(WithDebit(accts, a, b))
         /\ DOMAIN WithDebit(accts, a, b) = DOMAIN accts
         /\ \A x \in DOMAIN accts : x # a => WithDebit(accts, a, b)[x] = accts[x]
         /\ WithDebit(accts, a, b)[a] =
               [balance |-> accts[a].balance - b, nonce |-> accts[a].nonce + 1]
<1>1. accts[a] \in AccountState
  BY DEF AccountMap
<1>2. [balance |-> accts[a].balance - b, nonce |-> accts[a].nonce + 1] \in AccountState
  BY <1>1, InputsAssumption, U64Assumption DEF AccountState
<1>3. QED  BY <1>2 DEF WithDebit, AccountMap

-----------------------------------------------------------------------------
(* Types and locks.  Neither is inductive alone: Debit keeps balances in     *)
(* range because the sender it found is still there and still locked.       *)

IInv == TypeOK /\ LockDiscipline

\* A new ledger satisfies the inductive invariant.
LEMMA InitIInv == Init => IInv
<1> SUFFICES ASSUME Init PROVE IInv
  OBVIOUS
<1>1. TypeOK
  BY ShardsAssumption DEF Init, TypeOK, EmptyLedger, NewSnap, PC, Shards
<1>2. LockDiscipline
  BY ThreadsAssumption DEF Init, LockDiscipline, InTransfer
<1>3. QED  BY <1>1, <1>2 DEF IInv

\* Every step of every thread preserves the inductive invariant.
LEMMA NextIInv == IInv /\ [Next]_vars => IInv'
<1> SUFFICES ASSUME TypeOK, LockDiscipline, [Next]_vars
             PROVE  TypeOK' /\ LockDiscipline'
  BY DEF IInv
<1> USE DEF PC, InTransfer
<1>0. AccountMap(accounts)
  BY DEF TypeOK, AccountMap
<1>1. ASSUME NEW t \in Threads, NEW a \in Address, NEW b \in Amounts,
             Register(t, a, b)
      PROVE  TypeOK' /\ LockDiscipline'
  <2>1. accounts' = WithRegistered(accounts, a, b)
    BY <1>1 DEF Register
  <2>2. /\ AccountMap(WithRegistered(accounts, a, b))
        /\ DOMAIN WithRegistered(accounts, a, b) = DOMAIN accounts \cup {a}
    BY <1>0, RegisterTyped
  <2>3. AccountMap(accounts') /\ DOMAIN accounts \subseteq DOMAIN accounts'
    BY <2>1, <2>2
  <2>4. minted' \in Nat /\ calls' \in [Threads -> Nat]
    BY <1>1, InputsAssumption, U64Assumption DEF Register, Enter, TypeOK
  <2>5. TypeOK'
    BY <1>1, <2>3, <2>4 DEF Register, TypeOK, AccountMap
  <2>6. LockDiscipline'
    BY <1>1, <2>3 DEF Register, LockDiscipline, TypeOK
  <2>7. QED  BY <2>5, <2>6
<1>2. ASSUME NEW t \in Threads, NEW a \in Address, NEW b \in Amounts,
             Credit(t, a, b)
      PROVE  TypeOK' /\ LockDiscipline'
  <2>1. accounts' = WithCredit(accounts, a, b)
    BY <1>2 DEF Credit
  <2>2. /\ AccountMap(WithCredit(accounts, a, b))
        /\ DOMAIN WithCredit(accounts, a, b) = DOMAIN accounts \cup {a}
    BY <1>0, CreditTyped
  <2>3. AccountMap(accounts') /\ DOMAIN accounts \subseteq DOMAIN accounts'
    BY <2>1, <2>2
  <2>4. minted' \in Nat /\ calls' \in [Threads -> Nat]
    BY <1>2, InputsAssumption, U64Assumption DEF Credit, Enter, TypeOK
  <2>5. TypeOK'
    BY <1>2, <2>3, <2>4 DEF Credit, TypeOK, AccountMap
  <2>6. LockDiscipline'
    BY <1>2, <2>3 DEF Credit, LockDiscipline, TypeOK
  <2>7. QED  BY <2>5, <2>6
<1>3. ASSUME NEW t \in Threads, NEW r \in Request, Transfer(t, r)
      PROVE  TypeOK' /\ LockDiscipline'
  <2>1. CASE PreCheck(r)
    <3>1. /\ pc' = [pc EXCEPT ![t] = "lock"] /\ req' = [req EXCEPT ![t] = r]
          /\ calls' = [calls EXCEPT ![t] = @ + 1]
          /\ UNCHANGED <<accounts, transfer_lock, shard_lock, snap, minted, debits>>
      BY <1>3, <2>1 DEF Transfer, Enter, Goto
    <3>2. TypeOK'
      BY <2>1, <3>1 DEF TypeOK
    <3>3. pc[t] = "idle"
      BY <1>3 DEF Transfer, Enter
    <3>4. LockDiscipline'
      BY <3>1, <3>3 DEF LockDiscipline, TypeOK
    <3>5. QED  BY <3>2, <3>4
  <2>2. CASE ~PreCheck(r)
    <3>1. /\ UNCHANGED <<accounts, transfer_lock, shard_lock, pc, req, snap, minted, debits>>
          /\ calls' = [calls EXCEPT ![t] = @ + 1]
      BY <1>3, <2>2 DEF Transfer, Enter
    <3>2. TypeOK'
      BY <3>1 DEF TypeOK
    <3>3. LockDiscipline'
      BY <3>1 DEF LockDiscipline
    <3>4. QED  BY <3>2, <3>3
  <2>3. QED  BY <2>1, <2>2
<1>4. ASSUME NEW t \in Threads, TakeTransferLock(t)
      PROVE  TypeOK' /\ LockDiscipline'
  <2>1. TypeOK'
    BY <1>4 DEF TakeTransferLock, Goto, TypeOK
  <2>2. LockDiscipline'
    BY <1>4, ThreadsAssumption DEF TakeTransferLock, Goto, LockDiscipline, TypeOK
  <2>3. QED  BY <2>1, <2>2
<1>5. ASSUME NEW t \in Threads, GetMut(t)
      PROVE  TypeOK' /\ LockDiscipline'
  <2>1. /\ req[t] \in Request /\ PreCheck(req[t])
        /\ shard_of[req[t].from] \in Shards
    BY <1>5, ShardsAssumption DEF GetMut, TypeOK, Request
  <2>2. TypeOK'
    BY <1>5, <2>1 DEF GetMut, Goto, Return, TypeOK
  <2>3. CASE req[t].from \in DOMAIN accounts
    <3>1. /\ pc[t] = "get_mut" /\ pc' = [pc EXCEPT ![t] = "validate"]
          /\ shard_lock[shard_of[req[t].from]] = NoThread
          /\ shard_lock' = [shard_lock EXCEPT ![shard_of[req[t].from]] = t]
          /\ UNCHANGED <<accounts, req, transfer_lock>>
      BY <1>5, <2>3 DEF GetMut, Goto, ShardFree
    <3>2. LockDiscipline'
      BY <2>1, <2>3, <3>1, ThreadsAssumption DEF LockDiscipline, TypeOK
    <3>3. QED  BY <2>2, <3>2
  <2>4. CASE req[t].from \notin DOMAIN accounts
    <3>1. /\ pc[t] = "get_mut" /\ pc' = [pc EXCEPT ![t] = "idle"]
          /\ req' = [req EXCEPT ![t] = NoReq]
          /\ transfer_lock' = NoThread
          /\ UNCHANGED <<accounts, shard_lock>>
      BY <1>5, <2>4 DEF GetMut, Goto, Return
    <3>2. LockDiscipline'
      BY <3>1, ThreadsAssumption DEF LockDiscipline, TypeOK
    <3>3. QED  BY <2>2, <3>2
  <2>5. QED  BY <2>3, <2>4
<1>6. ASSUME NEW t \in Threads, Reject(t)
      PROVE  TypeOK' /\ LockDiscipline'
  <2>1. /\ req[t] \in Request
        /\ shard_of[req[t].from] \in Shards
    BY <1>6, ShardsAssumption DEF Reject, TypeOK, Request
  <2>2. TypeOK'
    BY <1>6, <2>1 DEF Reject, Goto, Return, ReleaseShard, TypeOK
  <2>3. LockDiscipline'
    BY <1>6, <2>1, ThreadsAssumption
       DEF Reject, Goto, Return, ReleaseShard, LockDiscipline, TypeOK
  <2>4. QED  BY <2>2, <2>3
<1>7. ASSUME NEW t \in Threads, Debit(t)
      PROVE  TypeOK' /\ LockDiscipline'
  <2>1. /\ req[t] \in Request /\ req[t].from \in Address
        /\ req[t].amount \in Amounts /\ req[t].nonce \in Nat
        /\ shard_of[req[t].from] \in Shards
    BY <1>7, ShardsAssumption, InputsAssumption DEF Debit, TypeOK, Request
  <2>2. req[t].from \in DOMAIN accounts
    BY <1>7 DEF Debit, LockDiscipline
  <2>3. AccountMap(accounts') /\ DOMAIN accounts = DOMAIN accounts'
    BY <1>7, <2>1, <2>2, DebitMap DEF Debit, SenderValid, TypeOK, AccountMap
  <2>4. debits' \in [Address -> Seq(Nat)]
    BY <1>7, <2>1 DEF Debit, TypeOK
  <2>5. TypeOK'
    BY <1>7, <2>1, <2>3, <2>4 DEF Debit, Goto, ReleaseShard, TypeOK, AccountMap
  <2>6. LockDiscipline'
    BY <1>7, <2>1, <2>3, ThreadsAssumption
       DEF Debit, Goto, ReleaseShard, LockDiscipline, TypeOK
  <2>7. QED  BY <2>5, <2>6
<1>8. ASSUME NEW t \in Threads, CreditReceiver(t)
      PROVE  TypeOK' /\ LockDiscipline'
  <2>1. req[t].to \in Address /\ req[t].amount \in Amounts
    BY <1>8 DEF CreditReceiver, TypeOK, Request
  <2>2. accounts' = WithCredit(accounts, req[t].to, req[t].amount)
    BY <1>8 DEF CreditReceiver
  <2>3. /\ AccountMap(WithCredit(accounts, req[t].to, req[t].amount))
        /\ DOMAIN WithCredit(accounts, req[t].to, req[t].amount) = DOMAIN accounts \cup {req[t].to}
    BY <1>0, <2>1, CreditTyped
  <2>4. AccountMap(accounts') /\ DOMAIN accounts \subseteq DOMAIN accounts'
    BY <2>2, <2>3
  <2>5. TypeOK'
    BY <1>8, <2>4 DEF CreditReceiver, Goto, Return, TypeOK, AccountMap
  <2>6. LockDiscipline'
    BY <1>8, <2>4, ThreadsAssumption
       DEF CreditReceiver, Goto, Return, LockDiscipline, TypeOK
  <2>7. QED  BY <2>5, <2>6
<1>9. ASSUME NEW t \in Threads, Snapshot(t)
      PROVE  TypeOK' /\ LockDiscipline'
  <2>1. TypeOK'
    BY <1>9, ShardsAssumption
       DEF Snapshot, Enter, Goto, NewSnap, EmptyLedger, TypeOK, Shards
  <2>2. LockDiscipline'
    BY <1>9 DEF Snapshot, Enter, Goto, LockDiscipline, TypeOK
  <2>3. QED  BY <2>1, <2>2
<1>10. ASSUME NEW t \in Threads, SnapshotShard(t)
       PROVE  TypeOK' /\ LockDiscipline'
  <2>1. /\ snap[t].next \in Shards
        /\ snap[t].next + 1 \in 1 .. (NumShards + 1)
        /\ snap[t].next # NumShards => snap[t].next + 1 \in Shards
    BY <1>10, ShardsAssumption DEF SnapshotShard, TypeOK, Shards
  <2>2. /\ snap' = [snap EXCEPT ![t] = snap'[t]]
        /\ snap'[t].next = snap[t].next + 1
        /\ DOMAIN snap'[t].view \subseteq Address
        /\ pc' = IF snap[t].next = NumShards THEN [pc EXCEPT ![t] = "idle"] ELSE pc
        /\ UNCHANGED <<accounts, transfer_lock, shard_lock, req, calls, minted, debits>>
    BY <1>10 DEF SnapshotShard, Goto, TypeOK
  <2>3. TypeOK'
    BY <1>10, <2>1, <2>2 DEF SnapshotShard, TypeOK
  <2>4. LockDiscipline'
    BY <1>10 DEF SnapshotShard, Goto, LockDiscipline, TypeOK
  <2>5. QED  BY <2>3, <2>4
<1>11. CASE UNCHANGED vars
  BY <1>11 DEF vars, TypeOK, LockDiscipline
<1>12. QED
  BY <1>1, <1>2, <1>3, <1>4, <1>5, <1>6, <1>7, <1>8, <1>9, <1>10, <1>11
     DEF Next, Call, Step

\* Balances stay in the range of u64 and every lock, request, snapshot and
\* history keeps its type, for any number of threads and any interleaving.
THEOREM TypeCorrect == Spec => []TypeOK
<1>1. Spec => []IInv
  BY InitIInv, NextIInv, PTL DEF Spec
<1>2. IInv => TypeOK
  BY DEF IInv
<1>3. QED  BY <1>1, <1>2, PTL

\* The transfer lock and the shard guards are held exactly by the calls between
\* taking and dropping them (ledger.rs transfer).
THEOREM LocksHeld == Spec => []LockDiscipline
<1>1. Spec => []IInv
  BY InitIInv, NextIInv, PTL DEF Spec
<1>2. IInv => LockDiscipline
  BY DEF IInv
<1>3. QED  BY <1>1, <1>2, PTL

-----------------------------------------------------------------------------
(* Nonces.                                                                 *)

\* Neither register nor credit changes the nonce of any address.
LEMMA SameNonces ==
  ASSUME NEW accts, AccountMap(accts), NEW a \in Address, NEW b \in Amounts,
         NEW x \in Address
  PROVE  /\ NonceOf(WithRegistered(accts, a, b), x) = NonceOf(accts, x)
         /\ NonceOf(WithCredit(accts, a, b), x) = NonceOf(accts, x)
<1>1. /\ DOMAIN WithRegistered(accts, a, b) = DOMAIN accts \cup {a}
      /\ \A y \in DOMAIN accts : WithRegistered(accts, a, b)[y] = accts[y]
      /\ a \notin DOMAIN accts => WithRegistered(accts, a, b)[a] = NewAccount(b)
  BY RegisterMap
<1>2. NonceOf(WithRegistered(accts, a, b), x) = NonceOf(accts, x)
  BY <1>1 DEF NonceOf, NewAccount
<1>3. /\ DOMAIN WithCredit(accts, a, b) = DOMAIN accts \cup {a}
      /\ \A y \in DOMAIN accts : y # a => WithCredit(accts, a, b)[y] = accts[y]
      /\ a \notin DOMAIN accts => WithCredit(accts, a, b)[a] = NewAccount(b)
  <2>1. DOMAIN WithCredit(accts, a, b) = DOMAIN accts \cup {a}
    BY CreditTyped
  <2>2. \A y \in DOMAIN accts : y # a => WithCredit(accts, a, b)[y] = accts[y]
    BY CreditMap
  <2>3. a \notin DOMAIN accts => WithCredit(accts, a, b)[a] = NewAccount(b)
    BY DEF WithCredit, Put
  <2>4. QED  BY <2>1, <2>2, <2>3
<1>4. a \in DOMAIN accts => WithCredit(accts, a, b)[a].nonce = accts[a].nonce
  <2>1. a \in DOMAIN accts => WithCredit(accts, a, b)[a] =
           [balance |-> (accts[a].balance + b) % U64, nonce |-> accts[a].nonce]
    BY CreditMap
  <2>2. QED  BY <2>1
<1>5. NonceOf(WithCredit(accts, a, b), x) = NonceOf(accts, x)
  <2>1. CASE x = a
    BY <1>3, <1>4, <2>1 DEF NonceOf, NewAccount
  <2>2. CASE x # a
    BY <1>3, <2>2 DEF NonceOf
  <2>3. QED  BY <2>1, <2>2
<1>6. QED  BY <1>2, <1>5

\* What a debit does to the accounts and to the history of nonces.
LEMMA DebitEffect ==
  ASSUME IInv, NEW t \in Threads, Debit(t)
  PROVE  /\ req[t].from \in DOMAIN accounts /\ req[t].from \in Address
         /\ transfer_lock = t
         /\ accounts[req[t].from] \in AccountState
         /\ accounts[req[t].from].nonce = req[t].nonce
         /\ DOMAIN accounts' = DOMAIN accounts
         /\ \A x \in DOMAIN accounts : x # req[t].from => accounts'[x] = accounts[x]
         /\ accounts'[req[t].from] =
               [balance |-> accounts[req[t].from].balance - req[t].amount,
                nonce   |-> accounts[req[t].from].nonce + 1]
<1>1. AccountMap(accounts)
  BY DEF IInv, TypeOK, AccountMap
<1>2. /\ req[t].from \in DOMAIN accounts /\ req[t].from \in Address
      /\ req[t].amount \in Amounts /\ transfer_lock = t
  BY DEF IInv, Debit, LockDiscipline, InTransfer, TypeOK, Request
<1>3. /\ accounts[req[t].from] \in AccountState
      /\ accounts[req[t].from].balance >= req[t].amount
      /\ accounts[req[t].from].nonce = req[t].nonce
      /\ accounts' = WithDebit(accounts, req[t].from, req[t].amount)
  BY <1>1, <1>2 DEF Debit, SenderValid, AccountMap
<1> DEFINE next == WithDebit(accounts, req[t].from, req[t].amount)
<1>4. /\ DOMAIN next = DOMAIN accounts
      /\ \A x \in DOMAIN accounts : x # req[t].from => next[x] = accounts[x]
      /\ next[req[t].from] =
            [balance |-> accounts[req[t].from].balance - req[t].amount,
             nonce   |-> accounts[req[t].from].nonce + 1]
  BY <1>1, <1>2, <1>3, DebitMap
<1>5. QED  BY <1>2, <1>3, <1>4

\* No debit has happened in a new ledger.
LEMMA InitNonces == Init => NonceSequence
BY DEF Init, NonceSequence, NonceOf, EmptyLedger

\* Only a debit extends the history of nonces, and it extends it by the next one.
LEMMA NextNonces == IInv /\ NonceSequence /\ [Next]_vars => NonceSequence'
<1> SUFFICES ASSUME IInv, NonceSequence, [Next]_vars PROVE NonceSequence'
  OBVIOUS
<1>0. AccountMap(accounts)
  BY DEF IInv, TypeOK, AccountMap
<1>1. ASSUME debits' = debits,
             \A x \in Address : NonceOf(accounts', x) = NonceOf(accounts, x)
      PROVE  NonceSequence'
  BY <1>1 DEF NonceSequence
<1>2. ASSUME NEW t \in Threads, NEW a \in Address, NEW b \in Amounts,
             Register(t, a, b)
      PROVE  NonceSequence'
  <2>1. accounts' = WithRegistered(accounts, a, b) /\ debits' = debits
    BY <1>2 DEF Register
  <2>2. \A x \in Address : NonceOf(WithRegistered(accounts, a, b), x) = NonceOf(accounts, x)
    BY <1>0, SameNonces
  <2>3. QED  BY <1>1, <2>1, <2>2
<1>3. ASSUME NEW t \in Threads, NEW a \in Address, NEW b \in Amounts,
             Credit(t, a, b)
      PROVE  NonceSequence'
  <2>1. accounts' = WithCredit(accounts, a, b) /\ debits' = debits
    BY <1>3 DEF Credit
  <2>2. \A x \in Address : NonceOf(WithCredit(accounts, a, b), x) = NonceOf(accounts, x)
    BY <1>0, SameNonces
  <2>3. QED  BY <1>1, <2>1, <2>2
<1>4. ASSUME NEW t \in Threads, CreditReceiver(t)
      PROVE  NonceSequence'
  <2> DEFINE to == req[t].to  amount == req[t].amount
  <2>1. accounts' = WithCredit(accounts, to, amount) /\ debits' = debits
    BY <1>4 DEF CreditReceiver
  <2>2. to \in Address /\ amount \in Amounts
    BY <1>4 DEF CreditReceiver, IInv, TypeOK, Request
  <2>3. \A x \in Address : NonceOf(WithCredit(accounts, to, amount), x) = NonceOf(accounts, x)
    BY <1>0, <2>2, SameNonces
  <2>4. QED  BY <1>1, <2>1, <2>3
<1>5. ASSUME NEW t \in Threads, Debit(t)
      PROVE  NonceSequence'
  <2> DEFINE from == req[t].from
  <2>1. /\ from \in DOMAIN accounts /\ from \in Address
        /\ accounts[from] \in AccountState
        /\ accounts[from].nonce = req[t].nonce
        /\ DOMAIN accounts' = DOMAIN accounts
        /\ \A x \in DOMAIN accounts : x # from => accounts'[x] = accounts[x]
        /\ accounts'[from] = [balance |-> accounts[from].balance - req[t].amount,
                              nonce   |-> accounts[from].nonce + 1]
    BY <1>5, DebitEffect
  <2>2. /\ NonceOf(accounts', from) = NonceOf(accounts, from) + 1
        /\ NonceOf(accounts, from) = req[t].nonce
        /\ \A x \in Address : x # from => NonceOf(accounts', x) = NonceOf(accounts, x)
    BY <2>1 DEF NonceOf
  <2>3. debits' = [debits EXCEPT ![from] = Append(@, req[t].nonce)]
    BY <1>5 DEF Debit
  <2>4. debits \in [Address -> Seq(Nat)] /\ req[t].nonce \in Nat
    BY <2>1 DEF IInv, TypeOK, AccountState
  <2>5. /\ Len(debits'[from]) = Len(debits[from]) + 1
        /\ \A i \in 1 .. Len(debits[from]) : debits'[from][i] = debits[from][i]
        /\ debits'[from][Len(debits[from]) + 1] = req[t].nonce
        /\ \A x \in Address : x # from => debits'[x] = debits[x]
    BY <2>1, <2>3, <2>4
  <2>6. ASSUME NEW x \in Address
        PROVE  /\ Len(debits'[x]) = NonceOf(accounts', x)
               /\ \A i \in 1 .. Len(debits'[x]) : debits'[x][i] = i - 1
    <3>1. /\ Len(debits[x]) = NonceOf(accounts, x)
          /\ \A i \in 1 .. Len(debits[x]) : debits[x][i] = i - 1
          /\ Len(debits[x]) \in Nat
      BY <2>4 DEF NonceSequence
    <3>2. CASE x = from
      <4>1. Len(debits'[x]) = NonceOf(accounts', x)
        BY <2>2, <2>5, <3>1, <3>2
      <4>2. ASSUME NEW i \in 1 .. Len(debits'[x])
            PROVE  debits'[x][i] = i - 1
        <5>1. CASE i \in 1 .. Len(debits[x])
          BY <2>5, <3>1, <3>2, <5>1
        <5>2. CASE i = Len(debits[x]) + 1
          BY <2>2, <2>5, <3>1, <3>2, <5>2
        <5>3. QED  BY <2>5, <3>1, <3>2, <4>2, <5>1, <5>2
      <4>3. QED  BY <4>1, <4>2
    <3>3. CASE x # from
      BY <2>2, <2>5, <3>1, <3>3
    <3>4. QED  BY <3>2, <3>3
  <2>7. QED  BY <2>6 DEF NonceSequence
<1>6. ASSUME UNCHANGED <<accounts, debits>>
      PROVE  NonceSequence'
  BY <1>1, <1>6
<1>7. QED
  BY <1>2, <1>3, <1>4, <1>5, <1>6
     DEF Next, Call, Step, vars, Transfer, TakeTransferLock, GetMut, Reject,
         Snapshot, SnapshotShard

\* Replay and reordering are impossible within one ledger: the nonces debited
\* from an address are 0, 1, 2, ... in that order, whatever the threads submit.
THEOREM NoncesInOrder == Spec => []NonceSequence
<1>1. Spec => [](IInv /\ NonceSequence)
  BY InitIInv, NextIInv, InitNonces, NextNonces, PTL DEF Spec
<1>2. QED  BY <1>1, PTL

-----------------------------------------------------------------------------
(* The action property, from the same invariant.                           *)

\* Accounts never vanish and a nonce moves only with the debit of its own
\* account, by one, under the transfer lock (ledger.rs:161-162).
THEOREM NoncesMonotone == Spec => NonceMonotone
<1>1. IInv /\ [Next]_vars => [NonceStep]_vars
  <2> SUFFICES ASSUME IInv, Next PROVE NonceStep \/ UNCHANGED vars
    OBVIOUS
  <2>0. AccountMap(accounts)
    BY DEF IInv, TypeOK, AccountMap
  <2>1. ASSUME UNCHANGED accounts
        PROVE  NonceStep
    BY <2>1 DEF NonceStep
  <2>2. ASSUME NEW a \in Address, NEW b \in Amounts,
               accounts' = WithCredit(accounts, a, b)
        PROVE  NonceStep
    <3>1. DOMAIN WithCredit(accounts, a, b) = DOMAIN accounts \cup {a}
      BY <2>0, CreditTyped
    <3>2. \A x \in Address : NonceOf(WithCredit(accounts, a, b), x) = NonceOf(accounts, x)
      BY <2>0, SameNonces
    <3>3. ASSUME NEW x \in DOMAIN accounts
          PROVE  x \in DOMAIN accounts' /\ accounts'[x].nonce = accounts[x].nonce
      <4>1. x \in Address
        BY <2>0 DEF AccountMap
      <4>2. x \in DOMAIN WithCredit(accounts, a, b)
        BY <3>1
      <4>3. QED  BY <2>2, <3>2, <4>1, <4>2 DEF NonceOf
    <3>4. QED  BY <3>3 DEF NonceStep
  <2>3. ASSUME NEW a \in Address, NEW b \in Amounts,
               accounts' = WithRegistered(accounts, a, b)
        PROVE  NonceStep
    <3>1. \A x \in DOMAIN accounts : WithRegistered(accounts, a, b)[x] = accounts[x]
      BY <2>0, RegisterMap
    <3>2. DOMAIN WithRegistered(accounts, a, b) = DOMAIN accounts \cup {a}
      BY <2>0, RegisterTyped
    <3>3. QED  BY <2>3, <3>1, <3>2 DEF NonceStep
  <2>4. ASSUME NEW t \in Threads, CreditReceiver(t)
        PROVE  NonceStep
    <3>1. req[t].to \in Address /\ req[t].amount \in Amounts
      BY <2>4 DEF CreditReceiver, IInv, TypeOK, Request
    <3>2. accounts' = WithCredit(accounts, req[t].to, req[t].amount)
      BY <2>4 DEF CreditReceiver
    <3>3. QED  BY <2>2, <3>1, <3>2
  <2>5. ASSUME NEW t \in Threads, Debit(t)
        PROVE  NonceStep
    <3>1. /\ transfer_lock = t
          /\ DOMAIN accounts' = DOMAIN accounts
          /\ \A x \in DOMAIN accounts : x # req[t].from => accounts'[x] = accounts[x]
          /\ accounts'[req[t].from] =
                [balance |-> accounts[req[t].from].balance - req[t].amount,
                 nonce   |-> accounts[req[t].from].nonce + 1]
      BY <2>5, DebitEffect
    <3>2. QED  BY <3>1 DEF NonceStep
  <2>6. QED
    BY <2>1, <2>2, <2>3, <2>4, <2>5
       DEF Next, Call, Step, Register, Credit, Transfer, TakeTransferLock,
           GetMut, Reject, Snapshot, SnapshotShard
<1>2. Spec => []IInv
  BY InitIInv, NextIInv, PTL DEF Spec
<1>3. QED  BY <1>1, <1>2, PTL DEF Spec, NonceMonotone

-----------------------------------------------------------------------------
(* Refinement of the abstract ledger.                                      *)

\* The next step wraps no balance.
NoOverflow ==
    /\ \A t \in Threads, a \in Address, b \in Amounts :
          Credit(t, a, b) /\ a \in DOMAIN accounts => accounts[a].balance + b < U64
    /\ \A t \in Threads :
          CreditReceiver(t) /\ req[t].to \in DOMAIN accounts =>
             accounts[req[t].to].balance + req[t].amount < U64

\* While a transfer is between its halves it holds the transfer lock.
LEMMA PendingHolder ==
  ASSUME IInv, NEW a
  PROVE  Pending(a) <=> /\ transfer_lock \in Threads
                        /\ pc[transfer_lock] = "entry"
                        /\ req[transfer_lock].from = a
BY DEF Pending, IInv, LockDiscipline, InTransfer

\* Crediting without overflow adds the amount.
LEMMA PlainCredit ==
  ASSUME AccountMap(accounts), NEW a \in Address, NEW b \in Amounts,
         a \in DOMAIN accounts => accounts[a].balance + b < U64
  PROVE  /\ DOMAIN WithCredit(accounts, a, b) = DOMAIN accounts \cup {a}
         /\ \A x \in DOMAIN accounts : x # a => WithCredit(accounts, a, b)[x] = accounts[x]
         /\ a \in DOMAIN accounts => WithCredit(accounts, a, b)[a] =
               [balance |-> accounts[a].balance + b, nonce |-> accounts[a].nonce]
         /\ a \notin DOMAIN accounts =>
               WithCredit(accounts, a, b)[a] = [balance |-> b, nonce |-> 0]
<1>1. DOMAIN WithCredit(accounts, a, b) = DOMAIN accounts \cup {a}
  BY CreditTyped
<1>2. \A x \in DOMAIN accounts : x # a => WithCredit(accounts, a, b)[x] = accounts[x]
  BY CreditMap
<1>3. ASSUME a \in DOMAIN accounts
      PROVE  WithCredit(accounts, a, b)[a] =
                [balance |-> accounts[a].balance + b, nonce |-> accounts[a].nonce]
  <2>1. WithCredit(accounts, a, b)[a] =
           [balance |-> (accounts[a].balance + b) % U64, nonce |-> accounts[a].nonce]
    BY <1>3, CreditMap
  <2>2. accounts[a].balance + b \in 0 .. (U64 - 1)
    BY <1>3, InputsAssumption, U64Assumption DEF AccountMap, AccountState
  <2>3. (accounts[a].balance + b) % U64 = accounts[a].balance + b
    BY <2>2, U64Assumption
  <2>4. QED  BY <2>1, <2>3
<1>4. ASSUME a \notin DOMAIN accounts
      PROVE  WithCredit(accounts, a, b)[a] = [balance |-> b, nonce |-> 0]
  BY <1>4 DEF WithCredit, Put, NewAccount
<1>5. QED  BY <1>1, <1>2, <1>3, <1>4

\* A new ledger is an initial state of the abstract one.
LEMMA InitRefines == Init => Abstract!AInit
BY DEF Init, EmptyLedger, AbstractAccounts, Abstract!AInit

\* A step that keeps the accounts and the transfer between its halves maps to
\* a stutter.
LEMMA StutterRefines ==
  ASSUME IInv, IInv', UNCHANGED accounts,
         \A a \in DOMAIN accounts : Pending(a)' <=> Pending(a),
         \A a \in DOMAIN accounts : Pending(a) =>
            req'[transfer_lock'].amount = req[transfer_lock].amount
  PROVE  AbstractAccounts' = AbstractAccounts
BY DEF AbstractAccounts

\* An account that is missing has no transfer pending from it.
LEMMA PendingKnown ==
  ASSUME IInv, NEW a, Pending(a)
  PROVE  a \in DOMAIN accounts
BY DEF Pending, IInv, LockDiscipline

\* register is ARegister, or a stutter when the account exists.
LEMMA RegisterRefines ==
  ASSUME IInv, NEW t \in Threads, NEW a \in Address, NEW b \in Amounts,
         Register(t, a, b)
  PROVE  Abstract!ARegister(a, b) \/ UNCHANGED AbstractAccounts
<1>0. AccountMap(accounts)
  BY DEF IInv, TypeOK, AccountMap
<1>1. /\ accounts' = WithRegistered(accounts, a, b)
      /\ UNCHANGED <<pc, req, transfer_lock>>
  BY DEF Register
<1>2. \A x : Pending(x)' <=> Pending(x)
  BY <1>1 DEF Pending
<1>3. CASE a \in DOMAIN accounts
  <2>1. accounts' = accounts
    BY <1>1, <1>3 DEF WithRegistered
  <2>2. QED  BY <1>1, <1>2, <2>1 DEF AbstractAccounts
<1>4. CASE a \notin DOMAIN accounts
  <2>1. ~Pending(a)
    BY <1>4, PendingKnown
  <2>2. accounts' = [x \in DOMAIN accounts \cup {a} |->
                       IF x = a THEN [balance |-> b, nonce |-> 0] ELSE accounts[x]]
    BY <1>1, <1>4 DEF WithRegistered, Put, NewAccount
  <2>3. AbstractAccounts' = [x \in DOMAIN AbstractAccounts \cup {a} |->
           IF x = a THEN [balance |-> b, nonce |-> 0] ELSE AbstractAccounts[x]]
    BY <1>1, <1>2, <1>4, <2>1, <2>2 DEF AbstractAccounts
  <2>4. a \notin DOMAIN AbstractAccounts
    BY <1>4 DEF AbstractAccounts
  <2>5. QED  BY <2>3, <2>4 DEF Abstract!ARegister, Abstract!ASet
<1>5. QED  BY <1>3, <1>4

\* credit is ACredit, whatever transfer is pending.
LEMMA CreditRefines ==
  ASSUME IInv, NEW t \in Threads, NEW a \in Address, NEW b \in Amounts,
         Credit(t, a, b), NoOverflow
  PROVE  Abstract!ACredit(a, b)
<1>0. AccountMap(accounts)
  BY DEF IInv, TypeOK, AccountMap
<1>1. /\ accounts' = WithCredit(accounts, a, b)
      /\ UNCHANGED <<pc, req, transfer_lock>>
  BY DEF Credit
<1>2. \A x : Pending(x)' <=> Pending(x)
  BY <1>1 DEF Pending
<1>3. a \in DOMAIN accounts => accounts[a].balance + b < U64
  BY DEF NoOverflow
<1>4. /\ DOMAIN accounts' = DOMAIN accounts \cup {a}
      /\ \A x \in DOMAIN accounts : x # a => accounts'[x] = accounts[x]
      /\ a \in DOMAIN accounts => accounts'[a] =
            [balance |-> accounts[a].balance + b, nonce |-> accounts[a].nonce]
      /\ a \notin DOMAIN accounts => accounts'[a] = [balance |-> b, nonce |-> 0]
  BY <1>0, <1>1, <1>3, PlainCredit
<1>5. DOMAIN AbstractAccounts = DOMAIN accounts
  BY DEF AbstractAccounts
<1>6. DOMAIN AbstractAccounts' = DOMAIN AbstractAccounts \cup {a}
  BY <1>4 DEF AbstractAccounts
<1>7. \A x \in DOMAIN accounts : x # a => AbstractAccounts'[x] = AbstractAccounts[x]
  BY <1>1, <1>2, <1>4 DEF AbstractAccounts
<1>8. ASSUME a \in DOMAIN accounts
      PROVE  AbstractAccounts'[a] =
                [balance |-> AbstractAccounts[a].balance + b,
                 nonce   |-> AbstractAccounts[a].nonce]
  <2>1. accounts[a] \in AccountState /\ b \in Nat
    BY <1>0, <1>8, InputsAssumption, U64Assumption DEF AccountMap
  <2>2. CASE Pending(a)
    <3>1. /\ transfer_lock \in Threads /\ pc[transfer_lock] = "entry"
      BY <2>2, PendingHolder
    <3>2. req[transfer_lock].amount \in Nat
      BY <3>1, InputsAssumption DEF IInv, TypeOK, Request
    <3>3. /\ AbstractAccounts[a] =
               [balance |-> accounts[a].balance + req[transfer_lock].amount,
                nonce   |-> accounts[a].nonce - 1]
          /\ AbstractAccounts'[a] =
               [balance |-> accounts'[a].balance + req[transfer_lock].amount,
                nonce   |-> accounts'[a].nonce - 1]
      BY <1>1, <1>2, <1>4, <1>8, <2>2 DEF AbstractAccounts
    <3>4. /\ accounts'[a].balance = accounts[a].balance + b
          /\ accounts'[a].nonce = accounts[a].nonce
      BY <1>4, <1>8
    <3>5. QED  BY <2>1, <3>2, <3>3, <3>4 DEF AccountState
  <2>3. CASE ~Pending(a)
    BY <1>2, <1>4, <1>8, <2>3 DEF AbstractAccounts
  <2>4. QED  BY <2>2, <2>3
<1>9. ASSUME a \notin DOMAIN accounts
      PROVE  AbstractAccounts'[a] = [balance |-> b, nonce |-> 0]
  <2>1. ~Pending(a)'
    BY <1>2, <1>9, PendingKnown
  <2>2. QED  BY <1>4, <1>9, <2>1 DEF AbstractAccounts
<1>10. AbstractAccounts' = [x \in DOMAIN AbstractAccounts' |-> AbstractAccounts'[x]]
  BY DEF AbstractAccounts
<1>11. QED
  BY <1>5, <1>6, <1>7, <1>8, <1>9, <1>10 DEF Abstract!ACredit, Abstract!ASet

\* The debit of a transfer is invisible: the mapping undoes it until the credit.
LEMMA DebitRefines ==
  ASSUME IInv, IInv', NEW t \in Threads, Debit(t)
  PROVE  UNCHANGED AbstractAccounts
<1> DEFINE from == req[t].from
<1>1. /\ from \in DOMAIN accounts
      /\ transfer_lock = t
      /\ accounts[from] \in AccountState
      /\ DOMAIN accounts' = DOMAIN accounts
      /\ \A x \in DOMAIN accounts : x # from => accounts'[x] = accounts[x]
      /\ accounts'[from] = [balance |-> accounts[from].balance - req[t].amount,
                            nonce   |-> accounts[from].nonce + 1]
  BY DebitEffect
<1>2. /\ transfer_lock' = t /\ req' = req /\ pc[t] = "validate" /\ pc'[t] = "entry"
      /\ req[t].amount \in Nat
  BY <1>1, InputsAssumption DEF Debit, Goto, IInv, TypeOK, Request
<1>3. \A x : ~Pending(x)
  BY <1>1, <1>2, PendingHolder
<1>4. \A x : Pending(x)' <=> x = from
  BY <1>2 DEF Pending, IInv, LockDiscipline, InTransfer
<1>5. AbstractAccounts = [x \in DOMAIN accounts |-> accounts[x]]
  BY <1>3 DEF AbstractAccounts
<1>6. AbstractAccounts' = [x \in DOMAIN accounts |->
         IF x = from THEN [balance |-> accounts'[from].balance + req[t].amount,
                           nonce   |-> accounts'[from].nonce - 1]
         ELSE accounts[x]]
  BY <1>1, <1>2, <1>4 DEF AbstractAccounts
<1>7. [balance |-> accounts'[from].balance + req[t].amount,
       nonce   |-> accounts'[from].nonce - 1] = accounts[from]
  <2>1. accounts'[from].balance = accounts[from].balance - req[t].amount
    BY <1>1
  <2>2. accounts'[from].nonce = accounts[from].nonce + 1
    BY <1>1
  <2>3. /\ accounts'[from].balance + req[t].amount = accounts[from].balance
        /\ accounts'[from].nonce - 1 = accounts[from].nonce
    BY <1>1, <1>2, <2>1, <2>2 DEF AccountState
  <2>4. QED  BY <1>1, <2>3 DEF AccountState
<1>8. QED  BY <1>5, <1>6, <1>7

\* The credit of the receiver is the whole transfer of the abstract ledger.
LEMMA TransferRefines ==
  ASSUME IInv, IInv', NEW t \in Threads, CreditReceiver(t), NoOverflow
  PROVE  Abstract!ATransfer(req[t].from, req[t].to, req[t].amount,
                            accounts[req[t].from].nonce - 1)
<1> DEFINE from == req[t].from  to == req[t].to  amount == req[t].amount
           A == AbstractAccounts
<1>0. AccountMap(accounts)
  BY DEF IInv, TypeOK, AccountMap
<1>1. /\ from \in DOMAIN accounts /\ from # to /\ to \in Address
      /\ amount \in Amounts /\ amount \in Nat /\ amount # 0
      /\ transfer_lock = t /\ pc[t] = "entry"
  BY InputsAssumption
     DEF CreditReceiver, IInv, TypeOK, LockDiscipline, InTransfer, Request, PreCheck
<1>2. /\ accounts' = WithCredit(accounts, to, amount)
      /\ transfer_lock' = NoThread
  BY DEF CreditReceiver, Return
<1>3. to \in DOMAIN accounts => accounts[to].balance + amount < U64
  BY DEF NoOverflow
<1>4. /\ DOMAIN accounts' = DOMAIN accounts \cup {to}
      /\ \A x \in DOMAIN accounts : x # to => accounts'[x] = accounts[x]
      /\ to \in DOMAIN accounts => accounts'[to] =
            [balance |-> accounts[to].balance + amount, nonce |-> accounts[to].nonce]
      /\ to \notin DOMAIN accounts => accounts'[to] = [balance |-> amount, nonce |-> 0]
  BY <1>0, <1>1, <1>2, <1>3, PlainCredit
<1>5. \A x : Pending(x) <=> x = from
  BY <1>1, PendingHolder
<1>6. \A x : ~Pending(x)'
  BY <1>2, ThreadsAssumption DEF Pending, IInv, LockDiscipline, InTransfer
<1>7. accounts[from] \in AccountState
  BY <1>0, <1>1 DEF AccountMap
<1>8. /\ DOMAIN A = DOMAIN accounts
      /\ A[from] = [balance |-> accounts[from].balance + amount,
                    nonce   |-> accounts[from].nonce - 1]
      /\ \A x \in DOMAIN accounts : x # from => A[x] = accounts[x]
  BY <1>1, <1>5 DEF AbstractAccounts
<1>9. A' = [x \in DOMAIN accounts \cup {to} |-> accounts'[x]]
  BY <1>4, <1>6 DEF AbstractAccounts
<1>10. /\ A[from].nonce = accounts[from].nonce - 1
       /\ A[from].balance >= amount
       /\ accounts[from].nonce = A[from].nonce + 1
       /\ accounts[from].balance = A[from].balance - amount
  BY <1>1, <1>7, <1>8 DEF AccountState
<1>11. accounts[from] = [balance |-> A[from].balance - amount,
                         nonce   |-> A[from].nonce + 1]
  BY <1>7, <1>10 DEF AccountState
<1> HIDE DEF A
<1> DEFINE F(x) ==
          IF x = from THEN [balance |-> A[from].balance - amount,
                            nonce   |-> A[from].nonce + 1]
          ELSE IF x = to THEN
               IF to \in DOMAIN A
               THEN [balance |-> A[to].balance + amount, nonce |-> A[to].nonce]
               ELSE [balance |-> amount, nonce |-> 0]
          ELSE A[x]
<1>12. A' = [x \in DOMAIN A \cup {to} |-> F(x)]
  <2>1. accounts'[from] = F(from)
    BY <1>1, <1>4, <1>11
  <2>2. accounts'[to] = F(to)
    <3>1. CASE to \in DOMAIN accounts
      <4>1. A[to] = accounts[to] /\ to \in DOMAIN A
        BY <1>1, <1>8, <3>1
      <4>2. accounts'[to] = [balance |-> A[to].balance + amount, nonce |-> A[to].nonce]
        BY <1>4, <3>1, <4>1
      <4>3. QED  BY <1>1, <4>1, <4>2
    <3>2. CASE to \notin DOMAIN accounts
      BY <1>1, <1>4, <1>8, <3>2
    <3>3. QED  BY <3>1, <3>2
  <2>3. ASSUME NEW x \in DOMAIN accounts, x # from, x # to
        PROVE  accounts'[x] = F(x)
    BY <1>4, <1>8, <2>3
  <2> HIDE DEF F
  <2>4. \A x \in DOMAIN accounts \cup {to} : accounts'[x] = F(x)
    BY <2>1, <2>2, <2>3
  <2>5. QED  BY <1>8, <1>9, <2>4
<1>13. /\ from # to /\ amount > 0 /\ from \in DOMAIN A
       /\ A[from].nonce = accounts[from].nonce - 1
       /\ A[from].balance >= amount
  BY <1>1, <1>8, <1>10
<1>14. QED  BY <1>10, <1>12, <1>13 DEF Abstract!ATransfer, A

\* Until it credits, a transfer has its sender's nonce to itself.
EntryNonce ==
    \A t \in Threads : pc[t] = "entry" =>
        accounts[req[t].from].nonce = req[t].nonce + 1

\* The nonce of an account whose transfer is pending does not move.
LEMMA NextEntryNonce == IInv /\ IInv' /\ EntryNonce /\ [Next]_vars => EntryNonce'
<1> SUFFICES ASSUME IInv, IInv', EntryNonce, [Next]_vars PROVE EntryNonce'
  OBVIOUS
<1>0. AccountMap(accounts)
  BY DEF IInv, TypeOK, AccountMap
<1>1. \A t \in Threads : pc[t] = "entry" => req[t].from \in DOMAIN accounts
  BY DEF IInv, LockDiscipline
<1>2. ASSUME NEW a \in Address, NEW b \in Amounts, UNCHANGED <<pc, req>>,
             accounts' = WithRegistered(accounts, a, b)
      PROVE  EntryNonce'
  <2>1. \A x \in DOMAIN accounts : WithRegistered(accounts, a, b)[x] = accounts[x]
    BY <1>0, RegisterMap
  <2>2. QED  BY <1>1, <1>2, <2>1 DEF EntryNonce
<1>3. ASSUME NEW a \in Address, NEW b \in Amounts, UNCHANGED <<pc, req>>,
             accounts' = WithCredit(accounts, a, b)
      PROVE  EntryNonce'
  <2>1. DOMAIN WithCredit(accounts, a, b) = DOMAIN accounts \cup {a}
    BY <1>0, CreditTyped
  <2>2. \A x \in Address : NonceOf(WithCredit(accounts, a, b), x) = NonceOf(accounts, x)
    BY <1>0, SameNonces
  <2>3. \A x \in DOMAIN accounts : WithCredit(accounts, a, b)[x].nonce = accounts[x].nonce
    BY <1>0, <2>1, <2>2 DEF NonceOf, AccountMap
  <2>4. QED  BY <1>1, <1>3, <2>3 DEF EntryNonce
<1>4. ASSUME NEW t \in Threads, CreditReceiver(t)
      PROVE  EntryNonce'
  <2>1. transfer_lock' = NoThread
    BY <1>4 DEF CreditReceiver, Return
  <2>2. QED  BY <2>1, ThreadsAssumption DEF EntryNonce, IInv, LockDiscipline, InTransfer
<1>5. ASSUME NEW t \in Threads, Debit(t)
      PROVE  EntryNonce'
  <2>1. /\ accounts[req[t].from].nonce = req[t].nonce
        /\ accounts'[req[t].from] =
              [balance |-> accounts[req[t].from].balance - req[t].amount,
               nonce   |-> accounts[req[t].from].nonce + 1]
        /\ transfer_lock = t
    BY <1>5, DebitEffect
  <2>2. req' = req /\ transfer_lock' = transfer_lock
    BY <1>5 DEF Debit
  <2>3. \A u \in Threads : pc'[u] = "entry" => u = t
    BY <2>1, <2>2 DEF IInv, LockDiscipline, InTransfer
  <2>4. accounts'[req'[t].from].nonce = req'[t].nonce + 1
    BY <2>1, <2>2
  <2>5. QED  BY <2>3, <2>4 DEF EntryNonce
<1>6. ASSUME UNCHANGED accounts,
             \A u \in Threads : pc'[u] = "entry" => pc[u] = "entry" /\ req'[u] = req[u]
      PROVE  EntryNonce'
  BY <1>6 DEF EntryNonce
<1>7. ASSUME NEW t \in Threads,
             \/ \E r \in Request : Transfer(t, r)
             \/ TakeTransferLock(t) \/ GetMut(t) \/ Reject(t)
             \/ Snapshot(t) \/ SnapshotShard(t)
      PROVE  EntryNonce'
  <2>1. UNCHANGED accounts
    BY <1>7 DEF Transfer, TakeTransferLock, GetMut, Reject, Snapshot, SnapshotShard
  <2>2. pc \in [Threads -> PC] /\ DOMAIN req = Threads
    BY DEF IInv, TypeOK
  <2>3. \A u \in Threads : pc'[u] = "entry" => pc[u] = "entry" /\ req'[u] = req[u]
    BY <1>7, <2>2 DEF Transfer, Enter, Goto, TakeTransferLock, GetMut, Return, Reject,
                      Snapshot, SnapshotShard
  <2>4. QED  BY <1>6, <2>1, <2>3
<1>8. CASE UNCHANGED vars
  BY <1>8 DEF EntryNonce, vars
<1>9. QED
  BY <1>2, <1>3, <1>4, <1>5, <1>7, <1>8 DEF Next, Call, Step, Register, Credit

\* Every step is a step of the abstract ledger or leaves it as it is.
LEMMA NextRefines ==
  IInv /\ IInv' /\ EntryNonce /\ [Next]_vars /\ [NoOverflow]_vars =>
     [Abstract!ANext]_AbstractAccounts
<1> SUFFICES ASSUME IInv, IInv', EntryNonce, [Next]_vars, [NoOverflow]_vars
             PROVE  [Abstract!ANext]_AbstractAccounts
  OBVIOUS
<1>1. ASSUME UNCHANGED <<accounts, pc, req, transfer_lock>>
      PROVE  UNCHANGED AbstractAccounts
  BY <1>1 DEF AbstractAccounts, Pending
<1>2. CASE UNCHANGED vars
  BY <1>1, <1>2 DEF vars
<1>3. ASSUME NEW t \in Threads, NEW a \in Address, NEW b \in Amounts,
             Register(t, a, b)
      PROVE  [Abstract!ANext]_AbstractAccounts
  BY <1>3, RegisterRefines DEF Abstract!ANext
<1>4. ASSUME NEW t \in Threads, NEW a \in Address, NEW b \in Amounts,
             Credit(t, a, b), NoOverflow
      PROVE  [Abstract!ANext]_AbstractAccounts
  BY <1>4, CreditRefines DEF Abstract!ANext
<1>5. ASSUME NEW t \in Threads, CreditReceiver(t), NoOverflow
      PROVE  [Abstract!ANext]_AbstractAccounts
  <2>1. /\ req[t] \in Request /\ req[t].from \in Address /\ req[t].to \in Address
        /\ req[t].amount \in Amounts /\ req[t].nonce \in Nonces /\ req[t].nonce \in Nat
    BY <1>5, InputsAssumption DEF CreditReceiver, IInv, TypeOK, Request
  <2>2. accounts[req[t].from].nonce - 1 = req[t].nonce
    BY <1>5, <2>1 DEF CreditReceiver, EntryNonce
  <2>3. Abstract!ATransfer(req[t].from, req[t].to, req[t].amount, req[t].nonce)
    BY <1>5, <2>2, TransferRefines
  <2>4. QED  BY <2>1, <2>3 DEF Abstract!ANext
<1>6. ASSUME NEW t \in Threads, Debit(t)
      PROVE  [Abstract!ANext]_AbstractAccounts
  BY <1>6, DebitRefines
<1>7. ASSUME NEW t \in Threads,
             \/ \E r \in Request : Transfer(t, r)
             \/ TakeTransferLock(t) \/ GetMut(t) \/ Reject(t)
             \/ Snapshot(t) \/ SnapshotShard(t)
      PROVE  [Abstract!ANext]_AbstractAccounts
  <2>1. UNCHANGED accounts
    BY <1>7 DEF Transfer, TakeTransferLock, GetMut, Reject, Snapshot, SnapshotShard
  <2>2. /\ pc \in [Threads -> PC] /\ DOMAIN req = Threads
        /\ \A u \in Threads : InTransfer(u) <=> transfer_lock = u
    BY DEF IInv, TypeOK, LockDiscipline
  <2>3. \A u \in Threads : pc'[u] = "entry" <=> pc[u] = "entry"
    BY <1>7, <2>2 DEF Transfer, Enter, Goto, TakeTransferLock, GetMut, Return, Reject,
                      Snapshot, SnapshotShard
  <2>4. \A u \in Threads : pc[u] = "entry" => req'[u] = req[u] /\ transfer_lock' = transfer_lock
    BY <1>7, <2>2, ThreadsAssumption
       DEF Transfer, Enter, Goto, TakeTransferLock, GetMut, Return, Reject,
           Snapshot, SnapshotShard, InTransfer
  <2>5. \A a : Pending(a)' <=> Pending(a)
    BY <2>3, <2>4 DEF Pending
  <2>6. \A a : Pending(a) => req'[transfer_lock'].amount = req[transfer_lock].amount
    BY <2>4, PendingHolder
  <2>7. QED  BY <2>1, <2>5, <2>6, StutterRefines
<1>8. QED
  BY <1>2, <1>3, <1>4, <1>5, <1>6, <1>7 DEF Next, Call, Step

\* As long as no balance overflows, the ledger implements the abstract one in
\* which a transfer is one indivisible step: concurrent transfers, credits and
\* registrations have the effect of some sequence of whole operations.
THEOREM LedgerRefinesAbstract == Spec /\ [][NoOverflow]_vars => RefinesAbstract
<1>1. Init => EntryNonce
  BY DEF Init, EntryNonce
<1>2. Spec => [](IInv /\ EntryNonce)
  BY <1>1, InitIInv, NextIInv, NextEntryNonce, PTL DEF Spec
<1>3. QED
  BY <1>2, InitRefines, NextRefines, PTL DEF Spec, RefinesAbstract, Abstract!ASpec
=============================================================================
