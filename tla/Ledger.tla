------------------------------- MODULE Ledger -------------------------------
(***************************************************************************)
(* zyphra/src/ledger.rs used by several threads, as its "Thread-safe"       *)
(* contract and its Clone over Arc allow.  A call is a sequence of steps     *)
(* separated by the locks it takes:                                         *)
(*   transfer:  pre-checks | transfer_lock.write() | get_mut(from) |         *)
(*              validate, debit, drop(sender) | entry(to) and return         *)
(*   snapshot:  one step per DashMap shard, in shard order                   *)
(*   register, credit:  one step (the entry holds the shard for their span)  *)
(* Only the guard that get_mut returns outlives a step, so shard_lock says   *)
(* who holds a shard through such a guard.                                  *)
(***************************************************************************)
EXTENDS Accounts, Integers, Sequences, FiniteSets, Functions

CONSTANTS
    Threads,        \* users of the shared ledger
    NoThread,       \* a lock's holder when it is free
    Address,        \* wallet addresses
    NumShards,      \* shards of the DashMap
    shard_of,       \* the shard an address hashes to
    Amounts,        \* amounts callers pass to register, credit and transfer
    Nonces,         \* nonces callers pass to transfer
    MaxCalls,       \* bound: calls per thread
    MaxSupply       \* bound: total of the registered and credited amounts

Shards == 1 .. NumShards

ASSUME ThreadsAssumption == NoThread \notin Threads
ASSUME FiniteAssumption == IsFiniteSet(Threads)
ASSUME ShardsAssumption ==
    NumShards \in Nat \ {0} /\ shard_of \in [Address -> Shards]
ASSUME InputsAssumption == Amounts \subseteq 0 .. (U64 - 1) /\ Nonces \subseteq Nat

VARIABLES
    accounts,       \* Ledger::accounts
    transfer_lock,  \* the thread holding the write guard, or NoThread
    shard_lock,     \* per shard, the thread holding it by a RefMut, or NoThread
    pc,             \* per thread, the step its current call is at
    req,            \* per thread, the arguments of its current transfer
    snap,           \* per thread, its snapshot: next shard to read, entries so far
    calls,          \* per thread, the number of calls made
    minted,         \* history: total of what register and credit brought in
    debits          \* history: per address, the nonces debited, in order

vars == <<accounts, transfer_lock, shard_lock, pc, req, snap, calls, minted, debits>>

Request == [from : Address, to : Address, amount : Amounts, nonce : Nonces]

NoReq == [from |-> NoThread, to |-> NoThread, amount |-> 0, nonce |-> 0]

\* A snapshot: the shard to read next, the entries read, and, as history, what
\* had been minted when it started and when it read its last shard.
NewSnap(now) == [next |-> 1, view |-> EmptyLedger, before |-> now, after |-> now]

PC == {"idle", "lock", "get_mut", "validate", "entry", "iterate"}

TypeOK ==
    /\ DOMAIN accounts \subseteq Address
    /\ accounts \in [DOMAIN accounts -> AccountState]
    /\ transfer_lock \in Threads \cup {NoThread}
    /\ shard_lock \in [Shards -> Threads \cup {NoThread}]
    /\ pc \in [Threads -> PC]
    /\ DOMAIN req = Threads
    /\ \A t \in Threads : pc[t] \in {"lock", "get_mut", "validate", "entry"} =>
                             req[t] \in Request /\ PreCheck(req[t])
    /\ DOMAIN snap = Threads
    /\ \A t \in Threads :
          /\ snap[t].next \in 1 .. (NumShards + 1)
          /\ pc[t] = "iterate" => snap[t].next \in Shards
          /\ DOMAIN snap[t].view \subseteq Address
    /\ calls \in [Threads -> Nat]
    /\ minted \in Nat
    /\ debits \in [Address -> Seq(Nat)]

-----------------------------------------------------------------------------
(* The calls.                                                              *)

\* A call starts on a thread that is in no other call.
Enter(t) == /\ pc[t] = "idle"
            /\ calls[t] < MaxCalls
            /\ calls' = [calls EXCEPT ![t] = @ + 1]

Goto(t, label) == pc' = [pc EXCEPT ![t] = label]

ShardFree(a) == shard_lock[shard_of[a]] = NoThread

Init == /\ accounts = EmptyLedger
        /\ transfer_lock = NoThread
        /\ shard_lock = [s \in Shards |-> NoThread]
        /\ pc = [t \in Threads |-> "idle"]
        /\ req = [t \in Threads |-> NoReq]
        /\ snap = [t \in Threads |-> NewSnap(0)]
        /\ calls = [t \in Threads |-> 0]
        /\ minted = 0
        /\ debits = [a \in Address |-> << >>]

Register(t, a, amount) ==
    /\ Enter(t)
    /\ ShardFree(a)
    /\ minted + amount <= MaxSupply
    /\ accounts' = WithRegistered(accounts, a, amount)
    /\ minted' = IF a \in DOMAIN accounts THEN minted ELSE minted + amount
    /\ UNCHANGED <<transfer_lock, shard_lock, pc, req, snap, debits>>

\* credit takes the shard of the entry only, never the transfer lock.
Credit(t, a, amount) ==
    /\ Enter(t)
    /\ ShardFree(a)
    /\ minted + amount <= MaxSupply
    /\ accounts' = WithCredit(accounts, a, amount)
    /\ minted' = minted + amount
    /\ UNCHANGED <<transfer_lock, shard_lock, pc, req, snap, debits>>

\* A self-transfer or a zero amount returns before any lock is taken.
Transfer(t, r) ==
    /\ Enter(t)
    /\ IF PreCheck(r)
       THEN Goto(t, "lock") /\ req' = [req EXCEPT ![t] = r]
       ELSE UNCHANGED <<pc, req>>
    /\ UNCHANGED <<accounts, transfer_lock, shard_lock, snap, minted, debits>>

\* Mutant of TakeTransferLock: the shared side of the RwLock is taken.
TakeReadLock(t) ==
    /\ pc[t] = "lock"
    /\ transfer_lock' = t
    /\ Goto(t, "get_mut")
    /\ UNCHANGED <<accounts, shard_lock, req, snap, calls, minted, debits>>

TakeTransferLock(t) ==
    /\ pc[t] = "lock"
    /\ transfer_lock = NoThread
    /\ transfer_lock' = t
    /\ Goto(t, "get_mut")
    /\ UNCHANGED <<accounts, shard_lock, req, snap, calls, minted, debits>>

\* The call returns: its arguments go out of scope and _guard is dropped.
Return(t) == /\ Goto(t, "idle")
             /\ req' = [req EXCEPT ![t] = NoReq]
             /\ transfer_lock' = NoThread

\* get_mut waits for the shard; AddressNotFound returns at once.
GetMut(t) ==
    /\ pc[t] = "get_mut"
    /\ ShardFree(req[t].from)
    /\ IF req[t].from \in DOMAIN accounts
       THEN /\ Goto(t, "validate")
            /\ shard_lock' = [shard_lock EXCEPT ![shard_of[req[t].from]] = t]
            /\ UNCHANGED <<req, transfer_lock>>
       ELSE Return(t) /\ UNCHANGED shard_lock
    /\ UNCHANGED <<accounts, snap, calls, minted, debits>>

ReleaseShard(a) == shard_lock' = [shard_lock EXCEPT ![shard_of[a]] = NoThread]

\* InvalidNonce or InsufficientBalance: both guards are dropped on return.
Reject(t) ==
    /\ pc[t] = "validate"
    /\ ~SenderValid(accounts[req[t].from], req[t])
    /\ Return(t)
    /\ ReleaseShard(req[t].from)
    /\ UNCHANGED <<accounts, snap, calls, minted, debits>>

\* Mutant of Debit: drop(sender) is forgotten, the RefMut lives to the return.
DebitKeepingRef(t) ==
    /\ pc[t] = "validate"
    /\ SenderValid(accounts[req[t].from], req[t])
    /\ accounts' = WithDebit(accounts, req[t].from, req[t].amount)
    /\ debits' = [debits EXCEPT ![req[t].from] = Append(@, req[t].nonce)]
    /\ Goto(t, "entry")
    /\ UNCHANGED <<transfer_lock, shard_lock, req, snap, calls, minted>>

\* Debit, bump the nonce and drop(sender); the transfer lock stays held.
Debit(t) ==
    /\ pc[t] = "validate"
    /\ SenderValid(accounts[req[t].from], req[t])
    /\ accounts' = WithDebit(accounts, req[t].from, req[t].amount)
    /\ debits' = [debits EXCEPT ![req[t].from] = Append(@, req[t].nonce)]
    /\ ReleaseShard(req[t].from)
    /\ Goto(t, "entry")
    /\ UNCHANGED <<transfer_lock, req, snap, calls, minted>>

\* entry(to) waits for its shard, credits the receiver; then transfer returns.
CreditReceiver(t) ==
    /\ pc[t] = "entry"
    /\ ShardFree(req[t].to)
    /\ accounts' = WithCredit(accounts, req[t].to, req[t].amount)
    /\ Return(t)
    /\ UNCHANGED <<shard_lock, snap, calls, minted, debits>>

Snapshot(t) ==
    /\ Enter(t)
    /\ Goto(t, "iterate")
    /\ snap' = [snap EXCEPT ![t] = NewSnap(minted)]
    /\ UNCHANGED <<accounts, transfer_lock, shard_lock, req, minted, debits>>

\* The iterator waits for the next shard and clones the entries in it.
SnapshotShard(t) ==
    /\ pc[t] = "iterate"
    /\ LET s    == snap[t].next
           here == {a \in DOMAIN accounts : shard_of[a] = s}
           view == snap[t].view
       IN  /\ shard_lock[s] = NoThread
           /\ snap' = [snap EXCEPT ![t] =
                 [@ EXCEPT !.next = s + 1,
                           !.view = [a \in DOMAIN view \cup here |->
                                        IF a \in here THEN accounts[a] ELSE view[a]],
                           !.after = minted]]
           /\ IF s = NumShards THEN Goto(t, "idle") ELSE UNCHANGED pc
    /\ UNCHANGED <<accounts, transfer_lock, shard_lock, req, calls, minted, debits>>

-----------------------------------------------------------------------------
\* The steps of a call that was made.
Step(t) == \/ TakeTransferLock(t) \/ GetMut(t) \/ Reject(t) \/ Debit(t)
           \/ CreditReceiver(t) \/ SnapshotShard(t)

Call(t) == \/ \E a \in Address, amount \in Amounts :
                 Register(t, a, amount) \/ Credit(t, a, amount)
           \/ \E r \in Request : Transfer(t, r)
           \/ Snapshot(t)

Next == \E t \in Threads : Call(t) \/ Step(t)

\* A thread inside a call keeps running.
Fairness == \A t \in Threads : WF_vars(Step(t))

Spec == Init /\ [][Next]_vars
FairSpec == Spec /\ Fairness

-----------------------------------------------------------------------------
(* Safety.                                                                 *)

InTransfer(t) == pc[t] \in {"get_mut", "validate", "entry"}

\* The locks are held by exactly the calls that are between taking and
\* dropping them: one transfer at a time is past transfer_lock.write(), and a
\* shard is held across steps only by a transfer that is validating its sender.
LockDiscipline ==
    /\ \A t \in Threads : InTransfer(t) <=> transfer_lock = t
    /\ \A s \in Shards, t \in Threads :
          shard_lock[s] = t <=> pc[t] = "validate" /\ shard_of[req[t].from] = s
    /\ \A t \in Threads : pc[t] \in {"validate", "entry"} =>
                             req[t].from \in DOMAIN accounts

\* The nonces an address was debited with are 0, 1, 2, ... in that order, and
\* the next one is what the ledger expects: no (address, nonce) pair is ever
\* debited twice or out of order, whatever the threads submit (ledger.rs:147).
NonceSequence ==
    \A a \in Address :
        /\ Len(debits[a]) = NonceOf(accounts, a)
        /\ \A i \in 1 .. Len(debits[a]) : debits[a][i] = i - 1

Total(accts) == SumFunction([a \in DOMAIN accts |-> accts[a].balance])

\* The amount of the transfer that has debited and not yet credited.
InFlight == SumFunction([t \in Threads |-> IF pc[t] = "entry" THEN req[t].amount ELSE 0])

\* No interleaving of transfers, credits and registrations creates or loses
\* money: balances plus the one amount in flight add up to what was brought in
\* (modulo the width of the balance type).
Conservation == (Total(accounts) + InFlight) % U64 = minted % U64

\* A step never removes an account or lowers a nonce; it raises a nonce by one,
\* only while the transfer lock is held, and lowers the balance of that same
\* account by the amount its holder asked for.
NonceStep ==
    \A a \in DOMAIN accounts :
        /\ a \in DOMAIN accounts'
        /\ \/ accounts'[a].nonce = accounts[a].nonce
           \/ /\ accounts'[a].nonce = accounts[a].nonce + 1
              /\ transfer_lock \in Threads
              /\ req[transfer_lock].from = a
              /\ accounts'[a].balance = accounts[a].balance - req[transfer_lock].amount
NonceMonotone == [][NonceStep]_vars

\* Every call returns: the locks are taken in an order, and dropped on paths,
\* that never leave a thread waiting for good (drop(sender) before entry(to)).
CallsReturn == \A t \in Threads : (pc[t] # "idle") ~> (pc[t] = "idle")

-----------------------------------------------------------------------------
(* The abstract ledger: a transfer takes effect when it credits.           *)

\* The debit of a transfer that has not credited yet, undone.
Pending(a) == \E t \in Threads : pc[t] = "entry" /\ req[t].from = a
AbstractAccounts ==
    [a \in DOMAIN accounts |->
        IF Pending(a)
        THEN [balance |-> accounts[a].balance + req[transfer_lock].amount,
              nonce   |-> accounts[a].nonce - 1]
        ELSE accounts[a]]

Abstract == INSTANCE AbstractLedger WITH accounts <- AbstractAccounts

\* As long as no balance overflows, what callers can do to the ledger is what
\* the abstract ledger allows: transfers are atomic towards each other and
\* towards register and credit.
RefinesAbstract == Abstract!ASpec

-----------------------------------------------------------------------------
(* ledger.rs:8-9 says that credit and debit happen under a single write lock *)
(* "so the ledger is always consistent".                                    *)

\* A finished snapshot adds up to an amount of money that existed while it was
\* taken.
SnapshotDone(t) == pc[t] = "idle" /\ snap[t].next = NumShards + 1
AlwaysConsistent ==
    \A t \in Threads : SnapshotDone(t) =>
        Total(snap[t].view) \in snap[t].before .. snap[t].after
=============================================================================
