------------------------------ MODULE Accounts ------------------------------
(***************************************************************************)
(* The account map of zyphra/src/ledger.rs and the updates the ledger makes *)
(* to one entry of it.  The DashMap is a partial function from addresses to *)
(* account states: its domain is the set of keys present in the map.       *)
(* Balances are u64 and wrap (the release profile has overflow checks off). *)
(***************************************************************************)
EXTENDS Naturals

CONSTANT U64        \* number of values of the balance type (2^64 in the code)

ASSUME U64Assumption == U64 \in Nat \ {0}

AccountState == [balance : 0 .. (U64 - 1), nonce : Nat]

\* AccountState::new
NewAccount(initial_balance) == [balance |-> initial_balance, nonce |-> 0]

EmptyLedger == [a \in {} |-> NewAccount(0)]

\* DashMap insert: the entry of one key is replaced or created.
Put(accts, a, state) ==
    [x \in DOMAIN accts \cup {a} |-> IF x = a THEN state ELSE accts[x]]

\* Mutant of WithRegistered: an existing account is overwritten.
WithOverwritten(accts, a, initial_balance) == Put(accts, a, NewAccount(initial_balance))

\* register: a no-op on an account that exists.
WithRegistered(accts, a, initial_balance) ==
    IF a \in DOMAIN accts THEN accts ELSE Put(accts, a, NewAccount(initial_balance))

\* Mutants of WithCredit: an existing balance is replaced; the nonce starts again.
WithReplacedBalance(accts, a, amount) ==
    Put(accts, a, [balance |-> amount, nonce |-> IF a \in DOMAIN accts THEN accts[a].nonce ELSE 0])
WithFreshNonce(accts, a, amount) ==
    Put(accts, a, NewAccount(IF a \in DOMAIN accts
                             THEN (accts[a].balance + amount) % U64 ELSE amount))

\* credit, and the second half of transfer: entry().and_modify().or_insert().
WithCredit(accts, a, amount) ==
    Put(accts, a,
        IF a \in DOMAIN accts
        THEN [accts[a] EXCEPT !.balance = (@ + amount) % U64]
        ELSE NewAccount(amount))

\* The first half of transfer: debit and bump the nonce of an existing sender.
WithDebit(accts, a, amount) ==
    [accts EXCEPT ![a] = [balance |-> @.balance - amount, nonce |-> @.nonce + 1]]

\* balance().unwrap_or(0) and nonce().unwrap_or(0), as the callers read them.
BalanceOf(accts, a) == IF a \in DOMAIN accts THEN accts[a].balance ELSE 0
NonceOf(accts, a)   == IF a \in DOMAIN accts THEN accts[a].nonce   ELSE 0

\* The checks of transfer made before the lock is taken.
PreCheck(r) == r.from # r.to /\ r.amount # 0

\* Mutants of SenderValid: one of the two checks is missing.
FundsOnly(state, r) == state.balance >= r.amount
NonceOnly(state, r) == state.nonce = r.nonce

\* The checks made on the sender's entry once it was found.
SenderValid(state, r) == state.nonce = r.nonce /\ state.balance >= r.amount

LedgerError == {"SelfTransfer", "ZeroValue", "AddressNotFound", "InvalidNonce",
                "InsufficientBalance"}

\* The error of a transfer that fails, in the order of the checks.
TransferError(accts, r) ==
    IF r.from = r.to THEN "SelfTransfer"
    ELSE IF r.amount = 0 THEN "ZeroValue"
    ELSE IF r.from \notin DOMAIN accts THEN "AddressNotFound"
    ELSE IF accts[r.from].nonce # r.nonce THEN "InvalidNonce"
    ELSE "InsufficientBalance"

\* Every check of transfer, for callers that run it as one step.
TransferOk(accts, r) ==
    /\ PreCheck(r)
    /\ r.from \in DOMAIN accts
    /\ SenderValid(accts[r.from], r)

\* The whole of transfer for a request that passes the checks.
WithTransfer(accts, r) ==
    WithCredit(WithDebit(accts, r.from, r.amount), r.to, r.amount)
=============================================================================
