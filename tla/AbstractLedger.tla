--------------------------- MODULE AbstractLedger ---------------------------
(***************************************************************************)
(* What ledger.rs promises its callers: accounts hold natural-number        *)
(* balances, and register, credit and transfer are single indivisible       *)
(* operations.  A transfer needs the sender's exact next nonce and enough    *)
(* funds; it moves the amount and advances the nonce in one step.           *)
(***************************************************************************)
EXTENDS Naturals

CONSTANTS
    Address,        \* wallet addresses
    Amounts,        \* amounts callers may pass
    Nonces          \* nonces callers may pass

VARIABLE accounts   \* partial function Address -> [balance, nonce]

AState == [balance : Nat, nonce : Nat]

AInit == accounts = [a \in {} |-> [balance |-> 0, nonce |-> 0]]

ASet(a, state) ==
    accounts' = [x \in DOMAIN accounts \cup {a} |->
                    IF x = a THEN state ELSE accounts[x]]

ARegister(a, initial_balance) ==
    /\ a \notin DOMAIN accounts
    /\ ASet(a, [balance |-> initial_balance, nonce |-> 0])

ACredit(a, amount) ==
    ASet(a, IF a \in DOMAIN accounts
            THEN [balance |-> accounts[a].balance + amount,
                  nonce   |-> accounts[a].nonce]
            ELSE [balance |-> amount, nonce |-> 0])

\* Sender and receiver change together: no state shows one without the other.
ATransfer(from, to, amount, nonce) ==
    /\ from # to
    /\ amount > 0
    /\ from \in DOMAIN accounts
    /\ accounts[from].nonce = nonce
    /\ accounts[from].balance >= amount
    /\ accounts' =
         [x \in DOMAIN accounts \cup {to} |->
            IF x = from THEN [balance |-> accounts[from].balance - amount,
                              nonce   |-> nonce + 1]
            ELSE IF x = to THEN
                 IF to \in DOMAIN accounts
                 THEN [balance |-> accounts[to].balance + amount,
                       nonce   |-> accounts[to].nonce]
                 ELSE [balance |-> amount, nonce |-> 0]
            ELSE accounts[x]]

ANext ==
    \/ \E a \in Address, amount \in Amounts : ARegister(a, amount) \/ ACredit(a, amount)
    \/ \E from, to \in Address, amount \in Amounts, nonce \in Nonces :
          ATransfer(from, to, amount, nonce)

ASpec == AInit /\ [][ANext]_accounts
=============================================================================
