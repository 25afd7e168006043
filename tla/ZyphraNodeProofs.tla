-------------------------- MODULE ZyphraNodeProofs --------------------------
(***************************************************************************)
(* Proofs about the node network, for any nodes, strangers, amounts, balance *)
(* width and bounds: what a node credits, how often, what the confirmations  *)
(* say and which nonces a sender uses.                                      *)
(***************************************************************************)
EXTENDS ZyphraNode, SumProofs

-----------------------------------------------------------------------------
(* Transactions and their encodings.                                       *)

\* Different keys have different addresses.
LEMMA AddrFacts ==
    /\ \A k \in Keys : Addr[k] = DeriveAddress(PublicKey(k)) /\ Addr[k] \in Address
    /\ \A k1, k2 \in Keys : Addr[k1] = Addr[k2] => k1 = k2
    /\ Nodes \subseteq Keys /\ Strangers \subseteq Keys
BY DEF Addr, Address, Keys, WalletOf, DeriveAddress, PublicKey

\* The fields of a transaction that verifies, and their types.
LEMMA TxFields ==
    ASSUME NEW tx \in Tx
    PROVE  /\ tx = [from |-> tx.from, to |-> tx.to, amount |-> tx.amount,
                    nonce |-> tx.nonce, timestamp |-> tx.timestamp,
                    pubkey |-> tx.pubkey, signature |-> tx.signature]
           /\ tx.to \in Address /\ tx.amount \in Amounts /\ tx.nonce \in Nonces
           /\ tx.timestamp \in Runs
           /\ \E k \in Keys : /\ tx.from = Addr[k] /\ tx.pubkey = PublicKey(k)
                              /\ tx.signature = [signer |-> k, message |-> DigestOf(tx)]
<1>1. PICK k \in Keys, to \in Address, amount \in Amounts, nonce \in Nonces,
           timestamp \in Runs : tx = Create(WalletOf(k), to, amount, nonce, timestamp)
  BY DEF Tx
<1>2. WalletOf(k).address = Addr[k] /\ WalletOf(k).signing_key = k
  BY AddrFacts DEF WalletOf
<1>3. QED
  BY <1>1, <1>2 DEF Create, Sign, DigestOf, UnsignedDigest

\* What a wallet signs in its own name verifies.
LEMMA TxVerifies == ASSUME NEW tx \in Tx PROVE Verify(tx)
<1>1. PICK k \in Keys : /\ tx.from = Addr[k] /\ tx.pubkey = PublicKey(k)
                        /\ tx.signature = [signer |-> k, message |-> DigestOf(tx)]
  BY TxFields
<1>2. QED BY <1>1, AddrFacts, SymbolsAssumption DEF Verify, SignatureValid

\* Decoding inverts encoding, whatever follows the seven items.
LEMMA RoundTrip ==
    ASSUME NEW tx \in Tx
    PROVE  /\ FromRlp(ToRlp(tx)) = tx /\ FromRlp(Padded(ToRlp(tx))) = tx /\ tx # Error
           /\ ToRlp(tx) \in TxRlp
<1>1. /\ tx # Error
      /\ \A i \in 1 .. 7 : ToRlp(tx)[i] # Garbled
      /\ Len(ToRlp(tx)) = 7 /\ Len(Padded(ToRlp(tx))) = 8
      /\ \A i \in 1 .. 7 : Padded(ToRlp(tx))[i] = ToRlp(tx)[i]
  BY SymbolsAssumption DEF ToRlp, Padded
<1>2. FromRlp(ToRlp(tx)) = tx
  BY <1>1, TxFields DEF FromRlp, ToRlp
<1>3. FromRlp(Padded(ToRlp(tx))) = tx
  <2>1. FromRlp(Padded(ToRlp(tx))) = FromRlp(ToRlp(tx))
    BY <1>1 DEF FromRlp
  <2>2. QED BY <1>2, <2>1
<1>4. QED BY <1>1, <1>2, <1>3 DEF TxRlp

\* Different transactions have different encodings.
LEMMA RlpInjective ==
    ASSUME NEW tx1 \in Tx, NEW tx2 \in Tx, ToRlp(tx1) = ToRlp(tx2)
    PROVE  tx1 = tx2
BY RoundTrip

\* What nodes sent decodes to what they issued.
LEMMA SeenIssued ==
    ASSUME issued \subseteq Tx, NEW data \in Seen
    PROVE  \E tx \in issued : /\ tx \in Tx /\ data = ToRlp(tx)
                              /\ FromRlp(data) = tx /\ FromRlp(Padded(data)) = tx
BY RoundTrip DEF Seen

\* What decodes and verifies of a stranger's messages is a transaction that a node
\* issued or one in the stranger's own name: a list that is too short or has an item
\* of the wrong size does not decode, and one in another's name, with an invalid key
\* or with another recipient does not verify.
LEMMA StrangerGenuine ==
    ASSUME issued \subseteq Tx, NEW s \in Strangers, NEW n \in Nodes,
           NEW data \in StrangerData(s, n), FromRlp(data) # Error, Verify(FromRlp(data))
    PROVE  FromRlp(data) \in Tx /\ Genuine(FromRlp(data))
<1> DEFINE Good == FromRlp(data) \in Tx /\ Genuine(FromRlp(data))
<1>1. /\ Len(data) >= 7 /\ \A i \in 1 .. 7 : data[i] # Garbled
      /\ FromRlp(data) = [from |-> data[1], to |-> data[2], amount |-> data[3],
                          nonce |-> data[4], timestamp |-> data[5],
                          pubkey |-> data[6], signature |-> data[7]]
  BY DEF FromRlp
<1>2. ASSUME NEW tx \in issued, FromRlp(data) = tx PROVE Good
  BY <1>2 DEF Genuine
<1>3. CASE data = <<>>
  BY <1>1, <1>3
<1>4. ASSUME NEW k \in Keys, NEW amount \in Amounts, data = SignedBy(s, k, n, amount)
      PROVE  Good
  <2>1. data[1] = Addr[k] /\ data[6] = PublicKey(s)
    BY <1>4 DEF SignedBy, ToRlp, Create
  <2>2. DeriveAddress(PublicKey(s)) = Addr[k]
    BY <1>1, <2>1 DEF Verify
  <2>3. k = s
    BY <2>2, AddrFacts
  <2> DEFINE tx == Create(WalletOf(s), Addr[n], amount, 0, 0)
  <2>4. [signing_key |-> s, address |-> Addr[s]] = WalletOf(s)
    BY AddrFacts DEF WalletOf
  <2>5. 0 \in Nonces /\ 0 \in Runs
    BY BoundsAssumption DEF Runs
  <2>6. tx \in Tx
    BY <2>5, AddrFacts DEF Tx
  <2>7. data = ToRlp(tx)
    BY <1>4, <2>3, <2>4 DEF SignedBy
  <2>8. tx.from = Addr[s]
    BY <2>4 DEF Create
  <2> HIDE DEF tx
  <2>9. FromRlp(data) = tx
    BY <2>6, <2>7, RoundTrip
  <2>10. \A m \in Nodes : tx.from # Addr[m]
    BY <2>8, AddrFacts, NodesAssumption
  <2>11. QED BY <2>6, <2>9, <2>10 DEF Genuine
<1>5. ASSUME NEW amount \in Amounts, data = [SignedBy(s, s, n, amount) EXCEPT ![6] = InvalidKey]
      PROVE  FALSE
  <2>1. data[6] = InvalidKey
    BY <1>5 DEF SignedBy, ToRlp
  <2>2. QED BY <1>1, <2>1 DEF Verify
<1>6. ASSUME NEW amount \in Amounts, data = [SignedBy(s, s, n, amount) EXCEPT ![7] = Garbled]
      PROVE  FALSE
  <2>1. data[7] = Garbled
    BY <1>6 DEF SignedBy, ToRlp
  <2>2. QED BY <1>1, <2>1
<1>7. CASE data \in Seen
  BY <1>2, <1>7, SeenIssued
<1>8. ASSUME NEW d \in Seen, data = Padded(d) PROVE Good
  BY <1>2, <1>8, SeenIssued
<1>9. ASSUME NEW d \in Seen, data = [d EXCEPT ![2] = Addr[n]] PROVE Good
  <2>1. PICK tx \in issued : tx \in Tx /\ d = ToRlp(tx)
    BY SeenIssued
  <2>2. /\ data[1] = tx.from /\ data[2] = Addr[n] /\ data[3] = tx.amount
        /\ data[4] = tx.nonce /\ data[5] = tx.timestamp /\ data[6] = tx.pubkey
        /\ data[7] = tx.signature
    BY <1>9, <2>1 DEF ToRlp
  <2>3. CASE tx.to = Addr[n]
    <3>1. FromRlp(data) = [from |-> tx.from, to |-> tx.to, amount |-> tx.amount,
                           nonce |-> tx.nonce, timestamp |-> tx.timestamp,
                           pubkey |-> tx.pubkey, signature |-> tx.signature]
      BY <1>1, <2>2, <2>3
    <3>2. FromRlp(data) = tx
      BY <2>1, <3>1, TxFields
    <3>3. QED BY <1>2, <3>2
  <2>4. CASE tx.to # Addr[n]
    <3>1. tx.signature.message = DigestOf(tx)
      <4>1. \E k \in Keys : tx.signature = [signer |-> k, message |-> DigestOf(tx)]
        BY <2>1, TxFields
      <4>2. QED BY <4>1
    <3>2. DigestOf(FromRlp(data))[2] = Addr[n] /\ DigestOf(tx)[2] = tx.to
      BY <1>1, <2>2 DEF DigestOf, UnsignedDigest
    <3>3. FromRlp(data).signature = tx.signature
      BY <1>1, <2>2
    <3>4. QED BY <2>4, <3>1, <3>2, <3>3 DEF Verify, SignatureValid
  <2>5. QED BY <2>3, <2>4
<1>10. QED BY <1>3, <1>4, <1>5, <1>6, <1>7, <1>8, <1>9 DEF StrangerData

-----------------------------------------------------------------------------
(* The steps, by what they do with transactions.                           *)

\* Connections, losses and printed responses: no ledger, cache or history changes.
Quiet ==
    /\ UNCHANGED <<run, ledger, tx_cache, issued, credits>>
    /\ requests' \subseteq requests /\ responses' \subseteq responses
    /\ connected_peers' \in [Nodes -> SUBSET Peer]

\* A gossiped transaction that is not in the cache.
Gossiped(n, tx) ==
    /\ Genuine(tx) /\ ToRlp(tx) \notin tx_cache[n]
    /\ IF tx.to = Addr[n] THEN CreditOwn(n, tx, "gossip") ELSE UNCHANGED <<ledger, credits>>
    /\ tx_cache' = [tx_cache EXCEPT ![n] = @ \cup {ToRlp(tx)}]
    /\ UNCHANGED <<run, connected_peers, requests, responses, issued>>

\* A node's request, and the answer to it.
Reply(n, q, tx) ==
    [from |-> Me(n), to |-> q.from, accepted |-> tx.to = Addr[n],
     reason |-> IF tx.to = Addr[n] THEN "" ELSE "address", tx_hash |-> ToRlp(tx)]
Requested(n, q, tx) ==
    /\ q \in requests /\ q.to = Me(n) /\ q.tx_rlp = ToRlp(tx)
    /\ IF tx.to = Addr[n]
       THEN /\ CreditOwn(n, tx, "direct")
            /\ tx_cache' = [tx_cache EXCEPT ![n] = @ \cup {ToRlp(tx)}]
       ELSE UNCHANGED <<ledger, tx_cache, credits>>
    /\ requests' = requests \ {q}
    /\ responses' = responses \cup {Reply(n, q, tx)}
    /\ UNCHANGED <<run, connected_peers, issued>>

\* A stranger's request that is accepted, whether or not the transaction was before.
Foreign(n, tx) ==
    /\ Genuine(tx) /\ tx.to = Addr[n]
    /\ CreditOwn(n, tx, "foreign")
    /\ tx_cache' = [tx_cache EXCEPT ![n] = @ \cup {ToRlp(tx)}]
    /\ UNCHANGED <<run, connected_peers, requests, responses, issued>>

\* A gossiped message that is handled carries a genuine transaction.
LEMMA GossipCase ==
    ASSUME NEW n \in Nodes, NEW data, GossipMessage(n, data),
           FromRlp(data) \in Tx, Genuine(FromRlp(data))
    PROVE  \E tx \in Tx : Gossiped(n, tx)
BY DEF GossipMessage, FreshGossip, TxHash, Hash, Gossiped

\* A stranger's request is refused or carries a genuine transaction.
LEMMA ForeignCase ==
    ASSUME TypeOK, NEW n \in Nodes, NEW s \in Strangers, NEW data \in StrangerData(s, n),
           ForeignRequest(n, data)
    PROVE  Quiet \/ \E tx \in Tx : Foreign(n, tx)
<1>1. CASE Reason(n, data) # ""
  BY <1>1 DEF ForeignRequest, AnswerRequest, Quiet, TypeOK
<1>2. CASE Reason(n, data) = ""
  <2>1. /\ FromRlp(data) # Error /\ Verify(FromRlp(data))
        /\ FromRlp(data).to = Addr[n]
    BY <1>2 DEF Reason
  <2>2. FromRlp(data) \in Tx /\ Genuine(FromRlp(data))
    BY <2>1, StrangerGenuine DEF TypeOK
  <2>3. Foreign(n, FromRlp(data))
    BY <1>2, <2>1, <2>2
       DEF ForeignRequest, AnswerRequest, AcceptTransfer, TxHash, Hash, Foreign
  <2>4. QED BY <2>2, <2>3
<1>3. QED BY <1>1, <1>2

\* The request of a node carries a transaction.
LEMMA RequestCase ==
    ASSUME TypeOK, NEW n \in Nodes, NEW q \in requests, TransferRequest(n, q)
    PROVE  \E tx \in Tx : Requested(n, q, tx)
<1>1. q.tx_rlp \in TxRlp
  BY DEF TypeOK, RequestMessage
<1>2. PICK tx \in Tx : q.tx_rlp = ToRlp(tx)
  BY <1>1 DEF TxRlp
<1>3. FromRlp(q.tx_rlp) = tx /\ tx # Error /\ Verify(tx)
  BY <1>2, RoundTrip, TxVerifies
<1>4. TxHash(q.tx_rlp) = ToRlp(tx)
  BY <1>3 DEF TxHash, Hash
<1>5. Reason(n, q.tx_rlp) = IF tx.to = Addr[n] THEN "" ELSE "address"
  BY <1>3 DEF Reason
<1>6. (Reason(n, q.tx_rlp) = "") <=> (tx.to = Addr[n])
  BY <1>5
<1>7. Response(n, q) = Reply(n, q, tx)
  BY <1>3, <1>4, <1>5, <1>6 DEF Response, Reply
<1>8. IF tx.to = Addr[n]
      THEN /\ CreditOwn(n, tx, "direct")
           /\ tx_cache' = [tx_cache EXCEPT ![n] = @ \cup {ToRlp(tx)}]
      ELSE UNCHANGED <<ledger, tx_cache, credits>>
  <2>1. AnswerRequest(n, q.tx_rlp, "direct")
    BY DEF TransferRequest
  <2>2. QED BY <1>3, <1>4, <1>6, <2>1 DEF AnswerRequest, AcceptTransfer
<1>9. Requested(n, q, tx)
  BY <1>2, <1>7, <1>8 DEF Requested, TransferRequest
<1>10. QED BY <1>9

\* Every step is one of these.
LEMMA StepCases ==
    ASSUME TypeOK, [Next]_vars
    PROVE  \/ Quiet
           \/ \E n \in Nodes : Restart(n)
           \/ \E n \in Nodes, to \in Address, amount \in Amounts : Send(n, to, amount)
           \/ \E n \in Nodes, tx \in Tx : Gossiped(n, tx)
           \/ \E n \in Nodes, tx \in Tx : \E q \in requests : Requested(n, q, tx)
           \/ \E n \in Nodes, tx \in Tx : Foreign(n, tx)
<1>0. connected_peers \in [Nodes -> SUBSET Peer] /\ issued \subseteq Tx
  BY DEF TypeOK
<1>1. CASE UNCHANGED vars
  BY <1>0, <1>1 DEF vars, Quiet
<1>2. ASSUME NEW n \in Nodes, NEW p \in Peer,
             ConnectionEstablished(n, p) \/ ConnectionClosed(n, p)
      PROVE  Quiet
  <2>1. connected_peers' \in [Nodes -> SUBSET Peer]
    BY <1>0, <1>2 DEF ConnectionEstablished, ConnectionClosed
  <2>2. QED BY <1>0, <1>2, <2>1 DEF ConnectionEstablished, ConnectionClosed, Quiet
<1>3. ASSUME NEW n \in Nodes, NEW data, IgnoredGossip(n, data)
      PROVE  Quiet
  BY <1>0, <1>3 DEF IgnoredGossip, vars, Quiet
<1>4. ASSUME NEW n \in Nodes, NEW s \in Strangers, NEW data \in StrangerData(s, n),
             GossipMessage(n, data)
      PROVE  \E tx \in Tx : Gossiped(n, tx)
  <2>1. FromRlp(data) # Error /\ Verify(FromRlp(data))
    BY <1>4 DEF GossipMessage, FreshGossip
  <2>2. FromRlp(data) \in Tx /\ Genuine(FromRlp(data))
    BY <1>0, <2>1, StrangerGenuine
  <2>3. QED BY <1>4, <2>2, GossipCase
<1>5. ASSUME NEW n \in Nodes, NEW r \in responses, TransferResponse(n, r)
      PROVE  Quiet
  BY <1>0, <1>5 DEF TransferResponse, Quiet
<1>6. ASSUME NEW q \in requests, RequestFails(q)
      PROVE  Quiet
  BY <1>0, <1>6 DEF RequestFails, Quiet
<1>7. ASSUME NEW r \in responses, ResponseFails(r)
      PROVE  Quiet
  BY <1>0, <1>7 DEF ResponseFails, Quiet
<1>8. ASSUME NEW n \in Nodes, Handle(n)
      PROVE  Quiet \/ \E tx \in Tx : \E q \in requests : Requested(n, q, tx)
  BY <1>5, <1>8, RequestCase DEF Handle
<1>9. ASSUME NEW n \in Nodes, NEW data \in Seen, GossipMessage(n, data)
      PROVE  \E tx \in Tx : Gossiped(n, tx)
  <2>1. FromRlp(data) \in Tx /\ Genuine(FromRlp(data))
    BY <1>0, SeenIssued DEF Genuine
  <2>2. QED BY <1>9, <2>1, GossipCase
<1>10. ASSUME NEW n \in Nodes, NEW k \in Payees, NEW amount \in Amounts,
              Send(n, Addr[k], amount)
       PROVE  \E to \in Address : Send(n, to, amount)
  BY <1>10, InputAssumption DEF Address, Keys
<1>11. QED
  BY <1>1, <1>2, <1>3, <1>4, <1>6, <1>7, <1>8, <1>9, <1>10, ForeignCase DEF Next

-----------------------------------------------------------------------------
(* One node's account map.                                                 *)

AccountMap(accts) ==
    /\ DOMAIN accts \subseteq Address
    /\ \A a \in DOMAIN accts : accts[a] \in AccountState

\* credit of an account that exists: its balance grows, its nonce stays.
LEMMA CreditExisting ==
    ASSUME NEW accts, AccountMap(accts), NEW a \in DOMAIN accts, NEW b \in Nat
    PROVE  LET next == WithCredit(accts, a, b)
           IN  /\ AccountMap(next) /\ DOMAIN next = DOMAIN accts
               /\ BalanceOf(next, a) = (BalanceOf(accts, a) + b) % U64
               /\ NonceOf(next, a) = NonceOf(accts, a)
<1> DEFINE st == [accts[a] EXCEPT !.balance = (@ + b) % U64]
           next == WithCredit(accts, a, b)
<1>1. accts[a] \in AccountState
  BY DEF AccountMap
<1>2. /\ st.balance = (accts[a].balance + b) % U64 /\ st.nonce = accts[a].nonce
      /\ st = [balance |-> st.balance, nonce |-> st.nonce]
  BY <1>1 DEF AccountState
<1>3. accts[a].balance + b \in Int
  BY <1>1, U64Assumption DEF AccountState
<1>4. (accts[a].balance + b) % U64 \in 0 .. (U64 - 1)
  BY <1>3, DivMod, U64Assumption
<1>5. st \in AccountState
  <2> HIDE DEF st
  <2>1. QED BY <1>1, <1>2, <1>4 DEF AccountState
<1>6. /\ DOMAIN next = DOMAIN accts \cup {a} /\ next[a] = st
      /\ \A x \in DOMAIN accts : x # a => next[x] = accts[x]
  BY DEF WithCredit, Put
<1> HIDE DEF st, next
<1>7. AccountMap(next) /\ DOMAIN next = DOMAIN accts
  BY <1>5, <1>6 DEF AccountMap
<1>8. QED BY <1>2, <1>6, <1>7 DEF BalanceOf, NonceOf, next

\* A transfer the ledger accepts debits the sender and takes the next nonce.
LEMMA TransferAccepted ==
    ASSUME NEW accts, AccountMap(accts), NEW r, TransferOk(accts, r),
           r.to \in Address, r.amount \in 0 .. (U64 - 1)
    PROVE  LET next == WithTransfer(accts, r)
           IN  /\ AccountMap(next) /\ DOMAIN next = DOMAIN accts \cup {r.to}
               /\ BalanceOf(next, r.from) = BalanceOf(accts, r.from) - r.amount
               /\ BalanceOf(accts, r.from) >= r.amount
               /\ NonceOf(next, r.from) = NonceOf(accts, r.from) + 1
               /\ NonceOf(accts, r.from) = r.nonce
<1> DEFINE mid == WithDebit(accts, r.from, r.amount)
           next == WithTransfer(accts, r)
<1>1. /\ r.from # r.to /\ r.from \in DOMAIN accts /\ accts[r.from] \in AccountState
      /\ accts[r.from].nonce = r.nonce /\ accts[r.from].balance >= r.amount
  BY DEF TransferOk, PreCheck, SenderValid, AccountMap
<1>2. [balance |-> accts[r.from].balance - r.amount, nonce |-> accts[r.from].nonce + 1]
         \in AccountState
  BY <1>1, U64Assumption DEF AccountState
<1>3. /\ DOMAIN mid = DOMAIN accts
      /\ mid[r.from] = [balance |-> accts[r.from].balance - r.amount,
                        nonce |-> accts[r.from].nonce + 1]
      /\ \A x \in DOMAIN accts : x # r.from => mid[x] = accts[x]
  BY <1>1 DEF WithDebit
<1>4. next = WithCredit(mid, r.to, r.amount)
  BY DEF WithTransfer
<1> HIDE DEF mid
<1>5. AccountMap(mid)
  BY <1>2, <1>3 DEF AccountMap
<1>6. \A x \in DOMAIN mid : x # r.to => next[x] = mid[x]
  BY <1>4 DEF WithCredit, Put
<1>7. AccountMap(next) /\ DOMAIN next = DOMAIN mid \cup {r.to}
  <2>1. CASE r.to \in DOMAIN mid
    <3>1. r.amount \in Nat
      BY U64Assumption
    <3>2. AccountMap(WithCredit(mid, r.to, r.amount))
          /\ DOMAIN WithCredit(mid, r.to, r.amount) = DOMAIN mid
      BY <1>5, <2>1, <3>1, CreditExisting
    <3>3. QED BY <1>4, <2>1, <3>2
  <2>2. CASE r.to \notin DOMAIN mid
    <3>1. DOMAIN next = DOMAIN mid \cup {r.to} /\ next[r.to] = NewAccount(r.amount)
      BY <1>4, <2>2 DEF WithCredit, Put
    <3>2. NewAccount(r.amount) \in AccountState
      BY DEF NewAccount, AccountState
    <3> HIDE DEF next
    <3>3. QED BY <1>5, <1>6, <2>2, <3>1, <3>2 DEF AccountMap
  <2>3. QED BY <2>1, <2>2
<1> HIDE DEF next
<1>8. next[r.from] = mid[r.from] /\ r.from \in DOMAIN next
  BY <1>1, <1>3, <1>6, <1>7
<1>9. QED BY <1>1, <1>3, <1>7, <1>8 DEF BalanceOf, NonceOf, next

\* The ledger a run starts with.
LEMMA FreshMap ==
    ASSUME NEW n \in Nodes
    PROVE  /\ AccountMap(FreshLedger(n)) /\ Addr[n] \in DOMAIN FreshLedger(n)
           /\ NonceOf(FreshLedger(n), Addr[n]) = 0
           /\ BalanceOf(FreshLedger(n), Addr[n]) = InitBalance
<1>1. FreshLedger(n) = [x \in {Addr[n]} |-> NewAccount(InitBalance)]
  BY DEF FreshLedger, WithRegistered, EmptyLedger, Put
<1>2. NewAccount(InitBalance) \in AccountState
  BY InputAssumption DEF NewAccount, AccountState
<1>3. QED BY <1>1, <1>2, AddrFacts DEF AccountMap, NonceOf, BalanceOf, NewAccount

-----------------------------------------------------------------------------
(* Types and nonces.  A node's ledger has its nonces from the transactions it *)
(* issued in this run, and the bound on those is what keeps a nonce in        *)
(* Nonces: neither invariant is inductive without the other.                *)

\* No transaction is from a later run, and those of the current run have used
\* nonces below the ledger's.
NoncesBelow ==
    \A n \in Nodes : \A tx \in issued : tx.from = Addr[n] =>
        /\ tx.timestamp <= run[n]
        /\ tx.timestamp = run[n] => tx.nonce < NonceOf(ledger[n], Addr[n])

Base == TypeOK /\ IsFiniteSet(issued) /\ NoncesOfRun /\ NoncesBelow

\* The own account is there, with a nonce and a balance.
LEMMA LedgersTyped ==
    ASSUME TypeOK, NEW n \in Nodes
    PROVE  /\ AccountMap(ledger[n]) /\ Addr[n] \in DOMAIN ledger[n]
           /\ NonceOf(ledger[n], Addr[n]) \in Nat
           /\ BalanceOf(ledger[n], Addr[n]) \in 0 .. (U64 - 1)
BY DEF TypeOK, AccountMap, NonceOf, BalanceOf, AccountState

\* What a credit does to the ledgers and to the history of credits.
LEMMA CreditEffect ==
    ASSUME TypeOK, NEW n \in Nodes, NEW tx \in Tx, NEW via \in Paths,
           tx.to = Addr[n], CreditOwn(n, tx, via)
    PROVE  /\ DOMAIN ledger' = Nodes
           /\ \A m \in Nodes : /\ AccountMap(ledger'[m]) /\ Addr[m] \in DOMAIN ledger'[m]
                               /\ NonceOf(ledger'[m], Addr[m]) = NonceOf(ledger[m], Addr[m])
                               /\ m # n => ledger'[m] = ledger[m]
           /\ BalanceOf(ledger'[n], Addr[n]) = (BalanceOf(ledger[n], Addr[n]) + tx.amount) % U64
           /\ [peer |-> Me(n), tx |-> tx, via |-> via] \in CreditKey
           /\ DOMAIN credits' = DOMAIN credits \cup {[peer |-> Me(n), tx |-> tx, via |-> via]}
           /\ credits'[[peer |-> Me(n), tx |-> tx, via |-> via]] = Count(Me(n), tx, via) + 1
           /\ \A k \in DOMAIN credits : k # [peer |-> Me(n), tx |-> tx, via |-> via] =>
                 credits'[k] = credits[k]
<1> DEFINE k == [peer |-> Me(n), tx |-> tx, via |-> via]
           next == WithCredit(ledger[n], Addr[n], tx.amount)
<1>1. AccountMap(ledger[n]) /\ Addr[n] \in DOMAIN ledger[n]
  BY LedgersTyped
<1>2. tx.amount \in Nat
  BY TxFields, InputAssumption, U64Assumption
<1>3. /\ AccountMap(next) /\ DOMAIN next = DOMAIN ledger[n]
      /\ BalanceOf(next, Addr[n]) = (BalanceOf(ledger[n], Addr[n]) + tx.amount) % U64
      /\ NonceOf(next, Addr[n]) = NonceOf(ledger[n], Addr[n])
  BY <1>1, <1>2, CreditExisting
<1>4. ledger' = [ledger EXCEPT ![n] = next] /\ DOMAIN ledger = Nodes
  BY DEF CreditOwn, TypeOK
<1> HIDE DEF next
<1>5. /\ DOMAIN ledger' = Nodes /\ ledger'[n] = next
      /\ \A m \in Nodes : m # n => ledger'[m] = ledger[m]
  BY <1>4
<1>6. \A m \in Nodes : AccountMap(ledger[m]) /\ Addr[m] \in DOMAIN ledger[m]
  BY LedgersTyped
<1>7. \A m \in Nodes : /\ AccountMap(ledger'[m]) /\ Addr[m] \in DOMAIN ledger'[m]
                       /\ NonceOf(ledger'[m], Addr[m]) = NonceOf(ledger[m], Addr[m])
                       /\ m # n => ledger'[m] = ledger[m]
  BY <1>1, <1>3, <1>5, <1>6
<1>8. k \in CreditKey
  BY DEF CreditKey, Me, Peer, TypeOK
<1>9. credits' = Put(credits, k, Count(Me(n), tx, via) + 1)
  BY DEF CreditOwn
<1>10. /\ DOMAIN credits' = DOMAIN credits \cup {k}
       /\ credits'[k] = Count(Me(n), tx, via) + 1
       /\ \A j \in DOMAIN credits : j # k => credits'[j] = credits[j]
  BY <1>9 DEF Put
<1>11. QED BY <1>3, <1>5, <1>7, <1>8, <1>10

\* The history counts credits.
LEMMA CountNat ==
    ASSUME TypeOK, NEW p, NEW tx, NEW via
    PROVE  Count(p, tx, via) \in Nat
BY DEF TypeOK, Count

\* A new transaction differs from every earlier one: its nonce is new in this run.
LEMMA NewTxFacts ==
    ASSUME Base, NEW n \in Nodes, NEW to \in Address, NEW amount \in Amounts,
           Cardinality(issued) < MaxTx
    PROVE  LET tx == NewTx(n, to, amount)
           IN  /\ tx \in Tx /\ tx \notin issued
               /\ tx.from = Addr[n] /\ tx.to = to /\ tx.amount = amount
               /\ tx.nonce = NonceOf(ledger[n], Addr[n]) /\ tx.timestamp = run[n]
<1> DEFINE tx == NewTx(n, to, amount)
<1>1. /\ tx.from = Addr[n] /\ tx.to = to /\ tx.amount = amount
      /\ tx.nonce = NonceOf(ledger[n], Addr[n]) /\ tx.timestamp = run[n]
  BY AddrFacts DEF NewTx, Create, WalletOf
<1>2. NonceOf(ledger[n], Addr[n]) \in 0 .. (MaxTx - 1)
  <2>1. NonceOf(ledger[n], Addr[n]) = Cardinality(IssuedInRun(n, run[n]))
    BY DEF Base, NoncesOfRun
  <2>2. IssuedInRun(n, run[n]) \in SUBSET issued /\ IsFiniteSet(issued)
    BY DEF IssuedInRun, Base
  <2>3. /\ Cardinality(IssuedInRun(n, run[n])) <= Cardinality(issued)
        /\ Cardinality(IssuedInRun(n, run[n])) \in Nat /\ Cardinality(issued) \in Nat
    BY <2>2, FS_Subset, FS_CardinalityType
  <2>4. QED BY <2>1, <2>3, BoundsAssumption
<1>3. tx \in Tx
  <2>1. NonceOf(ledger[n], Addr[n]) \in Nonces /\ run[n] \in Runs
    BY <1>2, BoundsAssumption DEF Base, TypeOK
  <2>2. QED BY <2>1, AddrFacts DEF NewTx, Tx
<1>4. tx \notin issued
  <2>1. SUFFICES ASSUME tx \in issued PROVE FALSE
    OBVIOUS
  <2>2. tx.nonce < NonceOf(ledger[n], Addr[n])
    BY <1>1, <2>1 DEF Base, NoncesBelow
  <2>3. QED BY <1>1, <1>2, <2>2, BoundsAssumption
<1>5. QED BY <1>1, <1>3, <1>4

\* What a send does to the ledgers and to what is in flight.
LEMMA SendEffect ==
    ASSUME Base, NEW n \in Nodes, NEW to \in Address, NEW amount \in Amounts,
           Send(n, to, amount)
    PROVE  LET tx == NewTx(n, to, amount)
           IN  /\ tx \in Tx /\ tx \notin issued
               /\ tx.from = Addr[n] /\ tx.to = to /\ tx.amount = amount
               /\ tx.nonce = NonceOf(ledger[n], Addr[n]) /\ tx.timestamp = run[n]
               /\ DOMAIN ledger' = Nodes
               /\ \A m \in Nodes : /\ AccountMap(ledger'[m]) /\ Addr[m] \in DOMAIN ledger'[m]
                                   /\ m # n => ledger'[m] = ledger[m]
               /\ NonceOf(ledger'[n], Addr[n]) = NonceOf(ledger[n], Addr[n]) + 1
               /\ BalanceOf(ledger[n], Addr[n]) >= amount
               /\ BalanceOf(ledger'[n], Addr[n]) = BalanceOf(ledger[n], Addr[n]) - amount
               /\ tx_cache' = [tx_cache EXCEPT ![n] = @ \cup {ToRlp(tx)}]
               /\ requests' = requests \cup
                     {[from |-> Me(n), to |-> p, tx_rlp |-> ToRlp(tx)] : p \in connected_peers[n]}
               /\ issued' = issued \cup {tx}
               /\ UNCHANGED <<run, connected_peers, responses, credits>>
<1> DEFINE tx == NewTx(n, to, amount)  next == WithTransfer(ledger[n], tx)
<1>2. /\ Cardinality(issued) < MaxTx /\ TransferOk(ledger[n], tx)
      /\ ledger' = [ledger EXCEPT ![n] = next]
      /\ tx_cache' = [tx_cache EXCEPT ![n] = @ \cup {ToRlp(tx)}]
      /\ requests' = requests \cup
            {[from |-> Me(n), to |-> p, tx_rlp |-> ToRlp(tx)] : p \in connected_peers[n]}
      /\ issued' = issued \cup {tx}
      /\ UNCHANGED <<run, connected_peers, responses, credits>>
  BY DEF Send, Hash
<1>3. /\ tx \in Tx /\ tx \notin issued
      /\ tx.from = Addr[n] /\ tx.to = to /\ tx.amount = amount
      /\ tx.nonce = NonceOf(ledger[n], Addr[n]) /\ tx.timestamp = run[n]
  BY <1>2, NewTxFacts
<1> HIDE DEF tx
<1>4. \A m \in Nodes : AccountMap(ledger[m]) /\ Addr[m] \in DOMAIN ledger[m]
  BY LedgersTyped DEF Base
<1>5. /\ AccountMap(next) /\ DOMAIN next = DOMAIN ledger[n] \cup {to}
      /\ BalanceOf(next, Addr[n]) = BalanceOf(ledger[n], Addr[n]) - amount
      /\ BalanceOf(ledger[n], Addr[n]) >= amount
      /\ NonceOf(next, Addr[n]) = NonceOf(ledger[n], Addr[n]) + 1
  <2>1. tx.to \in Address /\ tx.amount \in 0 .. (U64 - 1)
    BY <1>3, InputAssumption
  <2>2. /\ AccountMap(next) /\ DOMAIN next = DOMAIN ledger[n] \cup {tx.to}
        /\ BalanceOf(next, tx.from) = BalanceOf(ledger[n], tx.from) - tx.amount
        /\ BalanceOf(ledger[n], tx.from) >= tx.amount
        /\ NonceOf(next, tx.from) = NonceOf(ledger[n], tx.from) + 1
    BY <1>2, <1>4, <2>1, TransferAccepted
  <2>3. QED BY <1>3, <2>2
<1> HIDE DEF next
<1>6. /\ DOMAIN ledger' = Nodes /\ ledger'[n] = next
      /\ \A m \in Nodes : m # n => ledger'[m] = ledger[m]
  BY <1>2 DEF Base, TypeOK
<1>7. \A m \in Nodes : /\ AccountMap(ledger'[m]) /\ Addr[m] \in DOMAIN ledger'[m]
                       /\ m # n => ledger'[m] = ledger[m]
  BY <1>4, <1>5, <1>6
<1>8. QED BY <1>2, <1>3, <1>5, <1>6, <1>7 DEF tx

\* Initially nothing is issued.
LEMMA InitBase == Init => Base
<1> SUFFICES ASSUME Init PROVE Base
  OBVIOUS
<1>1. \A n \in Nodes : ledger[n] = FreshLedger(n)
  BY DEF Init
<1>2. TypeOK
  <2>1. run \in [Nodes -> Runs]
    BY BoundsAssumption DEF Init, Runs
  <2>2. \A n \in Nodes : AccountMap(ledger[n]) /\ Addr[n] \in DOMAIN ledger[n]
    BY <1>1, FreshMap
  <2>3. QED BY <2>1, <2>2 DEF Init, TypeOK, AccountMap
<1>3. NoncesOfRun
  <2>1. \A n \in Nodes : \A i : IssuedInRun(n, i) = {}
    BY DEF Init, IssuedInRun
  <2>2. \A n \in Nodes : NonceOf(ledger[n], Addr[n]) = 0
    BY <1>1, FreshMap
  <2>3. QED BY <2>1, <2>2, FS_EmptySet DEF NoncesOfRun
<1>4. IsFiniteSet(issued) /\ NoncesBelow
  BY FS_EmptySet DEF Init, NoncesBelow
<1>5. QED BY <1>2, <1>3, <1>4 DEF Base

\* A step that neither issues nor restarts and keeps the own nonces.
LEMMA SameNonces ==
    ASSUME Base, run' = run, issued' = issued,
           \A n \in Nodes : NonceOf(ledger'[n], Addr[n]) = NonceOf(ledger[n], Addr[n])
    PROVE  IsFiniteSet(issued') /\ NoncesOfRun' /\ NoncesBelow'
<1>1. \A n, i : IssuedInRun(n, i)' = IssuedInRun(n, i)
  BY DEF IssuedInRun
<1>2. NoncesOfRun'
  BY <1>1 DEF Base, NoncesOfRun
<1>3. QED BY <1>2 DEF Base, NoncesBelow

\* Steps that issue and credit nothing keep Base.
LEMMA QuietBase == Base /\ Quiet => Base'
<1> SUFFICES ASSUME Base, Quiet PROVE Base'
  OBVIOUS
<1>1. TypeOK'
  BY DEF Base, TypeOK, Quiet
<1>2. QED BY <1>1, SameNonces DEF Base, Quiet

\* A restart begins with nonce 0 and with no transaction of its run.
LEMMA RestartBase == ASSUME Base, NEW n \in Nodes, Restart(n) PROVE Base'
<1>1. run' = [run EXCEPT ![n] = @ + 1] /\ run \in [Nodes -> Runs] /\ run[n] \in Nat
  BY BoundsAssumption DEF Restart, Base, TypeOK, Runs
<1>2. run[n] + 1 \in Runs
  <2>1. /\ DOMAIN run = Nodes /\ SumFunction(run) = SumFunctionOnSet(run, Nodes)
        /\ \A m \in Nodes : run[m] \in Nat
    BY BoundsAssumption DEF Base, TypeOK, SumFunction, Runs
  <2>2. SumFunctionOnSet(run, Nodes) \in Nat /\ run[n] <= SumFunctionOnSet(run, Nodes)
    BY <2>1, SumNat, NodesAssumption
  <2>3. SumFunctionOnSet(run, Nodes) < MaxRestarts
    BY <2>1 DEF Restart
  <2>4. QED BY <1>1, <2>2, <2>3, BoundsAssumption DEF Runs
<1>3. run' \in [Nodes -> Runs] /\ run'[n] = run[n] + 1 /\ \A m \in Nodes : m # n => run'[m] = run[m]
  BY <1>1, <1>2
<1>4. /\ DOMAIN ledger' = Nodes /\ ledger'[n] = FreshLedger(n)
      /\ \A m \in Nodes : m # n => ledger'[m] = ledger[m]
  BY DEF Restart, Base, TypeOK
<1>5. \A m \in Nodes : AccountMap(ledger'[m]) /\ Addr[m] \in DOMAIN ledger'[m]
  BY <1>4, LedgersTyped, FreshMap DEF Base
<1>6. TypeOK'
  <2>1. /\ tx_cache' \in [Nodes -> SUBSET TxRlp]
        /\ connected_peers' \in [Nodes -> SUBSET Peer]
    BY DEF Restart, Base, TypeOK
  <2>2. QED BY <1>3, <1>4, <1>5, <2>1 DEF Restart, Base, TypeOK, AccountMap
<1>7. issued' = issued /\ \A m, i : IssuedInRun(m, i)' = IssuedInRun(m, i)
  BY DEF Restart, IssuedInRun
<1>8. IssuedInRun(n, run[n] + 1) = {}
  BY <1>1, <1>2, TxFields DEF IssuedInRun, Base, TypeOK, NoncesBelow, Runs
<1>9. NoncesOfRun'
  <2>1. NonceOf(ledger'[n], Addr[n]) = 0 /\ Cardinality(IssuedInRun(n, run[n] + 1)) = 0
    BY <1>4, <1>8, FreshMap, FS_EmptySet
  <2>2. \A m \in Nodes : NonceOf(ledger'[m], Addr[m]) = Cardinality(IssuedInRun(m, run'[m]))
    BY <1>3, <1>4, <2>1 DEF Base, NoncesOfRun
  <2>3. QED BY <1>7, <2>2 DEF Base, NoncesOfRun
<1>10. NoncesBelow'
  <2> SUFFICES ASSUME NEW m \in Nodes, NEW tx \in issued, tx.from = Addr[m]
               PROVE  /\ tx.timestamp <= run'[m]
                      /\ tx.timestamp = run'[m] => tx.nonce < NonceOf(ledger'[m], Addr[m])
    BY <1>7 DEF NoncesBelow
  <2>1. /\ tx.timestamp <= run[m] /\ tx.timestamp \in Nat /\ run[m] \in Nat
        /\ tx.timestamp = run[m] => tx.nonce < NonceOf(ledger[m], Addr[m])
    BY <1>1, TxFields, BoundsAssumption DEF Base, TypeOK, NoncesBelow, Runs
  <2>2. CASE m = n
    BY <1>3, <2>1, <2>2
  <2>3. CASE m # n
    BY <1>3, <1>4, <2>1, <2>3
  <2>4. QED BY <2>2, <2>3
<1>11. QED BY <1>6, <1>7, <1>9, <1>10 DEF Base

\* A send takes the next nonce, which no transaction of the run has.
LEMMA SendBase ==
    ASSUME Base, NEW n \in Nodes, NEW to \in Address, NEW amount \in Amounts,
           Send(n, to, amount)
    PROVE  Base'
<1> DEFINE tx == NewTx(n, to, amount)
<1>1. /\ tx \in Tx /\ tx \notin issued
      /\ tx.from = Addr[n] /\ tx.nonce = NonceOf(ledger[n], Addr[n]) /\ tx.timestamp = run[n]
      /\ DOMAIN ledger' = Nodes
      /\ \A m \in Nodes : /\ AccountMap(ledger'[m]) /\ Addr[m] \in DOMAIN ledger'[m]
                          /\ m # n => ledger'[m] = ledger[m]
      /\ NonceOf(ledger'[n], Addr[n]) = NonceOf(ledger[n], Addr[n]) + 1
      /\ tx_cache' = [tx_cache EXCEPT ![n] = @ \cup {ToRlp(tx)}]
      /\ requests' = requests \cup
            {[from |-> Me(n), to |-> p, tx_rlp |-> ToRlp(tx)] : p \in connected_peers[n]}
      /\ issued' = issued \cup {tx}
      /\ UNCHANGED <<run, connected_peers, responses, credits>>
  BY SendEffect
<1> HIDE DEF tx
<1>2. ToRlp(tx) \in TxRlp
  BY <1>1, RoundTrip
<1>3. TypeOK'
  <2>1. requests' \subseteq RequestMessage
    BY <1>1, <1>2 DEF Base, TypeOK, RequestMessage, Me, Peer
  <2>2. tx_cache' \in [Nodes -> SUBSET TxRlp]
    BY <1>1, <1>2 DEF Base, TypeOK
  <2>3. QED BY <1>1, <1>2, <2>1, <2>2 DEF Base, TypeOK, AccountMap
<1>4. IsFiniteSet(issued')
  BY <1>1, FS_AddElement DEF Base
<1>5. /\ IssuedInRun(n, run[n])' = IssuedInRun(n, run[n]) \cup {tx}
      /\ \A m \in Nodes : \A i : m # n \/ i # run[n] => IssuedInRun(m, i)' = IssuedInRun(m, i)
  BY <1>1, AddrFacts DEF IssuedInRun
<1>6. NonceOf(ledger[n], Addr[n]) \in Nat /\ NoncesBelow /\ NoncesOfRun
  BY LedgersTyped DEF Base
<1>7. NoncesOfRun'
  <2>1. NonceOf(ledger'[n], Addr[n]) = Cardinality(IssuedInRun(n, run[n])')
    <3>1. IsFiniteSet(IssuedInRun(n, run[n])) /\ tx \notin IssuedInRun(n, run[n])
      BY <1>1, FS_Subset DEF IssuedInRun, Base
    <3>2. Cardinality(IssuedInRun(n, run[n]) \cup {tx}) = Cardinality(IssuedInRun(n, run[n])) + 1
      BY <3>1, FS_AddElement
    <3>3. QED BY <1>1, <1>5, <1>6, <3>2 DEF NoncesOfRun
  <2>2. ASSUME NEW m \in Nodes
        PROVE  NonceOf(ledger'[m], Addr[m]) = Cardinality(IssuedInRun(m, run[m])')
    <3>1. CASE m = n
      BY <2>1, <3>1
    <3>2. CASE m # n
      <4>1. NonceOf(ledger'[m], Addr[m]) = NonceOf(ledger[m], Addr[m])
        BY <1>1, <3>2
      <4>2. IssuedInRun(m, run[m])' = IssuedInRun(m, run[m])
        BY <1>1, <3>2, AddrFacts DEF IssuedInRun
      <4>3. NonceOf(ledger[m], Addr[m]) = Cardinality(IssuedInRun(m, run[m]))
        BY <1>6 DEF NoncesOfRun
      <4>4. QED BY <4>1, <4>2, <4>3
    <3>3. QED BY <3>1, <3>2
  <2>3. ASSUME NEW m \in Nodes, NEW i \in Runs, NEW tx1 \in IssuedInRun(m, i)',
               NEW tx2 \in IssuedInRun(m, i)', tx1.nonce = tx2.nonce
        PROVE  tx1 = tx2
    <3>1. CASE m # n \/ i # run[n]
      BY <1>5, <1>6, <2>3, <3>1 DEF NoncesOfRun
    <3>2. CASE m = n /\ i = run[n]
      <4>1. \A t \in IssuedInRun(n, run[n]) : t.nonce < NonceOf(ledger[n], Addr[n])
        BY <1>6 DEF IssuedInRun, NoncesBelow
      <4>2. \A t \in IssuedInRun(n, run[n]) : t.nonce # tx.nonce
        BY <1>1, <1>6, <4>1
      <4>3. \A t1, t2 \in IssuedInRun(n, run[n]) : t1.nonce = t2.nonce => t1 = t2
        BY <1>6, <3>2 DEF NoncesOfRun
      <4>4. tx1 \in IssuedInRun(n, run[n]) \cup {tx} /\ tx2 \in IssuedInRun(n, run[n]) \cup {tx}
        BY <1>1, <1>5, <2>3, <3>2 DEF IssuedInRun
      <4>5. QED BY <2>3, <4>2, <4>3, <4>4
    <3>3. QED BY <3>1, <3>2
  <2>4. QED BY <1>1, <2>2, <2>3 DEF NoncesOfRun
<1>8. NoncesBelow'
  <2> SUFFICES ASSUME NEW m \in Nodes, NEW t \in issued', t.from = Addr[m]
               PROVE  /\ t.timestamp <= run[m]
                      /\ t.timestamp = run[m] => t.nonce < NonceOf(ledger'[m], Addr[m])
    BY <1>1 DEF NoncesBelow
  <2>1. run[n] \in Nat
    BY BoundsAssumption DEF Base, TypeOK, Runs
  <2>2. CASE t = tx
    <3>1. m = n
      BY <1>1, <2>2, AddrFacts
    <3>2. QED BY <1>1, <1>6, <2>1, <2>2, <3>1
  <2>3. CASE t # tx
    <3>1. /\ t.timestamp <= run[m]
          /\ t.timestamp = run[m] => t.nonce < NonceOf(ledger[m], Addr[m])
      BY <1>1, <1>6, <2>3 DEF NoncesBelow
    <3>2. t.nonce \in Nat
      BY <1>1, <2>3, TxFields, BoundsAssumption DEF Base, TypeOK
    <3>3. QED BY <1>1, <1>6, <3>1, <3>2
  <2>4. QED BY <2>2, <2>3
<1>9. QED BY <1>3, <1>4, <1>7, <1>8 DEF Base

\* A credit leaves the own nonces alone.
LEMMA CreditBase ==
    ASSUME Base, NEW n \in Nodes, NEW tx \in Tx, NEW via \in Paths,
           tx.to = Addr[n], CreditOwn(n, tx, via),
           tx_cache' = [tx_cache EXCEPT ![n] = @ \cup {ToRlp(tx)}],
           UNCHANGED <<run, connected_peers, issued>>,
           requests' \subseteq RequestMessage, responses' \subseteq ResponseMessage
    PROVE  Base'
<1> DEFINE k == [peer |-> Me(n), tx |-> tx, via |-> via]
<1>1. /\ DOMAIN ledger' = Nodes
      /\ \A m \in Nodes : /\ AccountMap(ledger'[m]) /\ Addr[m] \in DOMAIN ledger'[m]
                          /\ NonceOf(ledger'[m], Addr[m]) = NonceOf(ledger[m], Addr[m])
      /\ k \in CreditKey /\ DOMAIN credits' = DOMAIN credits \cup {k}
      /\ credits'[k] = Count(Me(n), tx, via) + 1
      /\ \A j \in DOMAIN credits : j # k => credits'[j] = credits[j]
  BY CreditEffect DEF Base
<1>2. Count(Me(n), tx, via) \in Nat
  BY CountNat DEF Base
<1>3. tx_cache' \in [Nodes -> SUBSET TxRlp]
  BY RoundTrip DEF Base, TypeOK
<1> HIDE DEF k
<1>4. TypeOK'
  BY <1>1, <1>2, <1>3 DEF Base, TypeOK, AccountMap
<1>5. QED BY <1>1, <1>4, SameNonces DEF Base

\* So does a gossiped transfer, whoever it is for.
LEMMA GossipedBase ==
    ASSUME Base, NEW n \in Nodes, NEW tx \in Tx, Gossiped(n, tx)
    PROVE  Base'
<1>1. /\ UNCHANGED <<run, connected_peers, requests, responses, issued>>
      /\ requests' \subseteq RequestMessage /\ responses' \subseteq ResponseMessage
      /\ tx_cache' = [tx_cache EXCEPT ![n] = @ \cup {ToRlp(tx)}]
  BY DEF Gossiped, Base, TypeOK
<1>2. CASE tx.to = Addr[n]
  BY <1>1, <1>2, CreditBase DEF Gossiped, Paths
<1>3. CASE tx.to # Addr[n]
  <2>1. UNCHANGED <<ledger, credits>> /\ tx_cache' \in [Nodes -> SUBSET TxRlp]
    BY <1>1, <1>3, RoundTrip DEF Gossiped, Base, TypeOK
  <2>2. TypeOK'
    BY <1>1, <2>1 DEF Base, TypeOK
  <2>3. QED BY <1>1, <2>1, <2>2, SameNonces DEF Base
<1>4. QED BY <1>2, <1>3

\* So does one that a node requests.
LEMMA RequestedBase ==
    ASSUME Base, NEW n \in Nodes, NEW tx \in Tx, NEW q \in requests, Requested(n, q, tx)
    PROVE  Base'
<1>1. Reply(n, q, tx) \in ResponseMessage
  <2>1. q.from \in Peer /\ Me(n) \in Peer /\ ToRlp(tx) \in TxRlp
    BY RoundTrip DEF Base, TypeOK, RequestMessage, Me, Peer
  <2>2. QED BY <2>1 DEF Reply, ResponseMessage
<1>2. /\ requests' \subseteq RequestMessage /\ responses' \subseteq ResponseMessage
      /\ UNCHANGED <<run, connected_peers, issued>>
  BY <1>1 DEF Requested, Base, TypeOK
<1>3. CASE tx.to = Addr[n]
  BY <1>2, <1>3, CreditBase DEF Requested, Paths
<1>4. CASE tx.to # Addr[n]
  <2>1. TypeOK'
    BY <1>2, <1>4 DEF Requested, Base, TypeOK
  <2>2. QED BY <1>4, <2>1, SameNonces DEF Requested, Base
<1>5. QED BY <1>3, <1>4

\* So does one that a stranger requests.
LEMMA ForeignBase ==
    ASSUME Base, NEW n \in Nodes, NEW tx \in Tx, Foreign(n, tx)
    PROVE  Base'
<1>1. requests' \subseteq RequestMessage /\ responses' \subseteq ResponseMessage
  BY DEF Foreign, Base, TypeOK
<1>2. QED BY <1>1, CreditBase DEF Foreign, Paths

\* Every step keeps Base.
LEMMA NextBase == Base /\ [Next]_vars => Base'
<1> SUFFICES ASSUME Base, [Next]_vars PROVE Base'
  OBVIOUS
<1>1. TypeOK
  BY DEF Base
<1>2. QED
  BY <1>1, StepCases, QuietBase, RestartBase, SendBase, GossipedBase,
     RequestedBase, ForeignBase

\* Base holds in every reachable state.
LEMMA AlwaysBase == Spec => []Base
BY InitBase, NextBase, PTL DEF Spec

\* Every ledger, message, cache and history keeps its type under any run of the
\* network: balances stay within u64 and the own account is always there.
THEOREM NodeTypes == Spec => []TypeOK
<1>1. Base => TypeOK
  BY DEF Base
<1>2. QED BY <1>1, AlwaysBase, PTL

\* A sender never uses a nonce twice within one run, and its ledger's nonce counts
\* what it issued, whatever it receives in between (main.rs send command).
THEOREM NoncesUnique == Spec => []NoncesOfRun
<1>1. Base => NoncesOfRun
  BY DEF Base
<1>2. QED BY <1>1, AlwaysBase, PTL

-----------------------------------------------------------------------------
(* Where credits come from.                                                *)

\* What a request carries was issued, by the peer the request names; what was credited
\* is genuine, and a run that has begun credited it.
Provenance ==
    /\ \A q \in requests : \E tx \in issued :
          q.tx_rlp = ToRlp(tx) /\ tx.from = Addr[q.from.node] /\ tx.timestamp = q.from.run
    /\ CreditOnlyIssued
    /\ \A k \in DOMAIN credits : k.peer.run <= run[k.peer.node]

\* Every step keeps Provenance: only Send puts transactions on their way.
LEMMA NextProvenance == Base /\ Base' /\ Provenance /\ [Next]_vars => Provenance'
<1> SUFFICES ASSUME Base, Base', Provenance, [Next]_vars PROVE Provenance'
  OBVIOUS
<1>0. TypeOK /\ TypeOK'
  BY DEF Base
<1>1. CASE Quiet
  BY <1>1 DEF Quiet, Provenance, CreditOnlyIssued, Genuine
<1>2. ASSUME NEW n \in Nodes, Restart(n) PROVE Provenance'
  <2>1. /\ UNCHANGED <<requests, issued, credits>>
        /\ \A m \in Nodes : run[m] \in Nat /\ run'[m] \in Nat /\ run[m] <= run'[m]
    BY <1>0, <1>2, BoundsAssumption DEF Restart, TypeOK, Runs
  <2>2. \A k \in DOMAIN credits : k.peer.node \in Nodes /\ k.peer.run \in Nat
    BY <1>0, BoundsAssumption DEF TypeOK, CreditKey, Peer, Runs
  <2>3. \A k \in DOMAIN credits : k.peer.run <= run'[k.peer.node]
    BY <2>1, <2>2 DEF Provenance
  <2>4. QED BY <2>1, <2>3 DEF Provenance, CreditOnlyIssued, Genuine
<1>3. ASSUME NEW n \in Nodes, NEW to \in Address, NEW amount \in Amounts,
             Send(n, to, amount)
      PROVE  Provenance'
  <2> DEFINE tx == NewTx(n, to, amount)
  <2>1. /\ tx.from = Addr[n] /\ tx.timestamp = run[n]
        /\ requests' = requests \cup
              {[from |-> Me(n), to |-> p, tx_rlp |-> ToRlp(tx)] : p \in connected_peers[n]}
          /\ issued' = issued \cup {tx} /\ credits' = credits /\ run' = run
    BY <1>3, SendEffect
  <2> HIDE DEF tx
  <2>2. \A q \in requests' : q \in requests \/
           (q.tx_rlp = ToRlp(tx) /\ tx.from = Addr[q.from.node] /\ tx.timestamp = q.from.run)
    BY <2>1 DEF Me
  <2>3. \A q \in requests' : \E t \in issued' :
           q.tx_rlp = ToRlp(t) /\ t.from = Addr[q.from.node] /\ t.timestamp = q.from.run
    BY <2>1, <2>2 DEF Provenance
  <2>4. CreditOnlyIssued' /\ \A k \in DOMAIN credits' : k.peer.run <= run'[k.peer.node]
    BY <2>1 DEF Provenance, CreditOnlyIssued, Genuine
  <2>5. QED BY <2>3, <2>4 DEF Provenance
<1>4. ASSUME NEW n \in Nodes, NEW tx \in Tx, NEW via \in Paths,
             Genuine(tx),
             IF tx.to = Addr[n] THEN CreditOwn(n, tx, via) ELSE credits' = credits,
             UNCHANGED <<run, issued>>, requests' \subseteq requests
      PROVE  Provenance'
  <2>1. CASE tx.to # Addr[n]
    BY <1>4, <2>1 DEF Provenance, CreditOnlyIssued, Genuine
  <2>2. CASE tx.to = Addr[n]
    <3> DEFINE k == [peer |-> Me(n), tx |-> tx, via |-> via]
    <3>1. CreditOwn(n, tx, via)
      BY <1>4, <2>2
    <3>2. DOMAIN credits' = DOMAIN credits \cup {k}
      BY <1>0, <2>2, <3>1, CreditEffect
    <3>3. k.tx = tx /\ k.peer.node = n /\ k.peer.run = run[n] /\ run[n] \in Nat
      BY <1>0, BoundsAssumption DEF Me, TypeOK, Runs
    <3> HIDE DEF k
    <3>4. \A j \in DOMAIN credits' : /\ Genuine(j.tx)' /\ j.tx.to = Addr[j.peer.node]
                                     /\ j.peer.run <= run'[j.peer.node]
      BY <1>4, <2>2, <3>2, <3>3 DEF Provenance, CreditOnlyIssued, Genuine
    <3>5. QED BY <1>4, <3>4 DEF Provenance, CreditOnlyIssued
  <2>3. QED BY <2>1, <2>2
<1>5. ASSUME NEW n \in Nodes, NEW tx \in Tx, Gossiped(n, tx) \/ Foreign(n, tx)
      PROVE  Provenance'
  BY <1>4, <1>5 DEF Gossiped, Foreign, Paths
<1>6. ASSUME NEW n \in Nodes, NEW tx \in Tx, NEW q \in requests, Requested(n, q, tx)
      PROVE  Provenance'
  <2>1. \E t \in issued : ToRlp(tx) = ToRlp(t)
    BY <1>6 DEF Requested, Provenance
  <2>2. tx \in issued
    BY <1>0, <2>1, RlpInjective DEF TypeOK
  <2>3. requests' \subseteq requests
    BY <1>6 DEF Requested
  <2>4. QED BY <1>4, <1>6, <2>2, <2>3 DEF Requested, Genuine, Paths
<1>7. QED BY <1>0, <1>1, <1>2, <1>3, <1>5, <1>6, StepCases

\* Two requests to one peer for one transaction are the same request: the
\* transaction says which run of which node sent it.
LEMMA RequestUnique ==
    ASSUME Base, Provenance, NEW q1 \in requests, NEW q2 \in requests,
           q1.to = q2.to, q1.tx_rlp = q2.tx_rlp
    PROVE  q1 = q2
<1>1. PICK tx1 \in issued : /\ q1.tx_rlp = ToRlp(tx1) /\ tx1.from = Addr[q1.from.node]
                            /\ tx1.timestamp = q1.from.run
  BY DEF Provenance
<1>2. PICK tx2 \in issued : /\ q2.tx_rlp = ToRlp(tx2) /\ tx2.from = Addr[q2.from.node]
                            /\ tx2.timestamp = q2.from.run
  BY DEF Provenance
<1>3. tx1 = tx2
  BY <1>1, <1>2, RlpInjective DEF Base, TypeOK
<1>4. q1 \in RequestMessage /\ q2 \in RequestMessage
  BY DEF Base, TypeOK
<1>5. q1.from \in Peer /\ q2.from \in Peer
  BY <1>4 DEF RequestMessage
<1>6. q1.from.node = q2.from.node /\ q1.from.run = q2.from.run
  BY <1>1, <1>2, <1>3, <1>5, AddrFacts DEF Peer
<1>7. q1.from = q2.from
  BY <1>5, <1>6 DEF Peer
<1>8. QED BY <1>4, <1>7 DEF RequestMessage

-----------------------------------------------------------------------------
(* How often a run credits.                                                *)

\* What a run has credited is in its cache, and a node's request that was answered
\* with a credit is not in flight any more.
Once ==
    /\ \A k \in DOMAIN credits :
          k.peer = Me(k.peer.node) => ToRlp(k.tx) \in tx_cache[k.peer.node]
    /\ \A k \in DOMAIN credits, q \in requests :
          k.via = "direct" /\ q.to = k.peer => q.tx_rlp # ToRlp(k.tx)
    /\ AtMostOncePerPath

\* The cache keeps out of gossip what this run has credited on either path.
LEMMA GossipNew ==
    ASSUME Once, NEW n \in Nodes, NEW tx \in Tx, Gossiped(n, tx), NEW via
    PROVE  [peer |-> Me(n), tx |-> tx, via |-> via] \notin DOMAIN credits
<1> DEFINE k == [peer |-> Me(n), tx |-> tx, via |-> via]
<1>1. k.peer = Me(k.peer.node) /\ k.peer.node = n /\ k.tx = tx
  BY DEF Me
<1>2. ToRlp(tx) \notin tx_cache[n]
  BY DEF Gossiped
<1> HIDE DEF k
<1>3. k \notin DOMAIN credits
  BY <1>1, <1>2 DEF Once
<1>4. QED BY <1>3 DEF k

\* A request that is still in flight has not been credited.
LEMMA RequestNew ==
    ASSUME Once, NEW n \in Nodes, NEW tx \in Tx, NEW q \in requests, Requested(n, q, tx)
    PROVE  [peer |-> Me(n), tx |-> tx, via |-> "direct"] \notin DOMAIN credits
<1> DEFINE k == [peer |-> Me(n), tx |-> tx, via |-> "direct"]
<1>1. k.peer = Me(n) /\ k.tx = tx /\ k.via = "direct"
  OBVIOUS
<1>2. q.to = Me(n) /\ q.tx_rlp = ToRlp(tx)
  BY DEF Requested
<1> HIDE DEF k
<1>3. k \notin DOMAIN credits
  BY <1>1, <1>2 DEF Once
<1>4. QED BY <1>3 DEF k

\* Every step keeps Once.
LEMMA NextOnce == Base /\ Provenance /\ Once /\ [Next]_vars => Once'
<1> SUFFICES ASSUME Base, Provenance, Once, [Next]_vars PROVE Once'
  OBVIOUS
<1>0. /\ TypeOK
      /\ \A k \in DOMAIN credits : /\ k \in CreditKey /\ k.peer \in Peer /\ k.tx \in Tx
                                   /\ k.peer.node \in Nodes /\ k.peer.run \in Nat
      /\ \A m \in Nodes : run[m] \in Nat
  BY BoundsAssumption DEF Base, TypeOK, CreditKey, Peer, Runs
<1>1. CASE Quiet
  BY <1>1 DEF Quiet, Once, AtMostOncePerPath, Me
<1>2. ASSUME NEW n \in Nodes, Restart(n) PROVE Once'
  <2>1. /\ UNCHANGED <<requests, credits>>
        /\ run'[n] = run[n] + 1 /\ \A m \in Nodes : m # n => run'[m] = run[m]
        /\ \A m \in Nodes : m # n => tx_cache'[m] = tx_cache[m]
    BY <1>0, <1>2 DEF Restart, TypeOK
  <2>2. ASSUME NEW k \in DOMAIN credits, k.peer = Me(k.peer.node)'
        PROVE  ToRlp(k.tx) \in tx_cache'[k.peer.node]
    <3>1. k.peer.run = run'[k.peer.node] /\ k.peer.run <= run[k.peer.node]
      BY <2>2 DEF Me, Provenance
    <3>2. k.peer.node # n
      BY <1>0, <2>1, <3>1
    <3>3. k.peer = Me(k.peer.node)
      BY <1>0, <2>1, <2>2, <3>2 DEF Me
    <3>4. QED BY <1>0, <2>1, <3>2, <3>3 DEF Once
  <2>3. QED BY <2>1, <2>2 DEF Once, AtMostOncePerPath
<1>3. ASSUME NEW n \in Nodes, NEW to \in Address, NEW amount \in Amounts,
             Send(n, to, amount)
      PROVE  Once'
  <2> DEFINE tx == NewTx(n, to, amount)
  <2>1. /\ tx \in Tx /\ tx \notin issued /\ tx.from = Addr[n]
        /\ tx_cache' = [tx_cache EXCEPT ![n] = @ \cup {ToRlp(tx)}]
        /\ requests' = requests \cup
              {[from |-> Me(n), to |-> p, tx_rlp |-> ToRlp(tx)] : p \in connected_peers[n]}
        /\ credits' = credits /\ run' = run
    BY <1>3, SendEffect
  <2> HIDE DEF tx
  <2>2. \A m \in Nodes : tx_cache[m] \subseteq tx_cache'[m]
    BY <1>0, <2>1 DEF TypeOK
  <2>3. \A q \in requests' : q \in requests \/ q.tx_rlp = ToRlp(tx)
    BY <2>1
  <2>4. \A k \in DOMAIN credits : ToRlp(k.tx) # ToRlp(tx)
    BY <1>0, <2>1, RlpInjective DEF Provenance, CreditOnlyIssued, Genuine
  <2>5. \A k \in DOMAIN credits, q \in requests' :
           k.via = "direct" /\ q.to = k.peer => q.tx_rlp # ToRlp(k.tx)
    BY <2>3, <2>4 DEF Once
  <2>6. \A k \in DOMAIN credits : k.peer = Me(k.peer.node)' =>
                                     ToRlp(k.tx) \in tx_cache'[k.peer.node]
    BY <1>0, <2>1, <2>2 DEF Once, Me
  <2>7. QED BY <2>1, <2>5, <2>6 DEF Once, AtMostOncePerPath
\* A credit of a transaction, new on its path unless a stranger requests it.
<1>4. ASSUME NEW n \in Nodes, NEW tx \in Tx, NEW via \in Paths,
             tx.to = Addr[n], CreditOwn(n, tx, via),
             via # "foreign" =>
                 [peer |-> Me(n), tx |-> tx, via |-> via] \notin DOMAIN credits,
             tx_cache' = [tx_cache EXCEPT ![n] = @ \cup {ToRlp(tx)}],
             run' = run, requests' \subseteq requests,
             via = "direct" => \A q \in requests' : q.to = Me(n) => q.tx_rlp # ToRlp(tx)
      PROVE  Once'
  <2> DEFINE k == [peer |-> Me(n), tx |-> tx, via |-> via]
  <2>1. /\ DOMAIN credits' = DOMAIN credits \cup {k}
        /\ credits'[k] = Count(Me(n), tx, via) + 1
        /\ \A j \in DOMAIN credits : j # k => credits'[j] = credits[j]
    BY <1>0, <1>4, CreditEffect
  <2>2. via # "foreign" => Count(Me(n), tx, via) = 0
    BY <1>4 DEF Count
  <2>3. k.peer = Me(n) /\ k.peer.node = n /\ k.tx = tx /\ k.via = via
    BY DEF Me
  <2> HIDE DEF k
  <2>5. AtMostOncePerPath'
    BY <2>1, <2>2, <2>3 DEF Once, AtMostOncePerPath
  <2>6. tx_cache'[n] = tx_cache[n] \cup {ToRlp(tx)} /\ \A m \in Nodes : tx_cache[m] \subseteq tx_cache'[m]
    BY <1>0, <1>4 DEF TypeOK
  <2>7. \A j \in DOMAIN credits' : j.peer = Me(j.peer.node)' =>
                                      ToRlp(j.tx) \in tx_cache'[j.peer.node]
    <3>1. ASSUME NEW j \in DOMAIN credits, j.peer = Me(j.peer.node)'
          PROVE  ToRlp(j.tx) \in tx_cache'[j.peer.node]
      BY <1>0, <1>4, <2>6, <3>1 DEF Once, Me
    <3>2. QED BY <2>1, <2>3, <2>6, <3>1
  <2>8. \A j \in DOMAIN credits', q \in requests' :
           j.via = "direct" /\ q.to = j.peer => q.tx_rlp # ToRlp(j.tx)
    BY <1>4, <2>1, <2>3 DEF Once
  <2>9. QED BY <2>5, <2>7, <2>8 DEF Once
<1>5. ASSUME NEW n \in Nodes, NEW tx \in Tx, Gossiped(n, tx) PROVE Once'
  <2>1. CASE tx.to = Addr[n]
    <3>1. [peer |-> Me(n), tx |-> tx, via |-> "gossip"] \notin DOMAIN credits
      BY <1>5, GossipNew
    <3>2. QED BY <1>4, <1>5, <2>1, <3>1 DEF Gossiped, Paths
  <2>2. CASE tx.to # Addr[n]
    <3>1. UNCHANGED <<run, credits, requests>>
      BY <1>5, <2>2 DEF Gossiped
    <3>2. \A m \in Nodes : tx_cache[m] \subseteq tx_cache'[m]
      BY <1>0, <1>5 DEF Gossiped, TypeOK
    <3>3. \A k \in DOMAIN credits : k.peer = Me(k.peer.node)' =>
                                       ToRlp(k.tx) \in tx_cache'[k.peer.node]
      BY <1>0, <3>1, <3>2 DEF Once, Me
    <3>4. QED BY <3>1, <3>3 DEF Once, AtMostOncePerPath
  <2>3. QED BY <2>1, <2>2
<1>6. ASSUME NEW n \in Nodes, NEW tx \in Tx, NEW q \in requests, Requested(n, q, tx)
      PROVE  Once'
  <2>1. q.to = Me(n) /\ q.tx_rlp = ToRlp(tx) /\ requests' = requests \ {q} /\ run' = run
    BY <1>6 DEF Requested
  <2>2. CASE tx.to = Addr[n]
    <3>1. [peer |-> Me(n), tx |-> tx, via |-> "direct"] \notin DOMAIN credits
      BY <1>6, RequestNew
    <3>2. \A q2 \in requests' : q2.to = Me(n) => q2.tx_rlp # ToRlp(tx)
      BY <2>1, RequestUnique
    <3>3. QED BY <1>4, <1>6, <2>1, <2>2, <3>1, <3>2 DEF Requested, Paths
  <2>3. CASE tx.to # Addr[n]
    <3>1. UNCHANGED <<credits, tx_cache>>
      BY <1>6, <2>3 DEF Requested
    <3>2. QED BY <2>1, <3>1 DEF Once, AtMostOncePerPath, Me
  <2>4. QED BY <2>2, <2>3
<1>7. ASSUME NEW n \in Nodes, NEW tx \in Tx, Foreign(n, tx) PROVE Once'
  BY <1>4, <1>7 DEF Foreign, Paths
<1>8. QED BY <1>0, <1>1, <1>2, <1>3, <1>5, <1>6, <1>7, StepCases

-----------------------------------------------------------------------------
(* Responses.                                                              *)

\* A response is about an issued transaction: accepted ones were credited, the
\* others were not addressed to the wallet that answered.
Answered ==
    \A r \in responses : \E tx \in issued :
        /\ r.tx_hash = ToRlp(tx)
        /\ IF r.accepted THEN [peer |-> r.from, tx |-> tx, via |-> "direct"] \in DOMAIN credits
                         ELSE tx.to # Addr[r.from.node]

\* Every step keeps Answered: a response is sent in the step that decides.
LEMMA NextAnswered == Base /\ Provenance /\ Answered /\ [Next]_vars => Answered'
<1> SUFFICES ASSUME Base, Provenance, Answered, [Next]_vars PROVE Answered'
  OBVIOUS
<1>0. TypeOK
  BY DEF Base
<1>1. ASSUME responses' \subseteq responses, issued \subseteq issued',
             DOMAIN credits \subseteq DOMAIN credits'
      PROVE  Answered'
  <2> SUFFICES ASSUME NEW r \in responses'
               PROVE  \E tx \in issued' :
                          /\ r.tx_hash = ToRlp(tx)
                          /\ IF r.accepted
                             THEN [peer |-> r.from, tx |-> tx, via |-> "direct"] \in DOMAIN credits'
                             ELSE tx.to # Addr[r.from.node]
    BY DEF Answered
  <2>1. QED BY <1>1 DEF Answered
<1>2. CASE Quiet
  BY <1>1, <1>2 DEF Quiet
<1>3. ASSUME NEW n \in Nodes, Restart(n) PROVE Answered'
  BY <1>1, <1>3 DEF Restart
<1>4. ASSUME NEW n \in Nodes, NEW to \in Address, NEW amount \in Amounts,
             Send(n, to, amount)
      PROVE  Answered'
  BY <1>1, <1>4 DEF Send
<1>5. ASSUME NEW n \in Nodes, NEW tx \in Tx, Gossiped(n, tx) \/ Foreign(n, tx)
      PROVE  Answered'
  BY <1>1, <1>5 DEF Gossiped, Foreign, CreditOwn, Put
<1>6. ASSUME NEW n \in Nodes, NEW tx \in Tx, NEW q \in requests, Requested(n, q, tx)
      PROVE  Answered'
  <2>1. tx \in issued
    <3>1. \E t \in issued : ToRlp(tx) = ToRlp(t)
      BY <1>6 DEF Requested, Provenance
    <3>2. QED BY <1>0, <3>1, RlpInjective DEF TypeOK
  <2>2. DOMAIN credits \subseteq DOMAIN credits' /\ issued' = issued
    BY <1>6 DEF Requested, CreditOwn, Put
  <2>3. tx.to = Addr[n] => [peer |-> Me(n), tx |-> tx, via |-> "direct"] \in DOMAIN credits'
    BY <1>6 DEF Requested, CreditOwn, Put
  <2>4. /\ Reply(n, q, tx).from = Me(n) /\ Reply(n, q, tx).tx_hash = ToRlp(tx)
        /\ Reply(n, q, tx).accepted <=> tx.to = Addr[n]
    BY DEF Reply
  <2>5. Me(n).node = n
    BY DEF Me
  <2>6. ASSUME NEW r \in responses'
        PROVE  \E t \in issued' :
                   /\ r.tx_hash = ToRlp(t)
                   /\ IF r.accepted
                      THEN [peer |-> r.from, tx |-> t, via |-> "direct"] \in DOMAIN credits'
                      ELSE t.to # Addr[r.from.node]
    <3>1. CASE r \in responses
      BY <2>2, <3>1 DEF Answered
    <3>2. CASE r = Reply(n, q, tx)
      BY <2>1, <2>2, <2>3, <2>4, <2>5, <3>2
    <3>3. QED BY <1>6, <2>6, <3>1, <3>2 DEF Requested
  <2>7. QED BY <2>6 DEF Answered
<1>7. QED BY <1>0, <1>2, <1>3, <1>4, <1>5, <1>6, StepCases

-----------------------------------------------------------------------------
(* The inductive invariant of the network, and what follows from it.       *)

NodeInv == Base /\ Provenance /\ Once /\ Answered

\* Initially nothing is on its way.
LEMMA InitNodeInv == Init => NodeInv
<1> SUFFICES ASSUME Init PROVE NodeInv
  OBVIOUS
<1>1. DOMAIN credits = {} /\ requests = {} /\ responses = {}
  BY DEF Init
<1>2. Provenance /\ Once /\ Answered
  BY <1>1 DEF Provenance, CreditOnlyIssued, Once, AtMostOncePerPath, Answered
<1>3. QED BY <1>2, InitBase DEF NodeInv

\* Every step keeps the four parts together.
LEMMA NextNodeInv == NodeInv /\ [Next]_vars => NodeInv'
<1> SUFFICES ASSUME NodeInv, [Next]_vars PROVE NodeInv'
  OBVIOUS
<1>1. Base /\ Provenance /\ Once /\ Answered
  BY DEF NodeInv
<1>2. Base'
  BY <1>1, NextBase
<1>3. QED BY <1>1, <1>2, NextProvenance, NextOnce, NextAnswered DEF NodeInv

\* They hold in every reachable state.
LEMMA AlwaysNodeInv == Spec => []NodeInv
BY InitNodeInv, NextNodeInv, PTL DEF Spec

\* Whatever is lost, repeated, reordered, padded, redirected or signed by another, by
\* gossip or by request, a wallet is credited only with what is addressed to it, and
\* in a node's name only with what that node signed and debited from itself (main.rs
\* gossip and request handlers).
THEOREM CreditsIssued == Spec => []CreditOnlyIssued
<1>1. NodeInv => CreditOnlyIssued
  BY DEF NodeInv, Provenance
<1>2. QED BY <1>1, AlwaysNodeInv, PTL

\* However often a transaction is delivered and in whatever encoding, one run credits
\* it at most once by gossip; and at most once by the requests of the node that made
\* it, however late they arrive.  Strangers' requests for it are outside this bound.
THEOREM CreditedOncePerPath == Spec => []AtMostOncePerPath
<1>1. NodeInv => AtMostOncePerPath
  BY DEF NodeInv, Once
<1>2. QED BY <1>1, AlwaysNodeInv, PTL

\* An accepted response means a credit, and a rejected transaction is never credited
\* by the peer that rejected it.
THEOREM ConfirmationsTrue == Spec => []ResponsesTruthful
<1>1. NodeInv => ResponsesTruthful
  <2> SUFFICES ASSUME NodeInv, NEW r \in responses
               PROVE  IF r.accepted THEN Count(r.from, FromRlp(r.tx_hash), "direct") > 0
                      ELSE \A via \in Paths : Count(r.from, FromRlp(r.tx_hash), via) = 0
    BY DEF ResponsesTruthful
  <2>1. PICK tx \in issued :
            /\ r.tx_hash = ToRlp(tx)
            /\ IF r.accepted THEN [peer |-> r.from, tx |-> tx, via |-> "direct"] \in DOMAIN credits
                             ELSE tx.to # Addr[r.from.node]
    BY DEF NodeInv, Answered
  <2>2. FromRlp(r.tx_hash) = tx
    BY <2>1, RoundTrip DEF NodeInv, Base, TypeOK
  <2>3. CASE r.accepted
    <3>1. [peer |-> r.from, tx |-> tx, via |-> "direct"] \in DOMAIN credits
      BY <2>1, <2>3
    <3>2. Count(r.from, tx, "direct") > 0
      BY <3>1 DEF Count, NodeInv, Base, TypeOK
    <3>3. QED BY <2>2, <2>3, <3>2
  <2>4. CASE ~r.accepted
    <3>1. tx.to # Addr[r.from.node]
      BY <2>1, <2>4
    <3>2. \A k \in DOMAIN credits : k.tx.to = Addr[k.peer.node]
      BY DEF NodeInv, Provenance, CreditOnlyIssued
    <3>3. \A via : [peer |-> r.from, tx |-> tx, via |-> via] \notin DOMAIN credits
      BY <3>1, <3>2
    <3>4. \A via \in Paths : Count(r.from, tx, via) = 0
      BY <3>3 DEF Count
    <3>5. QED BY <2>2, <2>4, <3>4
  <2>5. QED BY <2>3, <2>4
<1>2. QED BY <1>1, AlwaysNodeInv, PTL

\* The cache keeps a run from crediting by gossip what it has credited before, by
\* gossip or by anyone's request (main.rs:470).
THEOREM GossipCreditsOnce == Spec => GossipNeverRepeats
<1>1. NodeInv /\ [Next]_vars => [GossipCreditStep]_vars
  <2> SUFFICES ASSUME NodeInv, [Next]_vars, NEW j \in DOMAIN credits', j.via = "gossip",
                      credits'[j] # Count(j.peer, j.tx, "gossip"), NEW via \in Paths
               PROVE  Count(j.peer, j.tx, via) = 0
    BY DEF GossipCreditStep
  <2>0. TypeOK /\ TypeOK'
    <3>1. Base /\ Base'
      BY NextBase DEF NodeInv
    <3>2. QED BY <3>1 DEF Base
  <2>1. j = [peer |-> j.peer, tx |-> j.tx, via |-> "gossip"]
    BY <2>0 DEF TypeOK, CreditKey
  <2>2. j \in DOMAIN credits => credits'[j] # credits[j]
    BY <2>1 DEF Count
  <2>3. ASSUME credits' = credits PROVE FALSE
    BY <2>2, <2>3
  <2>4. ASSUME NEW m \in Nodes, NEW t \in Tx, NEW v \in Paths,
               t.to = Addr[m], CreditOwn(m, t, v)
        PROVE  j = [peer |-> Me(m), tx |-> t, via |-> v]
    <3>1. /\ DOMAIN credits' = DOMAIN credits \cup {[peer |-> Me(m), tx |-> t, via |-> v]}
          /\ \A i \in DOMAIN credits : i # [peer |-> Me(m), tx |-> t, via |-> v] =>
                credits'[i] = credits[i]
      BY <2>0, <2>4, CreditEffect
    <3>2. QED BY <2>2, <3>1
  <2>5. CASE Quiet
    BY <2>3, <2>5 DEF Quiet
  <2>6. ASSUME NEW m \in Nodes, Restart(m) PROVE FALSE
    BY <2>3, <2>6 DEF Restart
  <2>7. ASSUME NEW m \in Nodes, NEW to \in Address, NEW amount \in Amounts,
               Send(m, to, amount)
        PROVE  FALSE
    BY <2>3, <2>7 DEF Send
  <2>8. ASSUME NEW m \in Nodes, NEW t \in Tx, NEW q \in requests, Requested(m, q, t)
        PROVE  FALSE
    <3>1. t.to = Addr[m] /\ CreditOwn(m, t, "direct")
      BY <2>3, <2>8 DEF Requested
    <3>2. j = [peer |-> Me(m), tx |-> t, via |-> "direct"]
      BY <2>4, <3>1 DEF Paths
    <3>3. QED BY <3>2
  <2>9. ASSUME NEW m \in Nodes, NEW t \in Tx, Foreign(m, t) PROVE FALSE
    <3>1. j = [peer |-> Me(m), tx |-> t, via |-> "foreign"]
      BY <2>4, <2>9 DEF Foreign, Paths
    <3>2. QED BY <3>1
  <2>10. ASSUME NEW m \in Nodes, NEW t \in Tx, Gossiped(m, t)
         PROVE  Count(j.peer, j.tx, via) = 0
    <3>1. t.to = Addr[m] /\ CreditOwn(m, t, "gossip")
      BY <2>3, <2>10 DEF Gossiped
    <3>2. j = [peer |-> Me(m), tx |-> t, via |-> "gossip"]
      BY <2>4, <3>1 DEF Paths
    <3>3. [peer |-> Me(m), tx |-> t, via |-> via] \notin DOMAIN credits
      BY <2>10, GossipNew DEF NodeInv
    <3>4. j.peer = Me(m) /\ j.tx = t
      BY <3>2
    <3>5. QED BY <3>3, <3>4 DEF Count
  <2>11. QED BY <2>0, <2>5, <2>6, <2>7, <2>8, <2>9, <2>10, StepCases
<1>2. QED BY <1>1, AlwaysNodeInv, PTL DEF Spec, GossipNeverRepeats

-----------------------------------------------------------------------------
(* The audit of a node's own balance.                                      *)

CreditAmounts(n) == [k \in CreditedBy(Me(n)) |-> k.tx.amount * credits[k]]
SentAmounts(n) == [tx \in IssuedInRun(n, run[n]) |-> tx.amount]

Audit == IsFiniteSet(DOMAIN credits) /\ OwnBalanceAudit

\* Products of integers.
LEMMA Product ==
    ASSUME NEW x \in Int, NEW y \in Int
    PROVE  x * y \in Int /\ x * 1 = x /\ x * (y + 1) = x * y + x
OBVIOUS

\* An amount fits the balance type.
LEMMA TxAmount == ASSUME NEW tx \in Tx PROVE tx.amount \in 0 .. (U64 - 1) /\ tx.amount \in Int
BY TxFields, InputAssumption, U64Assumption

\* What a run credited and sent has a sum.
LEMMA AuditSummable ==
    ASSUME Base, IsFiniteSet(DOMAIN credits), NEW n \in Nodes
    PROVE  /\ Summable(CreditAmounts(n), DOMAIN CreditAmounts(n)) /\ Received(n) \in Int
           /\ Received(n) = SumFunction(CreditAmounts(n))
           /\ Summable(SentAmounts(n), DOMAIN SentAmounts(n)) /\ Sent(n) \in Int
           /\ Sent(n) = SumFunction(SentAmounts(n))
<1>1. \A k \in DOMAIN credits : k.tx \in Tx /\ credits[k] \in Int
  BY DEF Base, TypeOK, CreditKey
<1>2. \A k \in DOMAIN credits : k.tx.amount * credits[k] \in Int
  BY <1>1, TxAmount, Product
<1>3. IsFiniteSet(CreditedBy(Me(n)))
  BY FS_Subset DEF CreditedBy
<1>4. Summable(CreditAmounts(n), DOMAIN CreditAmounts(n))
  BY <1>2, <1>3 DEF Summable, CreditAmounts, CreditedBy
<1>5. IsFiniteSet(IssuedInRun(n, run[n]))
  BY FS_Subset DEF Base, IssuedInRun
<1>6. Summable(SentAmounts(n), DOMAIN SentAmounts(n))
  BY <1>5, TxAmount DEF Summable, SentAmounts, IssuedInRun, Base, TypeOK
<1>7. /\ Received(n) = SumFunction(CreditAmounts(n))
      /\ Sent(n) = SumFunction(SentAmounts(n))
  BY DEF Received, CreditAmounts, Sent, SentAmounts
<1>8. QED BY <1>4, <1>6, <1>7, SumInt DEF SumFunction

\* A run that has neither credited nor sent.
LEMMA NothingYet ==
    ASSUME NEW n \in Nodes, CreditedBy(Me(n)) = {}, IssuedInRun(n, run[n]) = {}
    PROVE  Received(n) = 0 /\ Sent(n) = 0
BY SumEmpty DEF Received, Sent, SumFunction

\* The balance width divides nothing that is in range.
LEMMA InRange == ASSUME NEW x \in 0 .. (U64 - 1) PROVE x % U64 = x /\ x \in Int
BY U64Assumption

\* Initially the balance is the initial balance.
LEMMA InitAudit == Init => Audit
<1> SUFFICES ASSUME Init PROVE Audit
  OBVIOUS
<1>1. DOMAIN credits = {} /\ issued = {} /\ \A n \in Nodes : ledger[n] = FreshLedger(n)
  BY DEF Init
<1>2. ASSUME NEW n \in Nodes
      PROVE  BalanceOf(ledger[n], Addr[n]) = (InitBalance + Received(n) - Sent(n)) % U64
  <2>1. Received(n) = 0 /\ Sent(n) = 0
    BY <1>1, NothingYet DEF CreditedBy, IssuedInRun
  <2>2. BalanceOf(ledger[n], Addr[n]) = InitBalance
    BY <1>1, FreshMap
  <2>3. InitBalance % U64 = InitBalance /\ InitBalance \in Int
    BY InRange, InputAssumption
  <2>4. QED BY <2>1, <2>2, <2>3
<1>3. QED BY <1>1, <1>2, FS_EmptySet DEF Audit, OwnBalanceAudit

\* Nodes that a step does not concern.
LEMMA SameAudit ==
    ASSUME Audit, NEW m \in Nodes, Me(m)' = Me(m), run'[m] = run[m], ledger'[m] = ledger[m],
           CreditAmounts(m)' = CreditAmounts(m), SentAmounts(m)' = SentAmounts(m)
    PROVE  (BalanceOf(ledger[m], Addr[m]) = (InitBalance + Received(m) - Sent(m)) % U64)'
<1>1. Received(m)' = Received(m) /\ Sent(m)' = Sent(m)
  BY DEF Received, Sent, CreditAmounts, SentAmounts
<1>2. QED BY <1>1 DEF Audit, OwnBalanceAudit

\* Every step enters in the balance what it enters in the history.
LEMMA NextAudit == NodeInv /\ NodeInv' /\ Audit /\ [Next]_vars => Audit'
<1> SUFFICES ASSUME NodeInv, NodeInv', Audit, [Next]_vars PROVE Audit'
  OBVIOUS
<1>0. /\ Base /\ TypeOK /\ Base' /\ IsFiniteSet(DOMAIN credits)
      /\ \A m \in Nodes : BalanceOf(ledger[m], Addr[m]) =
                             (InitBalance + Received(m) - Sent(m)) % U64
      /\ InitBalance \in Int
  BY InputAssumption, U64Assumption DEF NodeInv, Base, Audit, OwnBalanceAudit
<1>1. CASE UNCHANGED <<run, ledger, issued, credits>>
  <2>1. \A m \in Nodes : /\ Me(m)' = Me(m) /\ CreditAmounts(m)' = CreditAmounts(m)
                         /\ SentAmounts(m)' = SentAmounts(m)
    BY <1>1 DEF Me, CreditAmounts, CreditedBy, SentAmounts, IssuedInRun
  <2>2. OwnBalanceAudit'
    BY <1>1, <2>1, SameAudit DEF OwnBalanceAudit
  <2>3. QED BY <1>0, <1>1, <2>2 DEF Audit
<1>2. ASSUME NEW n \in Nodes, Restart(n) PROVE Audit'
  <2>1. /\ credits' = credits /\ issued' = issued
        /\ run'[n] = run[n] + 1 /\ run[n] \in Nat /\ ledger'[n] = FreshLedger(n)
        /\ \A m \in Nodes : m # n => run'[m] = run[m] /\ ledger'[m] = ledger[m]
    BY <1>0, <1>2, BoundsAssumption DEF Restart, TypeOK, Runs
  <2>2. ASSUME NEW m \in Nodes, m # n
        PROVE  (BalanceOf(ledger[m], Addr[m]) = (InitBalance + Received(m) - Sent(m)) % U64)'
    <3>1. /\ Me(m)' = Me(m) /\ CreditAmounts(m)' = CreditAmounts(m)
          /\ SentAmounts(m)' = SentAmounts(m)
      BY <2>1, <2>2 DEF Me, CreditAmounts, CreditedBy, SentAmounts, IssuedInRun
    <3>2. QED BY <2>1, <2>2, <3>1, SameAudit
  <2>3. CreditedBy(Me(n))' = {} /\ IssuedInRun(n, run[n])' = {}
    <3>1. \A k \in DOMAIN credits : k.peer = Me(n)' => k.peer.run = run[n] + 1 /\ k.peer.node = n
      BY <2>1 DEF Me
    <3>2. \A k \in DOMAIN credits : k.peer.run <= run[k.peer.node]
      BY DEF NodeInv, Provenance
    <3>3. \A tx \in issued : tx.from = Addr[n] => tx.timestamp <= run[n]
      BY <1>0 DEF Base, NoncesBelow
    <3>4. QED BY <2>1, <3>1, <3>2, <3>3 DEF CreditedBy, IssuedInRun
  <2>4. (Received(n) = 0 /\ Sent(n) = 0)'
    <3>1. Received(n)' = SumFunctionOnSet(CreditAmounts(n)', {})
      BY <2>3 DEF Received, CreditAmounts, SumFunction
    <3>2. Sent(n)' = SumFunctionOnSet(SentAmounts(n)', {})
      BY <2>3 DEF Sent, SentAmounts, SumFunction
    <3>3. QED BY <3>1, <3>2, SumEmpty
  <2>5. BalanceOf(ledger'[n], Addr[n]) = InitBalance
    BY <2>1, FreshMap
  <2>6. (BalanceOf(ledger[n], Addr[n]) = (InitBalance + Received(n) - Sent(n)) % U64)'
    <3>1. InitBalance % U64 = InitBalance
      BY InRange, InputAssumption
    <3>2. InitBalance + 0 - 0 = InitBalance
      BY <1>0
    <3>3. QED BY <2>4, <2>5, <3>1, <3>2
  <2>7. QED BY <1>0, <2>1, <2>2, <2>6 DEF Audit, OwnBalanceAudit
<1>3. ASSUME NEW n \in Nodes, NEW to \in Address, NEW amount \in Amounts,
             Send(n, to, amount)
      PROVE  Audit'
  <2> DEFINE tx == NewTx(n, to, amount)
  <2>1. /\ tx \in Tx /\ tx \notin issued
        /\ tx.from = Addr[n] /\ tx.amount = amount /\ tx.timestamp = run[n]
        /\ \A m \in Nodes : m # n => ledger'[m] = ledger[m]
        /\ BalanceOf(ledger[n], Addr[n]) >= amount
        /\ BalanceOf(ledger'[n], Addr[n]) = BalanceOf(ledger[n], Addr[n]) - amount
        /\ issued' = issued \cup {tx} /\ credits' = credits /\ run' = run
    BY <1>0, <1>3, SendEffect
  <2> HIDE DEF tx
  <2>2. \A m \in Nodes : Me(m)' = Me(m) /\ CreditAmounts(m)' = CreditAmounts(m)
    BY <2>1 DEF Me, CreditAmounts, CreditedBy
  <2>3. ASSUME NEW m \in Nodes, m # n
        PROVE  (BalanceOf(ledger[m], Addr[m]) = (InitBalance + Received(m) - Sent(m)) % U64)'
    <3>1. IssuedInRun(m, run[m])' = IssuedInRun(m, run[m])
      BY <2>1, <2>3, AddrFacts DEF IssuedInRun
    <3>2. SentAmounts(m)' = SentAmounts(m)
      BY <3>1 DEF SentAmounts
    <3>3. QED BY <2>1, <2>2, <2>3, <3>2, SameAudit
  <2>4. Received(n)' = Received(n)
    BY <2>2 DEF Received, CreditAmounts
  <2>5. Sent(n)' = Sent(n) + amount
    <3> DEFINE f == SentAmounts(n)  g == SentAmounts(n)'
    <3>1. IssuedInRun(n, run[n])' = IssuedInRun(n, run[n]) \cup {tx}
      BY <2>1 DEF IssuedInRun
    <3>2. /\ DOMAIN g = DOMAIN f \cup {tx} /\ tx \notin DOMAIN f /\ g[tx] = amount
          /\ \A y \in DOMAIN f : f[y] = g[y]
      BY <2>1, <3>1 DEF SentAmounts, IssuedInRun
    <3>3. Summable(f, DOMAIN f) /\ Sent(n) = SumFunction(f)
      BY <1>0, AuditSummable
    <3>4. Sent(n)' = SumFunction(g)
      BY DEF Sent, SentAmounts
    <3>5. amount \in Int
      BY InputAssumption, U64Assumption
    <3> HIDE DEF f, g
    <3>6. SumFunction(g) = SumFunction(f) + g[tx]
      BY <3>2, <3>3, <3>5, SumExtend
    <3>7. QED BY <3>2, <3>3, <3>4, <3>6
  <2>6. (BalanceOf(ledger[n], Addr[n]) = (InitBalance + Received(n) - Sent(n)) % U64)'
    <3> DEFINE x == BalanceOf(ledger[n], Addr[n])  y == InitBalance + Received(n) - Sent(n)
    <3>1. amount \in 0 .. (U64 - 1) /\ amount \in Int /\ -amount \in Int
      BY InputAssumption, U64Assumption
    <3>2. x \in 0 .. (U64 - 1)
      BY <1>0, LedgersTyped
    <3>3. Received(n) \in Int /\ Sent(n) \in Int
      BY <1>0, AuditSummable
    <3>4. y \in Int /\ x = y % U64 /\ x \in Int /\ x % U64 = y % U64
      BY <1>0, <3>2, <3>3, InRange
    <3>5. x - amount \in 0 .. (U64 - 1)
      BY <2>1, <3>1, <3>2, U64Assumption
    <3>6. (InitBalance + Received(n) - Sent(n))' = y + -amount
      BY <1>0, <2>4, <2>5, <3>1, <3>3
    <3>7. BalanceOf(ledger'[n], Addr[n]) = x + -amount /\ x + -amount \in 0 .. (U64 - 1)
      BY <2>1, <3>1, <3>4, <3>5
    <3> HIDE DEF x, y
    <3>8. (x + -amount) % U64 = (y + -amount) % U64
      BY <3>1, <3>4, ModAdd, U64Assumption
    <3>9. (x + -amount) % U64 = x + -amount
      BY <3>7, InRange
    <3>10. BalanceOf(ledger'[n], Addr[n]) = (InitBalance + Received(n) - Sent(n))' % U64
      BY <3>6, <3>7, <3>8, <3>9
    <3>11. QED BY <3>10
  <2>7. QED BY <1>0, <2>1, <2>3, <2>6 DEF Audit, OwnBalanceAudit
\* A credit by this run, new to its history or one more of a kind.
<1>4. ASSUME NEW n \in Nodes, NEW tx \in Tx, NEW via \in Paths,
             tx.to = Addr[n], CreditOwn(n, tx, via),
             UNCHANGED <<run, issued>>
      PROVE  Audit'
  <2> DEFINE k == [peer |-> Me(n), tx |-> tx, via |-> via]
  <2>1. /\ \A m \in Nodes : m # n => ledger'[m] = ledger[m]
        /\ BalanceOf(ledger'[n], Addr[n]) = (BalanceOf(ledger[n], Addr[n]) + tx.amount) % U64
        /\ DOMAIN credits' = DOMAIN credits \cup {k}
        /\ credits'[k] = Count(Me(n), tx, via) + 1
        /\ \A j \in DOMAIN credits : j # k => credits'[j] = credits[j]
    BY <1>0, <1>4, CreditEffect
  <2>2. /\ k.peer = Me(n) /\ k.tx = tx
        /\ Count(Me(n), tx, via) = IF k \in DOMAIN credits THEN credits[k] ELSE 0
    BY DEF Count
  <2>3. \A m \in Nodes : Me(m)' = Me(m) /\ SentAmounts(m)' = SentAmounts(m)
    BY <1>4 DEF Me, SentAmounts, IssuedInRun
  <2> HIDE DEF k
  <2>4. ASSUME NEW m \in Nodes, m # n
        PROVE  (BalanceOf(ledger[m], Addr[m]) = (InitBalance + Received(m) - Sent(m)) % U64)'
    <3>1. Me(m) # Me(n)
      BY <2>4 DEF Me
    <3>2. CreditedBy(Me(m))' = CreditedBy(Me(m))
      BY <2>1, <2>2, <2>3, <3>1 DEF CreditedBy
    <3>3. CreditAmounts(m)' = CreditAmounts(m)
      BY <2>1, <2>2, <3>1, <3>2 DEF CreditAmounts, CreditedBy
    <3>4. QED BY <1>4, <2>1, <2>3, <2>4, <3>3, SameAudit
  <2>5. tx.amount \in Int
    BY TxAmount
  <2>6. Received(n)' = Received(n) + tx.amount
    <3> DEFINE f == CreditAmounts(n)  g == CreditAmounts(n)'
    <3>1. CreditedBy(Me(n))' = CreditedBy(Me(n)) \cup {k}
      BY <2>1, <2>2, <2>3 DEF CreditedBy
    <3>2. /\ DOMAIN g = DOMAIN f \cup {k} /\ g[k] = tx.amount * credits'[k]
          /\ \A y \in DOMAIN f : y # k => f[y] = g[y]
          /\ k \in DOMAIN f <=> k \in DOMAIN credits
          /\ k \in DOMAIN f => f[k] = tx.amount * credits[k]
      BY <2>1, <2>2, <3>1 DEF CreditAmounts, CreditedBy
    <3>3. Summable(f, DOMAIN f) /\ Received(n) = SumFunction(f) /\ Received(n) \in Int
      BY <1>0, AuditSummable
    <3>4. Received(n)' = SumFunction(g)
      BY DEF Received, CreditAmounts
    <3> HIDE DEF f, g
    <3>5. CASE k \notin DOMAIN credits
      <4>1. g[k] = tx.amount
        BY <2>1, <2>2, <2>5, <3>2, <3>5, Product
      <4>2. k \notin DOMAIN f /\ \A y \in DOMAIN f : f[y] = g[y]
        BY <3>2, <3>5
      <4>3. SumFunction(g) = SumFunction(f) + g[k]
        BY <2>5, <3>2, <3>3, <4>1, <4>2, SumExtend
      <4>4. QED BY <3>3, <3>4, <4>1, <4>3
    <3>6. CASE k \in DOMAIN credits
      <4>1. credits[k] \in Int /\ credits'[k] = credits[k] + 1
        BY <1>0, <2>1, <2>2, <3>6 DEF TypeOK
      <4>2. f[k] \in Int /\ g[k] \in Int /\ g[k] = f[k] + tx.amount
        <5>1. /\ tx.amount * credits[k] \in Int /\ tx.amount * (credits[k] + 1) \in Int
              /\ tx.amount * (credits[k] + 1) = tx.amount * credits[k] + tx.amount
          BY <2>5, <4>1, Product
        <5>2. QED BY <3>2, <3>6, <4>1, <5>1
      <4>3. DOMAIN g = DOMAIN f /\ k \in DOMAIN f /\ \A y \in DOMAIN f \ {k} : f[y] = g[y]
        BY <3>2, <3>6
      <4>4. SumFunctionOnSet(g, DOMAIN f) = SumFunctionOnSet(f, DOMAIN f) - f[k] + g[k]
        BY <3>3, <4>2, <4>3, SumUpdate
      <4>5. SumFunction(g) = SumFunction(f) - f[k] + g[k]
        BY <4>3, <4>4 DEF SumFunction
      <4>6. SumFunction(f) \in Int
        BY <3>3
      <4>7. SumFunction(g) = SumFunction(f) + tx.amount
        BY <2>5, <4>2, <4>5, <4>6
      <4>8. QED BY <3>3, <3>4, <4>7
    <3>7. QED BY <3>5, <3>6
  <2>7. Sent(n)' = Sent(n)
    BY <2>3 DEF Sent, SentAmounts
  <2>8. (BalanceOf(ledger[n], Addr[n]) = (InitBalance + Received(n) - Sent(n)) % U64)'
    <3> DEFINE x == BalanceOf(ledger[n], Addr[n])  y == InitBalance + Received(n) - Sent(n)
    <3>1. x \in 0 .. (U64 - 1)
      BY <1>0, LedgersTyped
    <3>2. Received(n) \in Int /\ Sent(n) \in Int
      BY <1>0, AuditSummable
    <3>3. y \in Int /\ x = y % U64 /\ x \in Int /\ x % U64 = y % U64
      BY <1>0, <3>1, <3>2, InRange
    <3>4. (InitBalance + Received(n) - Sent(n))' = y + tx.amount
      BY <1>0, <2>5, <2>6, <2>7, <3>2
    <3>5. BalanceOf(ledger'[n], Addr[n]) = (x + tx.amount) % U64
      BY <2>1
    <3> HIDE DEF x, y
    <3>6. (x + tx.amount) % U64 = (y + tx.amount) % U64
      BY <2>5, <3>3, ModAdd, U64Assumption
    <3>7. BalanceOf(ledger'[n], Addr[n]) = (InitBalance + Received(n) - Sent(n))' % U64
      BY <3>4, <3>5, <3>6
    <3>8. QED BY <3>7
  <2>9. IsFiniteSet(DOMAIN credits')
    BY <1>0, <2>1, FS_AddElement
  <2>10. QED BY <2>4, <2>8, <2>9 DEF Audit, OwnBalanceAudit
<1>5. ASSUME NEW n \in Nodes, NEW tx \in Tx, Gossiped(n, tx) PROVE Audit'
  <2>1. CASE tx.to = Addr[n]
    BY <1>4, <1>5, <2>1 DEF Gossiped, Paths
  <2>2. CASE tx.to # Addr[n]
    BY <1>1, <1>5, <2>2 DEF Gossiped
  <2>3. QED BY <2>1, <2>2
<1>6. ASSUME NEW n \in Nodes, NEW tx \in Tx, NEW q \in requests, Requested(n, q, tx)
      PROVE  Audit'
  <2>1. CASE tx.to = Addr[n]
    BY <1>4, <1>6, <2>1 DEF Requested, Paths
  <2>2. CASE tx.to # Addr[n]
    BY <1>1, <1>6, <2>2 DEF Requested
  <2>3. QED BY <2>1, <2>2
<1>7. ASSUME NEW n \in Nodes, NEW tx \in Tx, Foreign(n, tx) PROVE Audit'
  BY <1>4, <1>7 DEF Foreign, Paths
<1>8. CASE Quiet
  BY <1>1, <1>8 DEF Quiet
<1>9. QED BY <1>0, <1>2, <1>3, <1>5, <1>6, <1>7, <1>8, StepCases

\* At every moment a node's balance is what its run started with, plus what it
\* credited, minus what it sent, up to the balance width: no path of a transaction
\* through the handlers changes the ledger without its entry in the history.
THEOREM BalanceAudited == Spec => []OwnBalanceAudit
<1>1. Spec => [](NodeInv /\ Audit)
  BY InitNodeInv, NextNodeInv, InitAudit, NextAudit, PTL DEF Spec
<1>2. Audit => OwnBalanceAudit
  BY DEF Audit
<1>3. QED BY <1>1, <1>2, PTL
=============================================================================
