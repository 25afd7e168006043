----------------------------- MODULE ZyphraNode -----------------------------
(***************************************************************************)
(* The zyphra node (zyphra/src/main.rs): its event loop, and what nodes do  *)
(* to each other's ledgers through direct transfer requests, responses and  *)
(* GossipSub.  The loop handles one stdin line or swarm event at a time, so  *)
(* each handler is one step; the ledger is used by this loop only.          *)
(*                                                                         *)
(* The network is external: a direct request is delivered at most once or   *)
(* fails, a gossiped transaction reaches any node any number of times, in   *)
(* any order, or never.  A restarted program keeps its wallet (--secret-key) *)
(* and nothing else: its PeerId, ledger and cache are new.                  *)
(***************************************************************************)
EXTENDS Accounts, Transaction, Integers, FiniteSets, Functions

CONSTANTS
    Nodes,          \* the nodes, each named by the signing key of its wallet
    Strangers,      \* wallets, and peers, that run some other program
    NoHash,         \* the empty tx_hash
    InitBalance,    \* cli.balance
    Amounts,        \* amounts typed at the prompt
    Payees,         \* the wallets whose addresses are typed at the prompt
    Nonces,         \* the nonces that occur under the bounds
    MaxTx,          \* bound: transactions issued
    MaxRestarts,    \* bound: restarts of all nodes
    Lossy,          \* whether direct requests and responses may fail
    MaxCredits      \* bound: credits after which strangers send nothing more

ASSUME NodesAssumption == IsFiniteSet(Nodes) /\ Strangers \cap Nodes = {}
ASSUME InputAssumption ==
    /\ InitBalance \in 0 .. (U64 - 1) /\ Amounts \subseteq 0 .. (U64 - 1)
    /\ Payees \subseteq Nodes \cup Strangers
ASSUME BoundsAssumption ==
    /\ MaxRestarts \in Nat /\ MaxTx \in Nat \ {0}
    /\ Nonces \subseteq Nat /\ 0 .. (MaxTx - 1) \subseteq Nonces

Runs == 0 .. MaxRestarts

\* A PeerId belongs to one run of one node: main() generates it afresh.
Peer == [node : Nodes, run : Runs]

Keys == Nodes \cup Strangers
Addr == [k \in Keys |-> WalletOf(k).address]
Address == {Addr[k] : k \in Keys}

\* The transactions that verify.  The timestamp says in which run of the sender a
\* node made one.
Tx == {Create(WalletOf(k), to, amount, nonce, timestamp) :
          k \in Keys, to \in Address, amount \in Amounts, nonce \in Nonces,
          timestamp \in Runs}

\* What Garbled, InvalidKey and Error stand for is no item of a transaction, no key
\* and no transaction.
ASSUME SymbolsAssumption ==
    \A tx \in Tx : /\ tx # Error /\ tx.pubkey # InvalidKey
                   /\ \A i \in 1 .. 7 : ToRlp(tx)[i] # Garbled

\* Their encodings; a hash is symbolic, so these are their hashes too.
TxRlp == {ToRlp(tx) : tx \in Tx}

\* What TransferRequest and TransferResponse carry, and between which peers.
RequestMessage == [from : Peer, to : Peer, tx_rlp : TxRlp]
ResponseMessage ==
    [from : Peer, to : Peer, accepted : BOOLEAN,
     reason : {"", "verification", "address", "decode"},
     tx_hash : TxRlp \cup {NoHash}]

VARIABLES
    run,             \* per node, which run of its program this is
    ledger,          \* per node, its account map
    tx_cache,        \* per node, the hashes of the transactions it has processed
    connected_peers, \* per node, the peers it sends direct requests to
    requests,        \* direct requests in flight
    responses,       \* responses in flight
    issued,          \* history: transactions debited from their sender's ledger
    credits          \* history: how often a peer credited a transaction, by path

vars == <<run, ledger, tx_cache, connected_peers, requests, responses, issued,
          credits>>

Me(n) == [node |-> n, run |-> run[n]]

\* How a transaction reaches a node: over the mesh, in the request of the node that
\* made it, or in the request of a stranger.
Paths == {"gossip", "direct", "foreign"}

CreditKey == [peer : Peer, tx : Tx, via : Paths]
Count(p, tx, via) ==
    LET k == [peer |-> p, tx |-> tx, via |-> via]
    IN  IF k \in DOMAIN credits THEN credits[k] ELSE 0

TypeOK ==
    /\ run \in [Nodes -> Runs]
    /\ DOMAIN ledger = Nodes
    /\ \A n \in Nodes : /\ DOMAIN ledger[n] \subseteq Address
                        /\ \A a \in DOMAIN ledger[n] : ledger[n][a] \in AccountState
                        /\ Addr[n] \in DOMAIN ledger[n]
    /\ tx_cache \in [Nodes -> SUBSET TxRlp]
    /\ connected_peers \in [Nodes -> SUBSET Peer]
    /\ requests \subseteq RequestMessage
    /\ responses \subseteq ResponseMessage
    /\ issued \subseteq Tx
    /\ DOMAIN credits \subseteq CreditKey
    /\ \A k \in DOMAIN credits : credits[k] \in Nat \ {0}

-----------------------------------------------------------------------------
(* What arrives (external).                                                *)

\* What the nodes have sent, which the mesh and every peer of theirs may deliver.
Seen == {ToRlp(tx) : tx \in issued}

\* A list with an item after the seventh.
Padded(items) == Append(items, Garbled)

\* A transaction to n in the name of k's wallet, signed with the key s.
SignedBy(s, k, n, amount) ==
    ToRlp(Create([signing_key |-> s, address |-> Addr[k]], Addr[n], amount, 0, 0))

\* What a peer s that runs another program sends node n: transactions it signed, in
\* its own name (they are as good as a node's) or in another's, lists with an item
\* that is no key, of the wrong size or missing, and what nodes sent before: as it
\* was, with an item more or with another recipient.
StrangerData(s, n) ==
    LET signed == {SignedBy(s, k, n, amount) : k \in Keys, amount \in Amounts}
        own == {SignedBy(s, s, n, amount) : amount \in Amounts}
    IN  {<<>>} \cup signed
               \cup {[d EXCEPT ![6] = InvalidKey] : d \in own}
               \cup {[d EXCEPT ![7] = Garbled] : d \in own}
               \cup Seen \cup {Padded(d) : d \in Seen}
               \cup {[d EXCEPT ![2] = Addr[n]] : d \in Seen}

-----------------------------------------------------------------------------
(* Start.                                                                  *)

\* Mutant of FreshLedger: the own address is not registered.
UnregisteredLedger(n) == EmptyLedger

\* Ledger::new and register of the wallet's own address.
FreshLedger(n) == WithRegistered(EmptyLedger, Addr[n], InitBalance)

Init == /\ run = [n \in Nodes |-> 0]
        /\ ledger = [n \in Nodes |-> FreshLedger(n)]
        /\ tx_cache = [n \in Nodes |-> {}]
        /\ connected_peers = [n \in Nodes |-> {}]
        /\ requests = {} /\ responses = {}
        /\ issued = {}
        /\ credits = [k \in {} |-> 0]

\* The process ends and is started again with the same --secret-key.
Restart(n) ==
    /\ SumFunction(run) < MaxRestarts
    /\ run' = [run EXCEPT ![n] = @ + 1]
    /\ ledger' = [ledger EXCEPT ![n] = FreshLedger(n)]
    /\ tx_cache' = [tx_cache EXCEPT ![n] = {}]
    /\ connected_peers' = [connected_peers EXCEPT ![n] = {}]
    /\ UNCHANGED <<requests, responses, issued, credits>>

-----------------------------------------------------------------------------
(* Connections.                                                            *)

ConnectionEstablished(n, p) ==
    /\ p.node # n /\ p = Me(p.node)
    /\ connected_peers' = [connected_peers EXCEPT ![n] = @ \cup {p}]
    /\ UNCHANGED <<run, ledger, tx_cache, requests, responses, issued, credits>>

ConnectionClosed(n, p) ==
    /\ p \in connected_peers[n]
    /\ connected_peers' = [connected_peers EXCEPT ![n] = @ \ {p}]
    /\ UNCHANGED <<run, ledger, tx_cache, requests, responses, issued, credits>>

-----------------------------------------------------------------------------
(* The send command.                                                       *)

\* The ledger's current nonce goes into the transaction and into transfer.
NewTx(n, to, amount) ==
    Create(WalletOf(n), to, amount, NonceOf(ledger[n], Addr[n]), run[n])

\* A transfer the ledger rejects ends the command without effect.  Otherwise
\* the sender is debited, the transaction cached and sent to every peer in
\* connected_peers and to the topic (a publish that fails reaches nobody).
Send(n, to, amount) ==
    LET tx == NewTx(n, to, amount)
    IN  /\ Cardinality(issued) < MaxTx
        /\ Verify(tx)
        /\ TransferOk(ledger[n], tx)
        /\ ledger' = [ledger EXCEPT ![n] = WithTransfer(@, tx)]
        /\ tx_cache' = [tx_cache EXCEPT ![n] = @ \cup {Hash(tx)}]
        /\ requests' = requests \cup
              {[from |-> Me(n), to |-> p, tx_rlp |-> ToRlp(tx)] : p \in connected_peers[n]}
        /\ issued' = issued \cup {tx}
        /\ UNCHANGED <<run, connected_peers, responses, credits>>

-----------------------------------------------------------------------------
(* Incoming messages.                                                      *)

\* ledger.credit of the node's own account, with the history of credits.
CreditOwn(n, tx, via) ==
    LET k == [peer |-> Me(n), tx |-> tx, via |-> via]
    IN  /\ ledger' = [ledger EXCEPT ![n] = WithCredit(@, tx.to, tx.amount)]
        /\ credits' = Put(credits, k, Count(Me(n), tx, via) + 1)

\* Mutant of TxHash: the bytes that arrived are hashed.
HashOfBytes(data) == data

\* The id by which a decoded message is cached.
TxHash(data) == Hash(FromRlp(data))

\* The message decodes, is not cached and verifies.
FreshGossip(n, data) ==
    /\ FromRlp(data) # Error
    /\ TxHash(data) \notin tx_cache[n]
    /\ Verify(FromRlp(data))

\* A fresh message is cached, and credited if it is addressed to this wallet.
GossipMessage(n, data) ==
    LET tx == FromRlp(data)
    IN  /\ FreshGossip(n, data)
        /\ IF tx.to = Addr[n] THEN CreditOwn(n, tx, "gossip")
                              ELSE UNCHANGED <<ledger, credits>>
        /\ tx_cache' = [tx_cache EXCEPT ![n] = @ \cup {TxHash(data)}]
        /\ UNCHANGED <<run, connected_peers, requests, responses, issued>>

\* Every other message is logged and dropped.
IgnoredGossip(n, data) == ~FreshGossip(n, data) /\ UNCHANGED vars

\* Mutant of Reason: the wrong address of the transaction is compared.
ReasonBySender(n, data) ==
    IF FromRlp(data) # Error /\ FromRlp(data).from = Addr[n] THEN "" ELSE "address"

\* Why a direct request is rejected; empty if it is accepted.  The cache is not
\* consulted.
Reason(n, data) ==
    LET tx == FromRlp(data)
    IN  IF tx = Error THEN "decode"
        ELSE IF ~Verify(tx) THEN "verification"
        ELSE IF tx.to # Addr[n] THEN "address" ELSE ""

\* Mutant of AcceptTransfer: the transaction is not cached.
AcceptUncached(n, data, via) ==
    /\ CreditOwn(n, FromRlp(data), via)
    /\ UNCHANGED tx_cache

AcceptTransfer(n, data, via) ==
    /\ CreditOwn(n, FromRlp(data), via)
    /\ tx_cache' = [tx_cache EXCEPT ![n] = @ \cup {TxHash(data)}]

\* What a direct request does to the node, whoever sent it.
AnswerRequest(n, data, via) ==
    IF Reason(n, data) = "" THEN AcceptTransfer(n, data, via)
                            ELSE UNCHANGED <<ledger, tx_cache, credits>>

Response(n, q) ==
    [from |-> Me(n), to |-> q.from, accepted |-> Reason(n, q.tx_rlp) = "",
     reason |-> Reason(n, q.tx_rlp),
     tx_hash |-> IF FromRlp(q.tx_rlp) = Error THEN NoHash ELSE TxHash(q.tx_rlp)]

TransferRequest(n, q) ==
    /\ q \in requests
    /\ q.to = Me(n)
    /\ AnswerRequest(n, q.tx_rlp, "direct")
    /\ requests' = requests \ {q}
    /\ responses' = responses \cup {Response(n, q)}
    /\ UNCHANGED <<run, connected_peers, issued>>

\* A request a stranger sends; the response to it leaves the model.
ForeignRequest(n, data) ==
    /\ AnswerRequest(n, data, "foreign")
    /\ UNCHANGED <<run, connected_peers, requests, responses, issued>>

\* A response is printed, whatever it says.
TransferResponse(n, r) ==
    /\ r \in responses
    /\ r.to = Me(n)
    /\ responses' = responses \ {r}
    /\ UNCHANGED <<run, ledger, tx_cache, connected_peers, requests,
                   issued, credits>>

\* OutboundFailure (the timeout of 30 s included) and InboundFailure fall into
\* `_ => {}`: nobody resends.
RequestFails(q) ==
    /\ q \in requests
    /\ Lossy
    /\ requests' = requests \ {q}
    /\ UNCHANGED <<run, ledger, tx_cache, connected_peers, responses, issued, credits>>

\* send_response fails, or the response is lost: the credit stays.
ResponseFails(r) ==
    /\ r \in responses
    /\ Lossy
    /\ responses' = responses \ {r}
    /\ UNCHANGED <<run, ledger, tx_cache, connected_peers, requests, issued, credits>>

-----------------------------------------------------------------------------
Handle(n) == \/ \E q \in requests : TransferRequest(n, q)
             \/ \E r \in responses : TransferResponse(n, r)

Next == \/ \E n \in Nodes :
              \/ Restart(n)
              \/ \E p \in Peer : ConnectionEstablished(n, p) \/ ConnectionClosed(n, p)
              \/ \E k \in Payees, amount \in Amounts : Send(n, Addr[k], amount)
              \/ \E data \in Seen : GossipMessage(n, data) \/ IgnoredGossip(n, data)
              \/ /\ SumFunction(credits) < MaxCredits
                 /\ \E s \in Strangers : \E data \in StrangerData(s, n) :
                       \/ GossipMessage(n, data) \/ IgnoredGossip(n, data)
                       \/ ForeignRequest(n, data)
              \/ Handle(n)
        \/ \E q \in requests : RequestFails(q)
        \/ \E r \in responses : ResponseFails(r)

Spec == Init /\ [][Next]_vars

\* The event loop polls the swarm for as long as the process lives, and a
\* request that does not fail arrives.
FairSpec == Spec /\ \A n \in Nodes : WF_vars(Handle(n))

-----------------------------------------------------------------------------
(* Safety.                                                                 *)

\* Whatever arrives, on whichever path, a wallet is credited only with what is
\* addressed to it and was signed by the wallet it is from; if that wallet is a
\* node's, the node has issued the transaction, and debited it from its own ledger.
\* (Other wallets are debited nowhere: verify asks only who signed.)
Genuine(tx) == tx \in issued \/ \A m \in Nodes : tx.from # Addr[m]
CreditOnlyIssued ==
    \A k \in DOMAIN credits : Genuine(k.tx) /\ k.tx.to = Addr[k.peer.node]

\* One run of a node credits a transaction at most once by gossip, however often and
\* in whatever encoding peers deliver it, and at most once by the requests of the
\* node that made it.  Of the requests of other peers nothing of the kind holds: the
\* handler does not look into tx_cache, so each of them is credited (main.rs:534).
AtMostOncePerPath == \A k \in DOMAIN credits : k.via # "foreign" => credits[k] <= 1

\* A gossiped transaction is never credited by a run that has credited it
\* before, on any path: the tx_cache stops it (main.rs:470).
GossipCreditStep ==
    \A k \in DOMAIN credits' :
        k.via = "gossip" /\ credits'[k] # Count(k.peer, k.tx, "gossip") =>
            \A via \in Paths : Count(k.peer, k.tx, via) = 0
GossipNeverRepeats == [][GossipCreditStep]_vars

\* A confirmation tells the truth, losses, restarts and other deliveries of the
\* transaction notwithstanding: the peer that accepted did credit the transaction,
\* and a peer that rejected it never credits it on any path.
ResponsesTruthful ==
    \A r \in responses :
        LET tx == FromRlp(r.tx_hash)
        IN  IF r.accepted THEN Count(r.from, tx, "direct") > 0
            ELSE \A via \in Paths : Count(r.from, tx, via) = 0

\* Within one run a sender uses the nonces 0, 1, 2, ..., each for one
\* transaction, and incoming credits never disturb the count.
IssuedInRun(n, i) == {tx \in issued : tx.from = Addr[n] /\ tx.timestamp = i}
NoncesOfRun ==
    \A n \in Nodes :
        /\ NonceOf(ledger[n], Addr[n]) = Cardinality(IssuedInRun(n, run[n]))
        /\ \A i \in Runs : \A tx1, tx2 \in IssuedInRun(n, i) :
              tx1.nonce = tx2.nonce => tx1 = tx2

\* What a node's own balance must be: what it started with, plus what it
\* credited, minus what it sent, in this run (modulo the balance width).
CreditedBy(p) == {k \in DOMAIN credits : k.peer = p}
Received(n) == SumFunction([k \in CreditedBy(Me(n)) |-> k.tx.amount * credits[k]])
Sent(n) == SumFunction([tx \in IssuedInRun(n, run[n]) |-> tx.amount])
OwnBalanceAudit ==
    \A n \in Nodes :
        BalanceOf(ledger[n], Addr[n]) = (InitBalance + Received(n) - Sent(n)) % U64

-----------------------------------------------------------------------------
(* What the documentation says.                                            *)

\* main.rs:88: the cache holds the "transaction hashes we have already
\* processed"; zyphra/README.md:263: "Message deduplication prevents replay",
\* :272: "Nonce-based replay protection".  So one run credits a transaction at
\* most once.  It does not: the handler of direct requests adds to the cache and
\* never looks into it, so a request after gossip, and every further request with
\* the same transaction, is credited again.
CreditedOnce ==
    \A k1, k2 \in DOMAIN credits : k1.peer = k2.peer /\ k1.tx = k2.tx =>
        k1 = k2 /\ credits[k1] = 1

\* main.rs:347-348: "Reliable delivery [...] This guarantees delivery": a
\* direct request to the recipient ends in a credit.
Addressed(tx) == \E q \in requests : q.tx_rlp = ToRlp(tx) /\ Addr[q.to.node] = tx.to
Credited(tx) == \E k \in DOMAIN credits : k.tx = tx /\ Addr[k.peer.node] = tx.to
Payments == {tx \in Tx : tx.from # tx.to}
DeliveryGuaranteed == \A tx \in Payments : Addressed(tx) ~> Credited(tx)
=============================================================================
