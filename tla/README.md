# A TLA+ model of the ECDH secure key exchange and of Zyphra

The repository holds two systems. `zyphra/` is a peer-to-peer node in Rust that
keeps a local ledger and exchanges signed transfers over libp2p.
`secure_transfer.cpp` is a pair of C++ processes that agree on a session key over
a Unix socket and transfer one encrypted message; `crypto_core.cpp` demonstrates
the cryptography. This directory models the parts that have state, checks them
with TLC on small instances, and proves their safety properties with TLAPS for
every value of the parameters.

## Inventory

| Component | State | Operations | Interacts through | What is hard |
|---|---|---|---|---|
| Ledger (`zyphra/src/ledger.rs`) | account map (DashMap), `transfer_lock` | `register`, `credit`, `transfer`, `balance`, `nonce`, `snapshot` | shared by reference between threads | a transfer is several lock acquisitions; two locking levels; u64 width |
| Node (`zyphra/src/main.rs`) | wallet, ledger, `tx_cache`, `connected_peers`, `stdin_open` | startup; `send` and the read-only commands; gossip, request, response, connection, Identify, mDNS events | GossipSub, request-response, stdin | startup that fails halfway; the same transfer arrives twice, late, re-encoded, out of order or never; events handled after their connection is gone; restarts |
| Transactions (`transaction.rs`) | immutable | `create`, `verify`, `hash`, RLP | values in messages | binding of key, address and content; one transaction, many encodings |
| Wallet (`wallet.rs`) | signing key, address | `generate`, `from_secret_bytes`, `address_hex`, `address_from_hex`, `sign`, `verify` | values | bad keys and addresses must fail, not turn into others |
| Network behaviour (`network.rs`) | Kademlia, GossipSub, transfer, Identify, mDNS | `build_behaviour` | events to the node | five steps that can fail |
| Receiver (`secure_transfer.cpp`) | server socket, socket path, key pair | `start`, `handleClient`, destructor | Unix socket, file system | processes that overlap, die, or wait for each other |
| Sender (`secure_transfer.cpp`) | socket, retries, key pair | `send`, `performSecureTransfer` | Unix socket | retry boundary, full backlog |
| Framing (`Utils::sendData/receiveData`) | offsets, stream | send and receive loops | byte stream | partial reads and writes, death in mid-frame |
| AES-GCM / ECC wrappers | none between calls | encrypt, decrypt, derive | OpenSSL | library cryptography |
| `crypto_core.cpp`, Kubernetes, Compose, Makefile, scripts | none | demo, configuration | | rolling updates make receivers overlap |

What makes each part correct:

* **Ledger**: a nonce is debited once and in order; money is neither created nor
  lost; transfers look atomic to other writers; no call blocks for good.
* **Node**: credits in a node's name only for what it issued; a transaction is credited once;
  a confirmation is true; nonces and balance of a run add up; a request that
  arrives ends in a credit.
* **Process**: the loop runs only with what its handlers rely on; a given secret
  key is used or the process ends; what `send` believes to be connected is
  connected; a send is refused only for the user's reasons; what the prompt reports
  is true.
* **Secure transfer**: a session has one sender and one receiver with the same
  key; "complete" means received; nobody waits for good; the path names the
  receiver that listens.
* **Framing**: frames arrive whole, unchanged and in order, or the call fails.

`PROJECT.json` lists the hazards with the source line where each one bites.

## Modules

**`Accounts`** holds the account map and the updates of one entry as operators.
A DashMap is a function whose domain is the set of keys present. Balances wrap
modulo `U64`, as a release build does (`Cargo.toml` leaves overflow checks off).
`Ledger`, `ZyphraNode` and `NodeProcess` share it.

**`AbstractLedger`** is what `ledger.rs` promises: `register`, `credit` and
`transfer` as indivisible steps on natural-number balances.

**`Ledger`** is `ledger.rs` as several threads use it. A call is split at its lock
acquisitions. `transfer` is `Transfer` (pre-checks), `TakeTransferLock`, `GetMut`,
`Reject` or `Debit` (which ends with `drop(sender)`), and `CreditReceiver`.
`snapshot` reads one shard per step. `register` and `credit` are one step because
the DashMap entry holds the shard throughout. `shard_lock` is held across steps
only by the `RefMut` of `get_mut`. `minted`, `debits` and the `before`/`after`
fields of a snapshot are history. The node uses the ledger from a single event
loop; the module checks the wider contract of the type, which is `Clone` over
`Arc` and documented as thread-safe.

**`LedgerProofs`** and **`ConservationProofs`** have the theorems about `Ledger`;
**`SumProofs`** has what all proofs share about sums over finite sets and about
remainders.

**`Wallet`** and **`Transaction`** are `wallet.rs` and `transaction.rs` as operators.
Ed25519, SHA-256 and Keccak-256 are external and symbolic: a public key names its
signing key, an address its public key, a signature the key and the message, a
digest the list it was computed over. A hex text keeps what the parsers tell apart:
the `0x` prefix, whether the rest is hex, its length in bytes and its value. So
`address_from_hex` takes what `address_hex` prints, while `--secret-key`, which is
decoded without stripping a prefix, does not. An RLP list is a sequence of items;
`FromRlp` reads the first seven and ignores the rest, as `decode` does with
`val_at`, and `Hash` is over the transaction's own encoding, so a padded list is the
same transaction. Neither module has variables.

**`ZyphraNode`** composes nodes. A handler runs to completion inside
`tokio::select!`, so each is one action: `Send`, `GossipMessage`, `IgnoredGossip`,
`TransferRequest`, `ForeignRequest`, `TransferResponse`, `ConnectionEstablished`,
`ConnectionClosed`. `RequestFails` is a libp2p failure event, which the code
ignores; `ResponseFails` is a response lost after the credit; `Restart` is a new
process with the same `--secret-key`, a new PeerId and an empty cache. `timestamp`
is reduced to the run a transaction was made in.

GossipSub is external. A published transaction may reach any node at any later time,
any number of times, or never, so a failed publish needs no action of its own:
`Seen`, the encodings of what nodes have issued, is what the mesh and every peer may
deliver. `Strangers` run other programs. `StrangerData` is what one of them may send a
node, both as gossip and as a direct request: transactions it signed, in its own name
or in a node's; lists that are too short, with an item of the wrong size or with bytes
that are no Ed25519 key; and what it has seen, as it was, with an item appended or with
another recipient. Three consequences of the code show in the model. `verify` does not
look at the sender's funds (its comment says so), so a transaction from a stranger's own
wallet is credited although it was debited nowhere; that a credit was debited somewhere
holds only of transactions from wallets of nodes that run this program. A transaction
seen is accepted from anybody. And the request handler credits each request that
carries a valid transaction to this wallet, again and again, because it does not look
into `tx_cache`. The history `credits` therefore counts credits by path: gossip, the
request of the node that made the transaction (`direct`), and requests of other peers
(`foreign`).

**`ZyphraNodeProofs`** has the theorems about `ZyphraNode`.

**`NodeProcess`** is one process from `main()` on. `stage` says how far it has come:
`StartWallet`, `BuildSwarm`, `Listen`, `Dial` and `EnterLoop` are the start, and each
`?` or `expect` on the way ends it. In the loop, `Stdin` is a typed line (`Send`,
`RefuseSend`, `Show`, `Blank`) or `EndOfInput`, `ConnectionEstablished` and
`ConnectionClosed` are connection events, `Logged` the ones that are only logged, and
`HandleEvent` has one disjunct per arm of `handle_behaviour_event`. Behaviours `Raise`
an event first and the loop handles it later, so that connections may come and go in
between. `behaviour` holds what the program sets or reads of the libp2p behaviours;
`conns` counts the swarm's connections to a peer, several of which may exist because
both sides dial. What a received transfer brings the own account is an input here:
deciding it, with the `tx_cache`, is what `ZyphraNode` models. `sends` and `handed`
are history.

**`NodeProcessProofs`** has the theorems about `NodeProcess`.

**`SecureTransfer`** has any number of receiver and sender processes at one
socket path. Receiver: `StartReceiver`, `UnlinkOld`, `Bind`, `Listen`, `Accept`,
`SendOwnKey`, `ReceivePeerKey`, `ReceiveData`, `CloseSocket`, `UnlinkPath`;
`StartFails` is an error of `socket`, `bind`, `listen` or `accept`.
Sender: `StartSender`, `Connect` or `ConnectFails`, `ReceiveServerKey`, `SendKey`,
`SendMessage`. Cryptography is symbolic: a public key is its owner, the ECDH
secret is the unordered pair of owners, and AES-GCM opens with the key that
sealed. The kernel is external and modelled after Linux: `unlink` and `bind` act
on the name only, a queue holds `Backlog + 1` connections, `connect` to a full
queue waits, closing a listening socket resets the queue, and a write to a closed
peer kills the writer by SIGPIPE (as process 1 of a container it would get an
error and unwind instead, which is the destructor path).

**`SecureTransferProofs`** has the theorems about `SecureTransfer`.

**`Framing`** is `sendData` and `receiveData` byte by byte. The length prefix is
encoded in `LenBytes` digits of base `Base` and decoded again. It is the reason
why `SecureTransfer` may treat a frame as one step. **`FramingProofs`** has the
theorems about it.

`MCLedger`, `MCZyphraNode` and `MCNodeProcess` add the shard assignment, symmetry
sets, command lines and prompt lines; the other modules are checked directly.

## Runs

| Run | Shows |
|---|---|
| `ledger` | `TypeOK`, `LockDiscipline`, `NonceSequence`, `Conservation`, `NonceMonotone` for two threads of three calls each, two shards; `U64 = 4` and amounts up to 3, so balances wrap |
| `ledger_refines` | `RefinesAbstract` and `CallsReturn`; one shard, so that sender and receiver always collide; supply below `U64`, since the abstract ledger does not wrap |
| `ledger_snapshot` | violation of `AlwaysConsistent` |
| `node` | two nodes and a stranger, two transactions, one restart, requests and responses that may get lost: `CreditOnlyIssued`, `AtMostOncePerPath`, `NoncesOfRun`, `OwnBalanceAudit`, `ResponsesTruthful`, `GossipNeverRepeats` |
| `node_witness` | three nodes, so that one is neither sender nor recipient: `DeliveryGuaranteed` while no request is lost |
| `node_double_credit`, `node_delivery` | violations of `CreditedOnce`, `DeliveryGuaranteed` |
| `process` | one process with each kind of command line and prompt line, up to two connections to a peer and two transfers: `LoopIsReady`, `RestoredWallet`, `TrackedAreConnected`, `TrackedEverywhere`, `BootstrapFollows`, `OwnSendsAccepted`, `ReportTruthful` |
| `peer_tracking` | the same process; violation of `ConnectedAreTracked` |
| `transfer` | two receivers that may overlap, two senders, one kill, two connect attempts, a backlog that one sender fills: `SessionIntegrity`, `OnlyKilledLeaveFile`, `SendersEnd`, `ReceiversEnd`, `CompleteIsReceived` |
| `transfer_overlap` | violation of `SoleListenerReachable` |
| `framing` | all pairs of frames of up to 4 two-valued bytes, a 3-byte prefix, limit 3, buffer 6: `DeliveredPrefix`, `SentIsDelivered`, `BothEnd` |

Why the bounds are enough to meet the interesting cases: two threads suffice for
every pairwise race on the ledger, and the third call lets a thread act on the
result of the other's transfer; two shards let a snapshot fall between the halves
of a transfer. In `node`, two transactions of one sender can overtake each other,
and the restart may come between sending and delivery. `Payees` are the wallets
whose addresses are typed, here the two nodes. `MaxCredits = 2` stops the stranger
once two credits have been made: two is what it takes to credit a transaction twice,
on any two paths, and nodes go on delivering after that. `Lossy` lets every request and
every response fail. In `process`, one peer with two
connections is enough for tracking, since no handler relates two peers, and the
theorems below cover any number; `U64 = 3` lets a credit wrap the balance between
two transfers. In `framing`, 3 bytes is
exactly the limit and 4 exceeds it, and a whole frame fits the buffer, so the
writer can be done before the reader starts. `CHECK_DEADLOCK FALSE` is set where
processes really end: threads after their last call, programs after one transfer.

### What the violations say

* `ledger_snapshot`: `ledger.rs` says the ledger "is always consistent" because
  debit and credit share one write lock. Readers do not take that lock; a snapshot
  between the two halves shows less money than exists.
* `node_double_credit`: a transaction received by gossip and then by direct request
  is credited twice, because the request handler inserts into `tx_cache` without
  looking. The run has no strangers, to show that nodes that follow the program are
  enough: every transfer is sent both ways. With `Strangers = {s}` and
  `MaxCredits = 2` the same property fails without gossip, since each further request
  that carries the transaction is credited. In the other order gossip finds it in the
  cache, which `GossipNeverRepeats` confirms. `ledger.credit` ignores the nonce, so
  "Nonce-based replay protection" (`zyphra/README.md`, line 272) protects the
  sender's ledger and not the recipient's.
* `node_delivery`: "This guarantees delivery" does not survive one failed request,
  because `OutboundFailure` is ignored.
* `peer_tracking`: closing one of two connections to a peer drops it from
  `connected_peers`, so "ALL connected peers" no longer receive the transfer.
* `transfer_overlap`: a receiver that exits, or fails to bind, unlinks the path
  although it now names another receiver's socket. A rolling update with
  `maxSurge: 1` on a shared volume has two receivers at once.

### Fairness

`Ledger!FairSpec` lets a thread inside a call keep running; `parking_lot` and
DashMap locks are free infinitely often under the bounded number of calls, so weak
fairness of each thread is enough. `ZyphraNode!FairSpec` is weak fairness of
handling a delivered request or response: the event loop polls the swarm as long
as the process lives. Nothing forces gossip to arrive, users to type or peers to
connect. `NodeProcess` has no liveness property and assumes no fairness. In
`SecureTransfer` and `Framing` a started process takes a step it can take; starting,
failing system calls and dying are never forced. A receiver may wait in `accept` for
ever, so `ReceiversEnd` speaks of receivers that have a client.

## Proofs

Every invariant and every action property that a passing run checks is also a
theorem about all instances. The bounds on calls, transactions, restarts, credits,
connections, kills and frames are parameters of the theorems like the others, so the
theorems hold for any value of them. Each proof has the same shape: an inductive
invariant, a lemma that `Init` implies it, one lemma per kind of step, and the
property as a consequence. TLC finds no violation of any of the inductive invariants on
the instances of the runs.

**Sums.** `Conservation`, `OwnBalanceAudit` and the decoding of a length are sums
over a set, which the community modules define by a recursive function on subsets.
`SumProofs` shows that this recursion has a solution and only one, and from that
`SumInt`, `SumEmpty`, `SumInsert`, and what an update of one summand does. Induction is
`SetInduction`: a set of numbers that contains 0 and the successor of each of its
members contains every natural number. The set takes the place of the predicate that
the provers could not instantiate.

### Ledger

Assumed: `U64` is positive, `NoThread` is no thread, there are finitely many threads,
every address has a shard, amounts fit the balance type, nonces are naturals.

* `TypeCorrect` and `LocksHeld`: `Spec => []TypeOK` and `Spec => []LockDiscipline`.
  Neither is inductive alone. That `Debit` keeps the balance in range needs the
  sender to be present, which the locks guarantee; that the locks are held by the
  right calls needs the request to be well typed. The inductive invariant `IInv` is
  their conjunction, with one proof step per action.
* `NoncesInOrder`: `Spec => []NonceSequence`, from `IInv` and two lemmas: only
  `Debit` changes a nonce or the history (`SameNonces`), and it appends exactly the
  nonce the account expected (`DebitEffect`).
* `NoncesMonotone`: the action property `NonceMonotone`, from `IInv`.
* `MoneyConserved`: `Spec => []Conservation`. The invariant adds that there are
  finitely many accounts. A debit moves its amount from the sum of the balances to the
  sum of what is in flight, a credit moves it back modulo `U64`.
* `LedgerRefinesAbstract`: as long as no credit overflows (`NoOverflow`, an action
  hypothesis, because the promised ledger has unbounded balances), `Spec` implements
  `AbstractLedger`. The mapping undoes the debit of the transfer that has not
  credited yet; `Debit` is then a stutter and `CreditReceiver` the whole transfer.
  `EntryNonce`, that the pending sender's nonce is one past the request's, links
  the two halves.

### Nodes

Assumed: finitely many nodes, none of which is a stranger; amounts and the initial
balance fit the balance type; the nonces that occur under the bounds are naturals;
what stands for an undecodable item or an invalid key is not an item of a transaction.

The inductive invariant `NodeInv` has four parts.

* `Base`: the types, that what was issued is finite, `NoncesOfRun`, and that every
  nonce issued in a run lies below the account's (`NoncesBelow`). The last makes a new
  transaction differ from all earlier ones. `NodeTypes` and `NoncesUnique` follow.
* `Provenance`: what requests carry was issued, by the run a request comes from, and
  what was credited is `Genuine`, that is, issued if it is in the name of a node's wallet.
  `CreditsIssued` follows. What strangers send is covered by lemmas on `FromRlp` and
  `Verify`: an encoding of a transaction seen, padded or not, decodes to it (`RoundTrip`),
  so it was issued; what a stranger altered or signed verifies only in its own name
  (`StrangerGenuine`).
* `Once`: what a run credited is in its cache, and a request credited is no longer in
  flight. `CreditedOncePerPath` and the action property of `GossipCreditsOnce` follow.
  The first is about gossip and about the requests of the node that made the transaction;
  the requests of other peers are left out, because the code credits each of them.
  Nothing of the kind holds from gossip to request either, which is the double credit that
  `node_double_credit` shows.
* `Answered`: an accepted response has its credit, a rejected one is about a
  transaction that was not addressed to the answering wallet. `ConfirmationsTrue`
  follows with `Provenance`, since credits go to the addressee only.

`BalanceAudited` (`OwnBalanceAudit`) is proved on top of `NodeInv`: every handler
adds to the balance what it adds to the history, and a restart resets both.

### Process

Assumed: `U64` is positive, arriving amounts fit the balance type, `None` is no key and
no wallet, command lines are well formed, and an address argument of the right length
names an address.

* `Tracking` is the invariant behind `TrackedPeersConnected`, `TrackedPeersUsable` and
  `BootstrapStarts`: the three properties, the types of the state they speak of,
  and that no peer is tracked before the loop, without which `BuildSwarm` would empty
  the behaviours under a tracked peer.
* `Paying` is the one behind `ReportsTrue`. A report stays true only if no later transfer
  reuses its nonce, so `Paying` says that every nonce in the history lies below the own
  account's. Two lemmas about the ledger's operators carry it: `credit` keeps the
  nonce (`CreditKeepsNonce`), a transfer takes the next one (`TransferTakesNonce`).
* `Ready` says what `main()` has set up when it comes to a stage, that accounts are
  addresses with a balance in range, and that no report blames the process's own
  transfer. `ProcessTypes`, `LoopStartsReady`, `WalletAsAsked` and `OwnSendsGoThrough`
  follow from it with the other two. That the ledger accepts an own transfer needs all
  of them: the account is there, the nonce read is the one expected, the signature is
  by the wallet's own key.

### Secure transfer

Assumed: senders, receivers and `NoOne` are different, a sender has at least one
attempt. Symbolic cryptography is part of the model: the same unordered pair gives the
same key, and only the sealing key opens.

`TransferInv` follows a connection through its life: in the queue of the receiver it
reached, then with that receiver for good (`Connections`, `Accepted`); the streams of
an accepted connection hold exactly what one end has written and the other not read
(`ServerKeys`, `Streams`); an output belongs to a finished session (`Outputs`). From it,
`TransferTypes` and `OutputIsAuthentic`: a receiver and the sender
it accepted hold each other's key, although a second receiver may take over the path at
any point. `StaleFileMeansKill` is inductive with the types.

### Framing

Assumed: a byte has at least two values, the prefix at least one byte, there is a frame
to send, the buffer holds a prefix, and the length of a frame fits the prefix
(`MaxData < Weight[LenBytes]`, 4 GiB in the code). The sanity check `MaxFrame` is
arbitrary, so frames may exceed it.

* `DecodeEncode`: the length decoded from a prefix is the length encoded. Summing the
  first `i` digits gives the length modulo `Weight[i]`, by induction on `i`.
* `FramesArriveInOrder` (`DeliveredPrefix`) and `FramingTypes`, from `FramingInv`. It
  numbers the bytes of the whole transfer: frame `k` starts after byte `Start(k)`, the sum
  of the sizes before it, and `ByteAt` says which byte belongs at a position. As long as the
  reader is alive, the stream holds the bytes between the reader's and the writer's
  position. So a reader that expects a prefix reads a prefix, and what it takes for data
  is data of the same frame, at the same place in it.

### Only model-checked

Liveness under fairness is out of the prover's reach: `CallsReturn`,
`DeliveryGuaranteed` (in `node_witness`), `SendersEnd`, `ReceiversEnd`,
`CompleteIsReceived`, `SentIsDelivered` and `BothEnd` stay with TLC on the instances
above. So do the violations, which are about instances by nature.

## Not modelled

The bytes of RLP, hex, SHA-256, Keccak-256 and Ed25519, the OpenSSL call sequences
and the byte layout of an AES-GCM message, libp2p's own protocols with their
timeouts and size limits, logging and the wording of messages (`Display`, `Debug`),
the `crypto_core` demo, deployment files. Two comments that disagree with the code
and concern bytes only are noted here: `wallet.rs` line 7 says the address is the
first 20 bytes of the hash while `derive_address` takes the last 20; `transaction.rs`
lines 13-15 say the hash covers the unsigned fields only, which is true of the signed
digest, while `hash`, the id in the cache, covers the signature too.
That `select!` serves the swarm and the prompt alike is tokio's promise and left to it.
A short write of the 4-byte length prefix is left out: a blocking socket writes it whole
or fails. Frames of 4 GiB, whose length would not fit the prefix, cannot come from a command-line argument and are excluded by
`FramingAssumption`.

## Plan

1. Done: ledger with its abstract specification; wallet and transactions; nodes; the
   process; secure transfer; framing; and the proofs of all their safety properties.
2. `SecureTransfer` over `Framing`: an abstract one-message channel that both
   implement, so that the frame-at-once abstraction is a checked refinement; the AES
   payload layout (IV, ciphertext, tag) and its length check.
3. An abstract specification of what gossip alone does to a node, which credits each
   transaction once, and the gossip part of `ZyphraNode` shown to implement it.
4. Lemmas on `Wallet` and `Transaction` as theorems of their own: what `address_hex`
   prints is read back, what `encode` writes is decoded, and `verify` accepts what
   `create` made and nothing else in the same name.
