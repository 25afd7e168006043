-------------------------- MODULE NodeProcessProofs --------------------------
(***************************************************************************)
(* Proofs about one node process, for any set of peers, command lines, prompt *)
(* lines and arriving amounts.  Three inductive invariants: Tracking relates  *)
(* main's peer set to the swarm's connections and the behaviours; Paying       *)
(* builds on it and relates what was reported to what was handed over; Ready   *)
(* follows the start of the process and what its handlers rely on.           *)
(***************************************************************************)
EXTENDS NodeProcess, TLAPS

Tracking ==
    /\ conns \in [Peers -> Nat] /\ connected_peers \subseteq Peers
    /\ behaviour \in NodeBehaviour
    /\ event \in NodeEvent \cup {None}
    /\ stage # "loop" => connected_peers = {}
    /\ TrackedAreConnected
    /\ TrackedEverywhere
    /\ BootstrapFollows

\* The empty behaviours, before and after build_behaviour.
LEMMA EmptyBehaviour ==
  ASSUME NEW subscribed \in BOOLEAN
  PROVE  [kademlia |-> {}, bootstrapping |-> FALSE, gossipsub |-> {},
          subscribed |-> subscribed] \in NodeBehaviour
<1>1. {} \in SUBSET Peers /\ FALSE \in BOOLEAN
  OBVIOUS
<1>2. QED  BY <1>1, Zenon DEF NodeBehaviour

\* A step that leaves peers, connections, behaviours, events and stage alone.
LEMMA TrackingUnchanged ==
  ASSUME Tracking, UNCHANGED <<netVars, event, stage>>
  PROVE  Tracking'
BY DEF Tracking, netVars, TrackedAreConnected, TrackedEverywhere, BootstrapFollows

\* The steps of main() before the loop: no peer is tracked yet.
LEMMA StartTracking ==
  ASSUME Tracking,
         \/ \E k \in Keys : StartWallet(k)
         \/ \E ok \in BOOLEAN : Listen(ok) \/ \E p \in Peers : Dial(p, ok)
         \/ \E failing \in SUBSET Fallible : BuildSwarm(failing)
         \/ EnterLoop
  PROVE  Tracking'
<1> USE DEF Tracking, TrackedAreConnected, TrackedEverywhere, BootstrapFollows
<1>1. ASSUME NEW k \in Keys, StartWallet(k) PROVE Tracking'
  BY <1>1 DEF StartWallet, netVars
<1>2. ASSUME NEW ok \in BOOLEAN, Listen(ok) PROVE Tracking'
  BY <1>2 DEF Listen, netVars
<1>3. ASSUME NEW ok \in BOOLEAN, NEW p \in Peers, Dial(p, ok) PROVE Tracking'
  BY <1>3 DEF Dial, netVars
<1>4. ASSUME NEW failing \in SUBSET Fallible, BuildSwarm(failing) PROVE Tracking'
  <2>1. /\ stage = "swarm" /\ UNCHANGED <<conns, connected_peers, event>>
        /\ stage' # "loop"
        /\ behaviour' = behaviour \/ behaviour' = NewBehaviour
    BY <1>4 DEF BuildSwarm, BuildBehaviour
  <2>2. behaviour' \in NodeBehaviour
    BY <2>1, EmptyBehaviour DEF NewBehaviour
  <2>3. QED  BY <2>1, <2>2
<1>5. ASSUME EnterLoop PROVE Tracking'
  <2>1. connected_peers' = {} /\ UNCHANGED <<conns, event>>
    BY <1>5 DEF EnterLoop
  <2>2. behaviour' \in NodeBehaviour
    BY <1>5 DEF EnterLoop, Bootstrap, NodeBehaviour
  <2>3. QED  BY <2>1, <2>2
<1>6. QED  BY <1>1, <1>2, <1>3, <1>4, <1>5

\* A new connection: the peer enters all three views before bootstrap.
LEMMA EstablishedTracking ==
  ASSUME Tracking, NEW p \in Peers, ConnectionEstablished(p)
  PROVE  Tracking'
<1> USE DEF Tracking, TrackedAreConnected, TrackedEverywhere, BootstrapFollows
<1>1. /\ conns' = [conns EXCEPT ![p] = @ + 1]
      /\ connected_peers' = connected_peers \cup {p}
      /\ behaviour' = Learn(behaviour, p)
      /\ stage = "loop" /\ UNCHANGED <<event, stage>>
  BY DEF ConnectionEstablished, startVars
<1>2. /\ behaviour'.kademlia = behaviour.kademlia \cup {p}
      /\ behaviour'.gossipsub = behaviour.gossipsub \cup {p}
      /\ behaviour'.bootstrapping = TRUE
      /\ behaviour' \in NodeBehaviour
  BY <1>1 DEF Learn, Bootstrap, NodeBehaviour
<1>3. conns' \in [Peers -> Nat] /\ \A q \in Peers : conns[q] > 0 => conns'[q] > 0
  BY <1>1
<1>4. conns'[p] > 0
  BY <1>1
<1>5. QED  BY <1>1, <1>2, <1>3, <1>4

\* A closed connection: the peer leaves the set, whatever connections remain.
LEMMA ClosedTracking ==
  ASSUME Tracking, NEW p \in Peers, ConnectionClosed(p)
  PROVE  Tracking'
<1> USE DEF Tracking, TrackedAreConnected, TrackedEverywhere, BootstrapFollows
<1>1. /\ conns' = [conns EXCEPT ![p] = @ - 1] /\ conns[p] > 0
      /\ connected_peers' = connected_peers \ {p}
      /\ behaviour' = [behaviour EXCEPT !.gossipsub = @ \ {p}]
      /\ UNCHANGED <<event, stage>>
  BY DEF ConnectionClosed, Forget, startVars
<1>2. /\ behaviour'.kademlia = behaviour.kademlia
      /\ behaviour'.gossipsub = behaviour.gossipsub \ {p}
      /\ behaviour'.bootstrapping = behaviour.bootstrapping
      /\ behaviour' \in NodeBehaviour
  BY <1>1 DEF NodeBehaviour
<1>3. conns' \in [Peers -> Nat] /\ \A q \in Peers : q # p => conns'[q] = conns[q]
  BY <1>1
<1>4. QED  BY <1>1, <1>2, <1>3

\* Behaviour events only add peers to the views of GossipSub and Kademlia.
LEMMA EventTracking ==
  ASSUME Tracking, HandleEvent
  PROVE  Tracking'
<1> USE DEF Tracking, TrackedAreConnected, TrackedEverywhere, BootstrapFollows
<1>1. /\ event \in NodeEvent /\ event' = None
      /\ UNCHANGED stage
  BY DEF HandleEvent, startVars
<1>2. CASE Received \/ Response \/ Ignored
  BY <1>1, <1>2 DEF Received, Response, Ignored, netVars
<1>3. CASE Identified
  <2>1. event.peer \in Peers
    BY <1>1, <1>3 DEF Identified, NodeEvent
  <2>2. /\ behaviour' \in NodeBehaviour /\ UNCHANGED <<conns, connected_peers>>
        /\ behaviour.kademlia \subseteq behaviour'.kademlia
        /\ behaviour.gossipsub \subseteq behaviour'.gossipsub
        /\ behaviour'.bootstrapping = behaviour.bootstrapping
    BY <1>3, <2>1 DEF Identified, NodeBehaviour
  <2>3. QED  BY <1>1, <2>2
<1>4. CASE MdnsDiscovered
  <2>1. event.found \subseteq Peers
    BY <1>1, <1>4 DEF MdnsDiscovered, NodeEvent
  <2>2. /\ behaviour' \in NodeBehaviour /\ UNCHANGED <<conns, connected_peers>>
        /\ behaviour.kademlia \subseteq behaviour'.kademlia
        /\ behaviour.gossipsub \subseteq behaviour'.gossipsub
        /\ behaviour'.bootstrapping = behaviour.bootstrapping
    BY <1>4, <2>1 DEF MdnsDiscovered, NodeBehaviour
  <2>3. QED  BY <1>1, <2>2
<1>5. QED  BY <1>2, <1>3, <1>4 DEF HandleEvent

\* Every step of the process keeps the views consistent with the swarm.
LEMMA NextTracking == Tracking /\ [Next]_vars => Tracking'
<1> SUFFICES ASSUME Tracking, [Next]_vars PROVE Tracking'
  OBVIOUS
<1>1. ASSUME NEW e \in NodeEvent, Raise(e) PROVE Tracking'
  BY <1>1 DEF Raise, Tracking, netVars, startVars, TrackedAreConnected, TrackedEverywhere,
     BootstrapFollows
<1>2. ASSUME Stdin PROVE Tracking'
  <2>1. UNCHANGED <<netVars, event, stage>>
    BY <1>2 DEF Stdin, EndOfInput, RefuseSend, Send, Show, Blank, Say, vars, startVars
  <2>2. QED  BY <2>1, TrackingUnchanged
<1>3. CASE UNCHANGED vars
  BY <1>3, TrackingUnchanged DEF vars, startVars
<1>4. QED
  BY <1>1, <1>2, <1>3, StartTracking, EstablishedTracking, ClosedTracking, EventTracking
     DEF Next, Logged

\* Init establishes it.
LEMMA InitTracking == Init => Tracking
<1>1. Init => behaviour \in NodeBehaviour
  BY EmptyBehaviour DEF Init
<1>2. Init => /\ conns = [p \in Peers |-> 0] /\ connected_peers = {}
              /\ event = None
  BY Zenon DEF Init
<1>3. QED
  BY <1>1, <1>2 DEF Tracking, TrackedAreConnected, TrackedEverywhere, BootstrapFollows

\* However connections, Identify and mDNS events interleave, a peer the send
\* command addresses has a connection (main.rs:245-267).
THEOREM TrackedPeersConnected == Spec => []TrackedAreConnected
<1>1. Tracking => TrackedAreConnected
  BY DEF Tracking
<1>2. QED  BY <1>1, InitTracking, NextTracking, PTL DEF Spec

\* However they interleave, a tracked peer is an explicit GossipSub peer and in
\* Kademlia's routing table (main.rs:245-267).
THEOREM TrackedPeersUsable == Spec => []TrackedEverywhere
<1>1. Tracking => TrackedEverywhere
  BY DEF Tracking
<1>2. QED  BY <1>1, InitTracking, NextTracking, PTL DEF Spec

\* Once a peer is tracked, Kademlia's bootstrap has been started with a non-empty
\* routing table (main.rs:258-259).
THEOREM BootstrapStarts == Spec => []BootstrapFollows
<1>1. Tracking => BootstrapFollows
  BY DEF Tracking
<1>2. QED  BY <1>1, InitTracking, NextTracking, PTL DEF Spec

-----------------------------------------------------------------------------
(* Payments.                                                               *)

Started == {"swarm", "listen", "dial", "loop"}
OwnNonce == NonceOf(ledger, wallet.address)

\* Every nonce used so far lies below the own account's, so a new transfer never
\* shares its nonce with an old one.
Paying ==
    /\ stage # "loop" => sends = {} /\ handed = {}
    /\ stage \in Started => /\ wallet.address \in DOMAIN ledger
                            /\ ledger[wallet.address] \in AccountState
    /\ \A s \in sends : s.nonce \in Nat /\ s.nonce < OwnNonce
    /\ \A h \in handed : h \in Nat /\ h < OwnNonce
    /\ ReportTruthful

\* credit leaves the nonce alone.
LEMMA CreditKeepsNonce ==
  ASSUME NEW accts, NEW a \in DOMAIN accts, accts[a] \in AccountState,
         NEW amount \in 0 .. (U64 - 1)
  PROVE  /\ a \in DOMAIN WithCredit(accts, a, amount)
         /\ WithCredit(accts, a, amount)[a] \in AccountState
         /\ WithCredit(accts, a, amount)[a].nonce = accts[a].nonce
<1> DEFINE after == [accts[a] EXCEPT !.balance = (@ + amount) % U64]
<1>1. (accts[a].balance + amount) % U64 \in 0 .. (U64 - 1)
  BY U64Assumption DEF AccountState
<1>2. after \in AccountState /\ after.nonce = accts[a].nonce
  BY <1>1 DEF AccountState
<1>3. WithCredit(accts, a, amount) = Put(accts, a, after)
  BY DEF WithCredit
<1>4. /\ DOMAIN Put(accts, a, after) = DOMAIN accts \cup {a}
      /\ Put(accts, a, after)[a] = after
  BY DEF Put
<1>5. QED  BY <1>2, <1>3, <1>4

\* A transfer that passes the checks debits the sender and takes the next nonce.
LEMMA TransferTakesNonce ==
  ASSUME NEW accts, NEW r, TransferOk(accts, r), accts[r.from] \in AccountState,
         r.amount \in 0 .. (U64 - 1)
  PROVE  /\ r.from \in DOMAIN WithTransfer(accts, r)
         /\ WithTransfer(accts, r)[r.from] \in AccountState
         /\ WithTransfer(accts, r)[r.from].nonce = accts[r.from].nonce + 1
         /\ accts[r.from].nonce = r.nonce
<1> DEFINE debited == WithDebit(accts, r.from, r.amount)
<1>1. /\ r.from \in DOMAIN accts /\ r.from # r.to
      /\ accts[r.from].nonce = r.nonce /\ accts[r.from].balance >= r.amount
  BY DEF TransferOk, PreCheck, SenderValid
<1>2. [balance |-> accts[r.from].balance - r.amount,
       nonce |-> accts[r.from].nonce + 1] \in AccountState
  BY <1>1, U64Assumption DEF AccountState
<1>3. /\ r.from \in DOMAIN debited
      /\ debited[r.from] = [balance |-> accts[r.from].balance - r.amount,
                            nonce |-> accts[r.from].nonce + 1]
  BY <1>1 DEF WithDebit
<1>4. PICK st : WithTransfer(accts, r) = Put(debited, r.to, st)
  BY DEF WithTransfer, WithCredit
<1>5. r.from \in DOMAIN Put(debited, r.to, st)
      /\ Put(debited, r.to, st)[r.from] = debited[r.from]
  BY <1>1, <1>3 DEF Put
<1>6. QED  BY <1>1, <1>2, <1>3, <1>4, <1>5

\* A step that leaves the account, the history and the start alone.
LEMMA PayingUnchanged ==
  ASSUME Paying, UNCHANGED <<payVars, wallet, stage>>
  PROVE  Paying'
BY DEF Paying, payVars, OwnNonce, ReportTruthful

\* The steps of main(): nothing was sent yet, and the own account is registered.
LEMMA StartPaying ==
  ASSUME Paying, cli \in Clis,
         \/ \E k \in Keys : StartWallet(k)
         \/ \E ok \in BOOLEAN : Listen(ok) \/ \E p \in Peers : Dial(p, ok)
         \/ \E failing \in SUBSET Fallible : BuildSwarm(failing)
         \/ EnterLoop
  PROVE  Paying'
<1> USE DEF Paying, ReportTruthful, payVars
<1>1. ASSUME NEW k \in Keys, StartWallet(k) PROVE Paying'
  <2>1. sends' = {} /\ handed' = {} /\ stage' # "loop"
    BY <1>1 DEF StartWallet
  <2>2. stage' \in Started =>
            /\ ledger' = WithRegistered(EmptyLedger, wallet'.address, cli.balance)
            /\ cli.balance \in 0 .. (U64 - 1)
    BY <1>1, CliAssumption DEF StartWallet, Started, Cli
  <2>3. stage' \in Started => ledger' = Put(EmptyLedger, wallet'.address,
                                            NewAccount(cli.balance))
    BY <2>2 DEF WithRegistered, EmptyLedger
  <2>4. stage' \in Started => /\ wallet'.address \in DOMAIN ledger'
                              /\ ledger'[wallet'.address] = NewAccount(cli.balance)
    BY <2>3 DEF Put
  <2>5. QED  BY <2>1, <2>2, <2>4 DEF NewAccount, AccountState
<1>2. ASSUME UNCHANGED <<payVars, wallet>>, sends = {}, handed = {},
             stage \in Started PROVE Paying'
  BY <1>2 DEF OwnNonce
<1>3. ASSUME NEW ok \in BOOLEAN, Listen(ok) PROVE Paying'
  BY <1>2, <1>3 DEF Listen, Started
<1>4. ASSUME NEW ok \in BOOLEAN, NEW p \in Peers, Dial(p, ok) PROVE Paying'
  BY <1>2, <1>4 DEF Dial, Started
<1>5. ASSUME NEW failing \in SUBSET Fallible, BuildSwarm(failing) PROVE Paying'
  BY <1>2, <1>5 DEF BuildSwarm, Started
<1>6. ASSUME EnterLoop PROVE Paying'
  BY <1>2, <1>6 DEF EnterLoop, Started
<1>7. QED  BY <1>1, <1>3, <1>4, <1>5, <1>6

\* A received transfer changes the own balance, not the nonce.
LEMMA EventPaying ==
  ASSUME Tracking, Paying, HandleEvent
  PROVE  Paying'
<1>1. event \in NodeEvent /\ stage = "loop" /\ UNCHANGED <<stage, wallet>>
  BY DEF HandleEvent, startVars, Tracking
<1>2. CASE UNCHANGED payVars
  BY <1>1, <1>2, PayingUnchanged
<1>3. CASE Received /\ event.credit # 0
  <2>1. event.credit \in 0 .. (U64 - 1)
    BY <1>1, <1>3, ProcessAssumption DEF Received, NodeEvent
  <2>2. /\ ledger' = WithCredit(ledger, wallet.address, event.credit)
        /\ UNCHANGED <<sends, handed>>
    BY <1>3 DEF Received
  <2>3. wallet.address \in DOMAIN ledger /\ ledger[wallet.address] \in AccountState
    BY <1>1 DEF Paying, Started
  <2>4. /\ wallet.address \in DOMAIN ledger'
        /\ ledger'[wallet.address] \in AccountState
        /\ ledger'[wallet.address].nonce = ledger[wallet.address].nonce
    BY <2>1, <2>2, <2>3, CreditKeepsNonce
  <2>5. OwnNonce' = OwnNonce
    BY <1>1, <2>3, <2>4 DEF OwnNonce, NonceOf
  <2>6. QED  BY <1>1, <2>2, <2>4, <2>5 DEF Paying, ReportTruthful
<1>4. QED
  BY <1>2, <1>3 DEF HandleEvent, Received, Response, Identified, MdnsDiscovered, Ignored,
     payVars

\* A transfer: its report agrees with what the connected peers were given, and its
\* nonce is new.
LEMMA SendPaying ==
  ASSUME Tracking, Paying, stage = "loop", NEW parts \in Lines, NEW published \in BOOLEAN,
         Send(parts, published)
  PROVE  Paying'
<1> DEFINE tx == TxOf(parts)
           report == IF Delivered(published) THEN "sent" ELSE "saved"
           reached == published \/ \E p \in connected_peers : conns[p] > 0
<1>1. /\ ledger' = WithTransfer(ledger, tx)
      /\ handed' = IF reached THEN handed \cup {tx.nonce} ELSE handed
      /\ sends' = sends \cup {[nonce |-> tx.nonce, report |-> report]}
      /\ UNCHANGED <<stage, wallet>>
  BY DEF Send, startVars
<1>2. TransferOk(ledger, tx) /\ parts[3] \in 0 .. (U64 - 1)
  <2>1. SendError(parts) = ""
    BY DEF Send
  <2>2. TransferError(ledger, tx) # ""
    BY DEF TransferError
  <2>3. QED  BY <2>1, <2>2 DEF SendError, ParsesU64
<1>3. tx.from = wallet.address /\ tx.amount = parts[3] /\ tx.nonce = OwnNonce
  BY DEF TxOf, Create, SendNonce, OwnNonce
<1>4. wallet.address \in DOMAIN ledger /\ ledger[wallet.address] \in AccountState
  BY DEF Paying, Started
<1>5. /\ wallet.address \in DOMAIN ledger'
      /\ ledger'[wallet.address] \in AccountState
      /\ ledger'[wallet.address].nonce = OwnNonce + 1
      /\ OwnNonce \in Nat
  <2>1. OwnNonce = ledger[wallet.address].nonce /\ OwnNonce \in Nat
    BY <1>4 DEF OwnNonce, NonceOf, AccountState
  <2>2. QED  BY <1>1, <1>2, <1>3, <1>4, <2>1, TransferTakesNonce
<1>6. OwnNonce' = OwnNonce + 1
  BY <1>1, <1>5 DEF OwnNonce, NonceOf
<1>7. reached <=> Delivered(published)
  BY DEF Delivered, Tracking, TrackedAreConnected
<1>8. ReportTruthful'
  <2>1. ASSUME NEW s \in sends PROVE s.report = "sent" <=> s.nonce \in handed'
    BY <1>1, <1>3, <1>5 DEF Paying, ReportTruthful
  <2>2. report = "sent" <=> tx.nonce \in handed'
    BY <1>1, <1>3, <1>5, <1>7 DEF Paying
  <2>3. QED  BY <1>1, <2>1, <2>2 DEF ReportTruthful
<1>9. /\ \A s \in sends' : s.nonce \in Nat /\ s.nonce < OwnNonce'
      /\ \A h \in handed' : h \in Nat /\ h < OwnNonce'
  BY <1>1, <1>3, <1>5, <1>6 DEF Paying
<1>10. QED  BY <1>1, <1>5, <1>8, <1>9 DEF Paying

\* Every step of the process keeps reports true.
LEMMA NextPaying == Tracking /\ Paying /\ cli \in Clis /\ [Next]_vars => Paying'
<1> SUFFICES ASSUME Tracking, Paying, cli \in Clis, [Next]_vars PROVE Paying'
  OBVIOUS
<1>1. ASSUME NEW p \in Peers, ConnectionEstablished(p) \/ ConnectionClosed(p) PROVE Paying'
  BY <1>1, PayingUnchanged DEF ConnectionEstablished, ConnectionClosed, startVars
<1>2. ASSUME NEW e \in NodeEvent, Raise(e) PROVE Paying'
  BY <1>2, PayingUnchanged DEF Raise, startVars
<1>3. ASSUME Stdin PROVE Paying'
  <2>1. ASSUME NEW parts \in Lines, NEW published \in BOOLEAN, Send(parts, published)
        PROVE  Paying'
    BY <1>3, <2>1, SendPaying DEF Stdin
  <2>2. CASE UNCHANGED <<payVars, wallet, stage>>
    BY <2>2, PayingUnchanged
  <2>3. QED
    BY <1>3, <2>1, <2>2 DEF Stdin, EndOfInput, RefuseSend, Show, Blank, Say, vars, startVars
<1>4. CASE UNCHANGED vars
  BY <1>4, PayingUnchanged DEF vars, startVars
<1>5. QED
  BY <1>1, <1>2, <1>3, <1>4, StartPaying, EventPaying DEF Next, Logged

\* Whatever connections came and went before a send, "sent" means that a
\* connected peer was given the transfer and "saved" that none ever is
\* (main.rs:336-388).
THEOREM ReportsTrue == Spec => []ReportTruthful
<1>1. Init => Paying /\ cli \in Clis
  BY DEF Init, Paying, Started, ReportTruthful
<1>2. cli \in Clis /\ [Next]_vars => (cli \in Clis)'
  BY DEF Next, vars, startVars, StartWallet, BuildSwarm, Listen, Dial, EnterLoop,
     ConnectionEstablished, ConnectionClosed, Raise, HandleEvent, Stdin, EndOfInput,
     Logged, RefuseSend, Send, Show, Blank, Say
<1>3. Paying => ReportTruthful
  BY DEF Paying
<1>4. QED  BY <1>1, <1>2, <1>3, InitTracking, NextTracking, NextPaying, PTL DEF Spec

-----------------------------------------------------------------------------
(* The start, the own wallet and the ledger.                                *)

Wallets == {WalletOf(k) : k \in Keys}

AccountsTyped(accts) == /\ DOMAIN accts \subseteq Address
                        /\ \A a \in DOMAIN accts : accts[a] \in AccountState

\* What main() has set up when it comes to a stage, and that the own wallet is the
\* one asked for; the accounts are typed, and no report blames a transfer of the
\* process's own making.
Ready ==
    /\ cli \in Clis /\ stage \in Started \cup {"wallet", "exited"}
    /\ wallet \in Wallets \cup {None}
    /\ stage \in Started => wallet # None
    /\ RestoredWallet
    /\ stage \in {"listen", "dial", "loop"} => behaviour.subscribed
    /\ AccountsTyped(ledger)
    /\ dialled \subseteq Peers /\ stdin_open \in BOOLEAN /\ screen \in Reports
    /\ sends \subseteq [nonce : Nat, report : {"sent", "saved"}] /\ handed \subseteq Nat
    /\ OwnSendsAccepted

\* Replacing or creating an entry of the account map.
LEMMA PutTyped ==
  ASSUME NEW accts, AccountsTyped(accts), NEW a \in Address, NEW st \in AccountState
  PROVE  AccountsTyped(Put(accts, a, st))
BY DEF AccountsTyped, Put

\* A new account.
LEMMA NewAccountTyped ==
  ASSUME NEW b \in 0 .. (U64 - 1)
  PROVE  NewAccount(b) \in AccountState
BY DEF NewAccount, AccountState

\* credit, which wraps.
LEMMA CreditTyped ==
  ASSUME NEW accts, AccountsTyped(accts), NEW a \in Address, NEW amount \in 0 .. (U64 - 1)
  PROVE  AccountsTyped(WithCredit(accts, a, amount))
<1>1. CASE a \in DOMAIN accts
  <2> DEFINE after == [accts[a] EXCEPT !.balance = (@ + amount) % U64]
  <2>1. accts[a] \in AccountState
    BY <1>1 DEF AccountsTyped
  <2>2. (accts[a].balance + amount) % U64 \in 0 .. (U64 - 1)
    BY <2>1, U64Assumption DEF AccountState
  <2>3. after \in AccountState
    BY <2>1, <2>2 DEF AccountState
  <2>4. WithCredit(accts, a, amount) = Put(accts, a, after)
    BY <1>1 DEF WithCredit
  <2> HIDE DEF after
  <2>5. QED  BY <2>3, <2>4, PutTyped
<1>2. CASE a \notin DOMAIN accts
  <2>1. WithCredit(accts, a, amount) = Put(accts, a, NewAccount(amount))
    BY <1>2 DEF WithCredit
  <2>2. QED  BY <2>1, NewAccountTyped, PutTyped
<1>3. QED  BY <1>1, <1>2

\* A transfer that passes the checks never takes a balance below zero.
LEMMA TransferTyped ==
  ASSUME NEW accts, AccountsTyped(accts), NEW r, TransferOk(accts, r), r.to \in Address,
         r.amount \in 0 .. (U64 - 1)
  PROVE  AccountsTyped(WithTransfer(accts, r))
<1> DEFINE debited == WithDebit(accts, r.from, r.amount)
<1>1. /\ r.from \in DOMAIN accts /\ accts[r.from] \in AccountState
      /\ accts[r.from].balance >= r.amount
  BY DEF TransferOk, SenderValid, AccountsTyped
<1>2. [balance |-> accts[r.from].balance - r.amount,
       nonce |-> accts[r.from].nonce + 1] \in AccountState
  BY <1>1, U64Assumption DEF AccountState
<1>3. AccountsTyped(debited)
  BY <1>1, <1>2 DEF AccountsTyped, WithDebit
<1> HIDE DEF debited
<1>4. AccountsTyped(WithCredit(debited, r.to, r.amount))
  BY <1>3, CreditTyped
<1>5. QED  BY <1>4 DEF WithTransfer, debited

\* A text that names an address, by LinesAssumption.
LEMMA RecipientKnown ==
  ASSUME NEW parts \in Lines, IsSend(parts), Len(parts) = 3, AddressFromHex(parts[2]) # Error
  PROVE  AddressFromHex(parts[2]) \in Address
<1> DEFINE text == parts[2]
<1>1. text \in HexText({ADDRESS_LEN}, Address)
               \cup HexText(Nat \ {ADDRESS_LEN}, Address \cup {None})
  BY LinesAssumption DEF IsSend
<1>2. /\ [text EXCEPT !.prefixed = FALSE].len = text.len
      /\ [text EXCEPT !.prefixed = FALSE].value = text.value
  BY <1>1 DEF HexText
<1>3. AddressFromHex(text) = text.value /\ text.len = ADDRESS_LEN
  BY <1>2 DEF AddressFromHex, HexDecode
<1>4. QED  BY <1>1, <1>3 DEF HexText

\* The own transactions carry the own key, address and nonce: what is left to refuse
\* is the user's doing.
LEMMA OwnSendError ==
  ASSUME Ready, Paying, stage = "loop", NEW parts
  PROVE  SendError(parts) \in {"", "usage", "invalid address", "invalid amount", "SelfTransfer",
                               "ZeroValue", "InsufficientBalance"}
<1> DEFINE tx == TxOf(parts)
<1>1. PICK k \in Keys : wallet = WalletOf(k)
  BY DEF Ready, Started, Wallets
<1>2. tx.from = wallet.address /\ tx.nonce = OwnNonce
  BY DEF TxOf, Create, SendNonce, OwnNonce
<1>3. Verify(tx)
  BY <1>1, ProcessAssumption DEF TxOf, Create, Verify, SignatureValid, Sign, DigestOf, WalletOf
<1>4. wallet.address \in DOMAIN ledger /\ ledger[wallet.address].nonce = OwnNonce
  BY DEF Paying, Started, OwnNonce, NonceOf
<1> HIDE DEF tx
<1>5. TransferError(ledger, tx) \in {"SelfTransfer", "ZeroValue", "InsufficientBalance"}
  BY <1>2, <1>4 DEF TransferError
<1>6. QED  BY <1>3, <1>5 DEF SendError, tx

\* A step that leaves alone all that Ready speaks of.
LEMMA ReadyUnchanged ==
  ASSUME Ready, UNCHANGED <<cli, stage, wallet, dialled, ledger, sends, handed, behaviour.subscribed>>,
         stdin_open' \in BOOLEAN, screen' \in Reports, OwnSendsAccepted'
  PROVE  Ready'
BY DEF Ready, RestoredWallet

\* The steps of main(): a wallet that was asked for is restored or the process ends.
LEMMA StartReady ==
  ASSUME Ready, Tracking,
         \/ \E k \in Keys : StartWallet(k)
         \/ \E ok \in BOOLEAN : Listen(ok) \/ \E p \in Peers : Dial(p, ok)
         \/ \E failing \in SUBSET Fallible : BuildSwarm(failing)
         \/ EnterLoop
  PROVE  Ready'
<1>1. ASSUME NEW k \in Keys, StartWallet(k) PROVE Ready'
  <2> DEFINE w == OpenWallet(cli.secret_key, k)
  <2>1. /\ UNCHANGED <<cli, dialled, sends, handed, behaviour, stdin_open, screen>>
        /\ \/ w = Error /\ stage' = "exited" /\ UNCHANGED <<wallet, ledger>>
           \/ /\ w # Error /\ stage' = "swarm" /\ wallet' = w
              /\ ledger' = WithRegistered(EmptyLedger, w.address, cli.balance)
    BY <1>1 DEF StartWallet, netVars
  <2>2. cli \in Cli
    BY CliAssumption DEF Ready
  <2>3. OwnSendsAccepted'
    BY <2>1 DEF Ready, OwnSendsAccepted
  <2>4. ASSUME w # Error
        PROVE  w \in Wallets /\ (cli.secret_key # None => w = WalletOf(cli.secret_key.value))
    <3>1. CASE cli.secret_key = None
      BY <3>1 DEF OpenWallet, Wallets
    <3>2. CASE cli.secret_key # None
      <4>1. cli.secret_key.value \in Keys
        BY <2>2, <3>2 DEF Cli, HexText
      <4>2. w = WalletOf(cli.secret_key.value)
        BY <2>4, <3>2 DEF OpenWallet, HexDecode, FromSecretBytes
      <4>3. QED  BY <4>1, <4>2 DEF Wallets
    <3>3. QED  BY <3>1, <3>2
  <2> HIDE DEF w
  <2>5. CASE w = Error
    BY <2>1, <2>3, <2>5 DEF Ready, RestoredWallet, Started
  <2>6. CASE w # Error
    <3>1. w \in Wallets /\ w.address \in Address
      BY <2>4, <2>6 DEF Wallets, Address
    <3>2. w # None
      BY <3>1, ProcessAssumption DEF Wallets
    <3>3. ledger' = Put(EmptyLedger, w.address, NewAccount(cli.balance))
      BY <2>1, <2>6 DEF WithRegistered, EmptyLedger
    <3>4. NewAccount(cli.balance) \in AccountState /\ AccountsTyped(EmptyLedger)
      BY <2>2, NewAccountTyped DEF Cli, AccountsTyped, EmptyLedger
    <3>5. AccountsTyped(ledger')
      BY <3>1, <3>3, <3>4, PutTyped
    <3>6. QED  BY <2>1, <2>3, <2>4, <2>6, <3>1, <3>2, <3>5 DEF Ready, RestoredWallet, Started
  <2>7. QED  BY <2>5, <2>6
<1>2. ASSUME UNCHANGED <<cli, wallet, payVars, stdin_open, screen>>,
             stage \in Started, stage' \in Started \cup {"exited"}, dialled' \subseteq Peers,
             stage' \in {"listen", "dial", "loop"} => behaviour'.subscribed
      PROVE  Ready'
  BY <1>2 DEF Ready, RestoredWallet, OwnSendsAccepted, payVars
<1>3. ASSUME NEW ok \in BOOLEAN, Listen(ok) PROVE Ready'
  <2>1. /\ stage = "listen" /\ stage' \in {"dial", "exited"} /\ behaviour' = behaviour
        /\ UNCHANGED <<cli, wallet, payVars, stdin_open, screen, dialled>>
    BY <1>3 DEF Listen, netVars
  <2>2. QED  BY <1>2, <2>1 DEF Ready, Started
<1>4. ASSUME NEW ok \in BOOLEAN, NEW p \in Peers, Dial(p, ok) PROVE Ready'
  <2>1. /\ stage = "dial" /\ stage' \in {"dial", "exited"} /\ behaviour' = behaviour
        /\ UNCHANGED <<cli, wallet, payVars, stdin_open, screen>>
        /\ dialled' \subseteq dialled \cup {p}
    BY <1>4 DEF Dial, netVars
  <2>2. QED  BY <1>2, <2>1 DEF Ready, Started
<1>5. ASSUME NEW failing \in SUBSET Fallible, BuildSwarm(failing) PROVE Ready'
  <2>1. /\ stage = "swarm" /\ UNCHANGED <<cli, wallet, payVars, stdin_open, screen, dialled>>
        /\ \/ stage' = "exited"
           \/ stage' = "listen" /\ behaviour' = NewBehaviour
    BY <1>5 DEF BuildSwarm, BuildBehaviour
  <2>2. NewBehaviour.subscribed
    BY DEF NewBehaviour
  <2>3. QED  BY <1>2, <2>1, <2>2 DEF Ready, Started
<1>6. ASSUME EnterLoop PROVE Ready'
  <2>1. /\ stage = "dial" /\ stage' = "loop"
        /\ UNCHANGED <<cli, wallet, payVars, stdin_open, screen, dialled>>
        /\ behaviour' = behaviour \/ behaviour' = Bootstrap(behaviour)
    BY <1>6 DEF EnterLoop
  <2>2. behaviour'.subscribed = behaviour.subscribed
    BY <2>1 DEF Bootstrap, Tracking, NodeBehaviour
  <2>3. QED  BY <1>2, <2>1, <2>2 DEF Ready, Started
<1>7. QED  BY <1>1, <1>3, <1>4, <1>5, <1>6

\* Events: the own account is credited, and nothing unsubscribes.
LEMMA EventReady ==
  ASSUME Tracking, Paying, Ready, HandleEvent
  PROVE  Ready'
<1>1. /\ event \in NodeEvent /\ stage = "loop"
      /\ UNCHANGED <<cli, stage, wallet, dialled, stdin_open>>
  BY DEF HandleEvent, startVars, Tracking
<1>2. CASE Received /\ event.credit # 0
  <2>1. event.credit \in 0 .. (U64 - 1)
    BY <1>1, <1>2, ProcessAssumption DEF Received, NodeEvent
  <2>2. /\ ledger' = WithCredit(ledger, wallet.address, event.credit) /\ screen' = "received"
        /\ UNCHANGED <<sends, handed, behaviour>>
    BY <1>2 DEF Received, netVars
  <2>3. wallet.address \in Address
    BY <1>1 DEF Ready, Started, Wallets, Address
  <2>4. AccountsTyped(ledger')
    BY <2>1, <2>2, <2>3, CreditTyped DEF Ready
  <2>5. QED
    BY <1>1, <2>2, <2>4 DEF Ready, RestoredWallet, OwnSendsAccepted, Reports
<1>3. CASE ~(Received /\ event.credit # 0)
  <2>1. /\ UNCHANGED <<ledger, sends, handed>>
        /\ screen' = screen \/ screen' \in {"confirmed", "rejected"}
    BY <1>3 DEF HandleEvent, Received, Response, Identified, MdnsDiscovered, Ignored, payVars
  <2>2. behaviour'.subscribed = behaviour.subscribed
    BY <1>1, <1>3 DEF HandleEvent, Received, Response, Identified, MdnsDiscovered, Ignored, netVars,
       Tracking, NodeBehaviour
  <2>3. screen' \in Reports /\ OwnSendsAccepted'
    BY <2>1 DEF Ready, Reports, OwnSendsAccepted
  <2>4. stdin_open' \in BOOLEAN
    BY <1>1 DEF Ready
  <2>5. QED  BY <1>1, <2>1, <2>2, <2>3, <2>4, ReadyUnchanged
<1>4. QED  BY <1>2, <1>3

\* The prompt.
LEMMA StdinReady ==
  ASSUME Tracking, Paying, Ready, Stdin
  PROVE  Ready'
<1>1. stage = "loop" /\ stdin_open \in BOOLEAN /\ screen \in Reports /\ OwnSendsAccepted
  BY DEF Stdin, Ready
<1>2. CASE EndOfInput
  <2>1. /\ UNCHANGED <<cli, stage, wallet, dialled, ledger, sends, handed, behaviour, screen>>
        /\ stdin_open' = FALSE
    BY <1>2 DEF EndOfInput, startVars, netVars, payVars
  <2>2. OwnSendsAccepted'
    BY <1>1, <2>1 DEF OwnSendsAccepted
  <2>3. QED  BY <1>1, <2>1, <2>2, ReadyUnchanged
<1>3. ASSUME NEW text \in Reports, Say(text),
             text \notin {"self-verification", "AddressNotFound", "InvalidNonce"}
      PROVE  Ready'
  <2>1. /\ UNCHANGED <<cli, stage, wallet, dialled, ledger, sends, handed, behaviour, stdin_open>>
        /\ screen' = text
    BY <1>3 DEF Say, startVars, netVars, payVars
  <2>2. OwnSendsAccepted'
    BY <1>3, <2>1 DEF OwnSendsAccepted
  <2>3. QED  BY <1>1, <1>3, <2>1, <2>2, ReadyUnchanged
<1>4. ASSUME NEW parts \in Lines, RefuseSend(parts) PROVE Ready'
  <2>1. SendError(parts) \in {"usage", "invalid address", "invalid amount", "SelfTransfer",
                              "ZeroValue", "InsufficientBalance"}
    BY <1>1, <1>4, OwnSendError DEF RefuseSend
  <2>2. SendError(parts) \in Reports
        /\ SendError(parts) \notin {"self-verification", "AddressNotFound", "InvalidNonce"}
    BY <2>1 DEF Reports, LedgerError
  <2>3. QED  BY <1>3, <1>4, <2>2 DEF RefuseSend
<1>5. ASSUME NEW parts \in Lines, Show(parts) PROVE Ready'
  <2>1. Shown(Head(parts)) \in {"balance", "ledger", "help", "peers", "info", "unknown"}
    BY DEF Shown
  <2>2. QED  BY <1>3, <1>5, <2>1 DEF Show, Reports
<1>6. ASSUME NEW parts \in Lines, NEW published \in BOOLEAN, Send(parts, published) PROVE Ready'
  <2> DEFINE tx == TxOf(parts)
             report == IF Delivered(published) THEN "sent" ELSE "saved"
  <2>1. /\ ledger' = WithTransfer(ledger, tx)
        /\ handed' \subseteq handed \cup {tx.nonce}
        /\ sends' = sends \cup {[nonce |-> tx.nonce, report |-> report]}
        /\ screen' = report
        /\ UNCHANGED <<cli, stage, wallet, dialled, behaviour, stdin_open>>
    BY <1>6 DEF Send, startVars, netVars
  <2>2. IsSend(parts) /\ SendError(parts) = ""
    BY <1>6 DEF Send
  <2>3. /\ Len(parts) = 3 /\ AddressFromHex(parts[2]) # Error /\ ParsesU64(parts[3])
        /\ TransferOk(ledger, tx)
    <3>1. TransferError(ledger, tx) # ""
      BY DEF TransferError
    <3>2. QED  BY <2>2, <3>1 DEF SendError
  <2>4. /\ tx.to = AddressFromHex(parts[2]) /\ tx.amount = parts[3] /\ tx.nonce = OwnNonce
    BY DEF TxOf, Create, SendNonce, OwnNonce
  <2>5. tx.to \in Address /\ tx.amount \in 0 .. (U64 - 1)
    BY <2>2, <2>3, <2>4, RecipientKnown DEF ParsesU64
  <2>6. OwnNonce \in Nat
    BY <1>1 DEF Paying, Started, OwnNonce, NonceOf, AccountState
  <2> HIDE DEF tx
  <2>7. AccountsTyped(ledger')
    BY <2>1, <2>3, <2>5, TransferTyped DEF Ready
  <2>8. report \in {"sent", "saved"}
    OBVIOUS
  <2> HIDE DEF report
  <2>9. /\ sends' \subseteq [nonce : Nat, report : {"sent", "saved"}] /\ handed' \subseteq Nat
    BY <2>1, <2>4, <2>6, <2>8 DEF Ready
  <2>10. screen' \in Reports /\ OwnSendsAccepted'
    BY <2>1, <2>8 DEF Reports, OwnSendsAccepted
  <2>11. QED  BY <2>1, <2>7, <2>9, <2>10 DEF Ready, RestoredWallet
<1>7. CASE UNCHANGED vars
  BY <1>7 DEF vars, startVars, netVars, payVars, Ready, RestoredWallet, OwnSendsAccepted
<1>8. QED  BY <1>2, <1>4, <1>5, <1>6, <1>7 DEF Stdin, Blank

\* Every step of the process.
LEMMA NextReady == Tracking /\ Paying /\ Ready /\ [Next]_vars => Ready'
<1> SUFFICES ASSUME Tracking, Paying, Ready, [Next]_vars PROVE Ready'
  OBVIOUS
<1>1. ASSUME NEW p \in Peers, ConnectionEstablished(p) \/ ConnectionClosed(p) PROVE Ready'
  <2>1. UNCHANGED <<cli, stage, wallet, dialled, ledger, sends, handed, stdin_open, screen>>
    BY <1>1 DEF ConnectionEstablished, ConnectionClosed, startVars, payVars
  <2>2. behaviour'.subscribed = behaviour.subscribed
    BY <1>1 DEF ConnectionEstablished, ConnectionClosed, Learn, Bootstrap, Forget, Tracking,
       NodeBehaviour
  <2>3. stdin_open' \in BOOLEAN /\ screen' \in Reports /\ OwnSendsAccepted'
    BY <2>1 DEF Ready, OwnSendsAccepted
  <2>4. QED  BY <2>1, <2>2, <2>3, ReadyUnchanged
<1>2. ASSUME NEW e \in NodeEvent, Raise(e) PROVE Ready'
  BY <1>2 DEF Raise, startVars, netVars, payVars, Ready, RestoredWallet, OwnSendsAccepted
<1>3. CASE UNCHANGED vars
  BY <1>3 DEF vars, startVars, netVars, payVars, Ready, RestoredWallet, OwnSendsAccepted
<1>4. QED
  BY <1>1, <1>2, <1>3, StartReady, EventReady, StdinReady DEF Next, Logged

ProcessInv == Tracking /\ Paying /\ Ready

\* The three invariants together hold in every reachable state.
LEMMA ProcessInvariant == Spec => []ProcessInv
<1>1. Init => Ready
  BY DEF Init, Ready, Started, RestoredWallet, AccountsTyped, EmptyLedger, Reports, OwnSendsAccepted
<1>2. Init => Paying
  BY DEF Init, Paying, Started, ReportTruthful
<1>3. Ready => cli \in Clis
  BY DEF Ready
<1>4. QED
  BY <1>1, <1>2, <1>3, InitTracking, NextTracking, NextPaying, NextReady, PTL DEF Spec, ProcessInv

\* Every variable of the process keeps its type: balances stay in range although
\* transfers subtract, and accounts are addresses although the prompt reads texts.
THEOREM ProcessTypes == Spec => []TypeOK
<1>1. ProcessInv => TypeOK
  BY DEF ProcessInv, Tracking, Ready, TypeOK, Started, Wallets, AccountsTyped
<1>2. QED  BY <1>1, ProcessInvariant, PTL

\* No handler of the loop runs before the wallet, the own account and the topic
\* subscription it relies on are there, whichever step of main() fails
\* (main.rs:100-206).
THEOREM LoopStartsReady == Spec => []LoopIsReady
<1>1. ProcessInv => LoopIsReady
  BY DEF ProcessInv, Paying, Ready, LoopIsReady, Started
<1>2. QED  BY <1>1, ProcessInvariant, PTL

\* A process given a secret key has the wallet of that key or has ended
\* (main.rs:113-121).
THEOREM WalletAsAsked == Spec => []RestoredWallet
<1>1. ProcessInv => RestoredWallet
  BY DEF ProcessInv, Ready
<1>2. QED  BY <1>1, ProcessInvariant, PTL

\* No interleaving of credits, connections and commands makes the process refuse a
\* transfer over the nonce it read, the signature it made or an account it lost
\* (main.rs:292-334).
THEOREM OwnSendsGoThrough == Spec => []OwnSendsAccepted
<1>1. ProcessInv => OwnSendsAccepted
  BY DEF ProcessInv, Ready
<1>2. QED  BY <1>1, ProcessInvariant, PTL
=============================================================================
