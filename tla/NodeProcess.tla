----------------------------- MODULE NodeProcess -----------------------------
(***************************************************************************)
(* One zyphra process from main() on (zyphra/src/main.rs, network.rs): the    *)
(* start with its failures, the select loop over stdin and the swarm, every   *)
(* command of the prompt, and what the process remembers of its peers.  What  *)
(* a received transfer means, and the tx_cache that decides it, is the         *)
(* business of ZyphraNode; here it credits the own account or not.  The        *)
(* libp2p swarm is external: it holds several connections to a peer, since     *)
(* both sides dial, and each raises its own                                 *)
(* established and closed event.                                            *)
(***************************************************************************)
EXTENDS Accounts, Transaction, FiniteSets

CONSTANTS
    Peers,          \* the other peers
    Keys,           \* the signing keys of all wallets
    Clis,           \* parsed command lines: secret_key, balance, peer
    Lines,          \* lines typed at the prompt, split into words
    Credits,        \* amounts that arrive for this wallet
    None,           \* no secret key, no wallet, no event
    MaxConns,       \* bound: connections the swarm holds to one peer
    MaxSends        \* bound: transfers made

ASSUME ProcessAssumption ==
    /\ None \notin Keys \cup {WalletOf(k) : k \in Keys}
    /\ InvalidKey \notin {PublicKey(k) : k \in Keys}
    /\ Credits \subseteq 0 .. (U64 - 1)

\* The arguments this process reads; whether its listen address can be bound and
\* a peer address dialled is up to the system.
Cli == [secret_key : HexText({0, SECRET_KEY_LENGTH}, Keys) \cup {None},
        balance : 0 .. (U64 - 1), peer : SUBSET Peers]
ASSUME CliAssumption == Clis \subseteq Cli

Address == {WalletOf(k).address : k \in Keys}

\* The address of a transfer is a text; one that stands for ADDRESS_LEN bytes names
\* an address.
ASSUME LinesAssumption ==
    \A parts \in Lines : parts # <<>> /\ Head(parts) \in {"send", "transfer"} /\ Len(parts) = 3 =>
        parts[2] \in HexText({ADDRESS_LEN}, Address)
                     \cup HexText(Nat \ {ADDRESS_LEN}, Address \cup {None})

\* The state of the composed behaviours that this program sets or reads: the peers
\* in Kademlia's routing table and whether its bootstrap runs, the explicit peers
\* of GossipSub and whether the transaction topic is subscribed.  Identify, mDNS
\* and the transfer protocol only raise events.
NodeBehaviour == [kademlia : SUBSET Peers, bootstrapping : BOOLEAN,
                  gossipsub : SUBSET Peers, subscribed : BOOLEAN]

\* What the behaviours report to the loop.  credit is what a received transfer
\* brings the own account, 0 for one that is rejected, cached or witnessed.
NodeEvent == [of : {"Kademlia", "Expired", "Failure"}]
        \cup [of : {"Gossipsub", "Request"}, credit : Credits]
        \cup [of : {"Response"}, accepted : BOOLEAN]
        \cup [of : {"Identify"}, peer : Peers, has_addrs : BOOLEAN]
        \cup [of : {"Discovered"}, found : SUBSET Peers]

Reports == {"", "usage", "invalid address", "invalid amount", "self-verification", "sent",
            "saved", "balance", "peers", "info", "ledger", "help", "unknown",
            "confirmed", "rejected", "received"} \cup LedgerError

VARIABLES
    cli, stage,      \* the arguments, and how far main() has come
    wallet, ledger,
    behaviour,       \* swarm.behaviour_mut()
    conns,           \* swarm: live connections per peer (external)
    dialled,         \* the bootstrap peers dialled so far
    connected_peers, \* main's HashSet
    stdin_open,
    event,           \* the behaviour event the swarm yields next
    screen,          \* the last line printed
    sends,           \* history: transfers made, with what was reported
    handed           \* history: nonces of the transfers a connected peer was given

netVars == <<behaviour, conns, connected_peers>>
payVars == <<ledger, sends, handed>>
startVars == <<cli, stage, wallet, dialled>>
vars == <<startVars, netVars, payVars, stdin_open, event, screen>>

TypeOK ==
    /\ cli \in Clis /\ stage \in {"wallet", "swarm", "listen", "dial", "loop", "exited"}
    /\ wallet \in {WalletOf(k) : k \in Keys} \cup {None}
    /\ DOMAIN ledger \subseteq Address
    /\ \A a \in DOMAIN ledger : ledger[a] \in AccountState
    /\ behaviour \in NodeBehaviour
    /\ conns \in [Peers -> Nat] /\ connected_peers \subseteq Peers /\ dialled \subseteq Peers
    /\ stdin_open \in BOOLEAN
    /\ event \in NodeEvent \cup {None}
    /\ screen \in Reports
    /\ sends \subseteq [nonce : Nat, report : {"sent", "saved"}] /\ handed \subseteq Nat

-----------------------------------------------------------------------------
(* main(), up to the loop.                                                  *)

Init == /\ cli \in Clis /\ stage = "wallet"
        /\ wallet = None /\ ledger = EmptyLedger
        /\ behaviour = [kademlia |-> {}, bootstrapping |-> FALSE,
                        gossipsub |-> {}, subscribed |-> FALSE]
        /\ conns = [p \in Peers |-> 0]
        /\ dialled = {} /\ connected_peers = {}
        /\ stdin_open = TRUE /\ event = None /\ screen = ""
        /\ sends = {} /\ handed = {}

\* Mutant of OpenWallet: a key that cannot be read is replaced by a new one.
OpenOrGenerate(text, fresh) ==
    IF text = None THEN WalletOf(fresh)
    ELSE IF HexDecode(text) = Error THEN WalletOf(fresh)
    ELSE FromSecretBytes(HexDecode(text))

\* --secret-key is decoded without stripping a prefix; without it, generate.
OpenWallet(text, fresh) ==
    IF text = None THEN WalletOf(fresh)
    ELSE IF HexDecode(text) = Error THEN Error
    ELSE FromSecretBytes(HexDecode(text))

\* A wallet that cannot be opened ends main(); otherwise the ledger is created
\* and the own address registered in it.
StartWallet(fresh) ==
    LET w == OpenWallet(cli.secret_key, fresh)
    IN  /\ stage = "wallet"
        /\ \/ w = Error /\ stage' = "exited" /\ UNCHANGED <<wallet, ledger>>
           \/ /\ w # Error /\ stage' = "swarm"
              /\ wallet' = w
              /\ ledger' = WithRegistered(EmptyLedger, w.address, cli.balance)
        /\ UNCHANGED <<netVars, cli, dialled, sends, handed, stdin_open, event, screen>>

\* What can fail while the swarm is built, the transport around it included.
Fallible == {"transport", "gossipsub config", "gossipsub", "subscribe", "mdns"}

NewBehaviour == [kademlia |-> {}, bootstrapping |-> FALSE, gossipsub |-> {},
                 subscribed |-> TRUE]

\* Mutant of BuildBehaviour: the result of subscribe is ignored.
BuildUnsubscribed(failing) ==
    IF failing \ {"subscribe"} = {}
    THEN [NewBehaviour EXCEPT !.subscribed = failing = {}] ELSE Error

BuildBehaviour(failing) == IF failing = {} THEN NewBehaviour ELSE Error

\* Every `?` and expect on the way ends main().
BuildSwarm(failing) ==
    /\ stage = "swarm"
    /\ LET b == BuildBehaviour(failing)
       IN  \/ b = Error /\ stage' = "exited" /\ UNCHANGED behaviour
           \/ b # Error /\ stage' = "listen" /\ behaviour' = b
    /\ UNCHANGED <<payVars, conns, connected_peers, cli, wallet, dialled, stdin_open, event,
                   screen>>

Listen(ok) ==
    /\ stage = "listen"
    /\ stage' = IF ok THEN "dial" ELSE "exited"
    /\ UNCHANGED <<netVars, payVars, cli, wallet, dialled, stdin_open, event, screen>>

\* One address of --peer that cannot be dialled ends main(); a dial that fails
\* later is only logged.
Dial(p, ok) ==
    /\ stage = "dial" /\ p \in cli.peer \ dialled
    /\ IF ok THEN dialled' = dialled \cup {p} /\ UNCHANGED stage
             ELSE stage' = "exited" /\ UNCHANGED dialled
    /\ UNCHANGED <<netVars, payVars, cli, wallet, stdin_open, event, screen>>

\* kademlia.bootstrap() fails while the routing table is empty.
Bootstrap(b) == [b EXCEPT !.bootstrapping = @ \/ b.kademlia # {}]

EnterLoop ==
    /\ stage = "dial" /\ dialled = cli.peer
    /\ stage' = "loop"
    /\ behaviour' = IF cli.peer = {} THEN behaviour ELSE Bootstrap(behaviour)
    /\ UNCHANGED <<payVars, conns, connected_peers, cli, wallet, dialled, stdin_open, event,
                   screen>>

-----------------------------------------------------------------------------
(* The loop: connection events.                                             *)

\* Mutant of Learn: bootstrap comes before the address is added.
LearnLate(b, p) ==
    [Bootstrap(b) EXCEPT !.kademlia = @ \cup {p}, !.gossipsub = @ \cup {p}]

\* The peer is added to Kademlia and GossipSub, then bootstrap is tried again.
Learn(b, p) ==
    Bootstrap([b EXCEPT !.kademlia = @ \cup {p}, !.gossipsub = @ \cup {p}])

ConnectionEstablished(p) ==
    /\ stage = "loop" /\ conns[p] < MaxConns
    /\ conns' = [conns EXCEPT ![p] = @ + 1]
    /\ connected_peers' = connected_peers \cup {p}
    /\ behaviour' = Learn(behaviour, p)
    /\ UNCHANGED <<startVars, payVars, stdin_open, event, screen>>

\* Mutant of Forget: the peer stays in the set the send command uses.
ForgetExplicitOnly(p) ==
    /\ behaviour' = [behaviour EXCEPT !.gossipsub = @ \ {p}]
    /\ UNCHANGED connected_peers

Forget(p) ==
    /\ connected_peers' = connected_peers \ {p}
    /\ behaviour' = [behaviour EXCEPT !.gossipsub = @ \ {p}]

\* The handler does not look at num_established, the connections that remain.
ConnectionClosed(p) ==
    /\ stage = "loop" /\ conns[p] > 0
    /\ conns' = [conns EXCEPT ![p] = @ - 1]
    /\ Forget(p)
    /\ UNCHANGED <<startVars, payVars, stdin_open, event, screen>>

\* A dial that fails, a failed incoming connection and a dial begun are logged;
\* nobody dials again.
Logged == stage = "loop" /\ UNCHANGED vars

-----------------------------------------------------------------------------
(* The loop: behaviour events.  A behaviour queues its event; by the time the  *)
(* loop handles it, connections may have come and gone.                      *)

Raise(e) ==
    /\ stage = "loop" /\ event = None
    /\ e.of = "Identify" => conns[e.peer] > 0
    /\ e.of \in {"Response", "Failure"} => sends # {}
    /\ event' = e
    /\ UNCHANGED <<startVars, netVars, payVars, stdin_open, screen>>

Received == /\ event.of \in {"Gossipsub", "Request"}
            /\ IF event.credit = 0 THEN UNCHANGED <<ledger, screen>>
               ELSE /\ ledger' = WithCredit(ledger, wallet.address, event.credit)
                    /\ screen' = "received"
            /\ UNCHANGED <<netVars, sends, handed>>

Response == /\ event.of = "Response"
            /\ screen' = IF event.accepted THEN "confirmed" ELSE "rejected"
            /\ UNCHANGED <<netVars, payVars>>

\* The peer may advertise no address.
Identified == /\ event.of = "Identify"
              /\ behaviour' = [behaviour EXCEPT
                     !.kademlia = IF event.has_addrs THEN @ \cup {event.peer} ELSE @,
                     !.gossipsub = @ \cup {event.peer}]
              /\ UNCHANGED <<payVars, conns, connected_peers, screen>>

\* mDNS names peers on the LAN, connected or not.
MdnsDiscovered == /\ event.of = "Discovered"
                  /\ behaviour' = [behaviour EXCEPT !.kademlia = @ \cup event.found,
                                                    !.gossipsub = @ \cup event.found]
                  /\ UNCHANGED <<payVars, conns, connected_peers, screen>>

\* Routing updates and expired mDNS records are logged, failed requests ignored.
Ignored == /\ event.of \in {"Kademlia", "Expired", "Failure"}
           /\ UNCHANGED <<netVars, payVars, screen>>

HandleEvent ==
    /\ stage = "loop" /\ event # None
    /\ Received \/ Response \/ Identified \/ MdnsDiscovered \/ Ignored
    /\ event' = None
    /\ UNCHANGED <<startVars, stdin_open>>

-----------------------------------------------------------------------------
(* The loop: stdin.                                                         *)

\* End of file or a read error: stdin is not polled any more.
EndOfInput ==
    /\ stdin_open' = FALSE
    /\ UNCHANGED <<startVars, netVars, payVars, event, screen>>

Say(text) ==
    /\ screen' = text
    /\ UNCHANGED <<startVars, netVars, payVars, stdin_open, event>>

IsSend(parts) == parts # <<>> /\ Head(parts) \in {"send", "transfer"}

\* A word parses as u64.
ParsesU64(word) == word \in 0 .. (U64 - 1)

\* Mutant of SendNonce: the recipient's nonce is read.
RecipientNonce(to) == NonceOf(ledger, to)

\* The nonce goes into the transaction and into transfer.
SendNonce(to) == NonceOf(ledger, wallet.address)

TxOf(parts) == LET to == AddressFromHex(parts[2])
               IN  Create(wallet, to, parts[3], SendNonce(to), 0)

\* What keeps a command line from being a transfer, in the order of the checks;
\* "" for one that goes through.
SendError(parts) ==
    IF Len(parts) # 3 THEN "usage"
    ELSE IF AddressFromHex(parts[2]) = Error THEN "invalid address"
    ELSE IF ~ParsesU64(parts[3]) THEN "invalid amount"
    ELSE IF ~Verify(TxOf(parts)) THEN "self-verification"
    ELSE IF ~TransferOk(ledger, TxOf(parts)) THEN TransferError(ledger, TxOf(parts)) ELSE ""

RefuseSend(parts) ==
    /\ IsSend(parts) /\ SendError(parts) # ""
    /\ Say(SendError(parts))

\* Mutant of Delivered: a published transaction does not count.
DeliveredDirectly(published) == connected_peers # {}

\* The flag behind the report: a request went out or publish succeeded.
Delivered(published) == connected_peers # {} \/ published

\* The ledger is debited first; then every tracked peer gets a request, and
\* publish succeeds only if the swarm is connected (external).
Send(parts, published) ==
    LET tx == TxOf(parts)
        reached == published \/ \E p \in connected_peers : conns[p] > 0
        report == IF Delivered(published) THEN "sent" ELSE "saved"
    IN  /\ IsSend(parts) /\ SendError(parts) = ""
        /\ Cardinality(sends) < MaxSends
        /\ published => \E p \in Peers : conns[p] > 0
        /\ ledger' = WithTransfer(ledger, tx)
        /\ handed' = IF reached THEN handed \cup {tx.nonce} ELSE handed
        /\ sends' = sends \cup {[nonce |-> tx.nonce, report |-> report]}
        /\ screen' = report
        /\ UNCHANGED <<startVars, netVars, stdin_open, event>>

\* The read-only commands and their aliases, by the heading they print.
Shown(command) ==
    CASE command \in {"balance", "bal"}     -> "balance"
      [] command \in {"ledger", "accounts"} -> "ledger"
      [] command \in {"help", "?"}          -> "help"
      [] command \in {"peers", "info"}      -> command
      [] OTHER                              -> "unknown"
Show(parts) == parts # <<>> /\ ~IsSend(parts) /\ Say(Shown(Head(parts)))

\* A line of white space has no words, and nothing happens.
Blank(parts) == parts = <<>> /\ UNCHANGED vars

Stdin ==
    /\ stage = "loop" /\ stdin_open
    /\ \/ EndOfInput
       \/ \E parts \in Lines :
             \/ RefuseSend(parts)
             \/ \E published \in BOOLEAN : Send(parts, published)
             \/ Show(parts)
             \/ Blank(parts)

-----------------------------------------------------------------------------
Next == \/ \E k \in Keys : StartWallet(k)
        \/ \E ok \in BOOLEAN : Listen(ok) \/ \E p \in Peers : Dial(p, ok)
        \/ \E failing \in SUBSET Fallible : BuildSwarm(failing)
        \/ EnterLoop
        \/ \E p \in Peers : ConnectionEstablished(p) \/ ConnectionClosed(p)
        \/ Logged
        \/ \E e \in NodeEvent : Raise(e)
        \/ HandleEvent
        \/ Stdin

Spec == Init /\ [][Next]_vars

-----------------------------------------------------------------------------
\* The loop runs only in a process that has what its handlers rely on: the own
\* account, which send debits, and the subscribed topic.
LoopIsReady ==
    stage = "loop" => /\ wallet # None /\ wallet.address \in DOMAIN ledger
                      /\ behaviour.subscribed

\* A process started with --secret-key has that wallet or ends; it never goes on
\* with another one (main.rs:113-121).
RestoredWallet ==
    cli.secret_key # None /\ wallet # None => wallet = WalletOf(cli.secret_key.value)

\* The send command never addresses a peer the swarm has no connection to, so
\* send_request needs no dial.
TrackedAreConnected == \A p \in connected_peers : conns[p] > 0

\* A tracked peer is also an explicit peer of GossipSub and was given to Kademlia:
\* the three views do not drift apart.
TrackedEverywhere == connected_peers \subseteq behaviour.gossipsub \cap behaviour.kademlia

\* Bootstrap at the start always comes too early; it runs by the time there is a
\* peer to ask (main.rs:168-174, 258-259).
BootstrapFollows == connected_peers # {} => behaviour.bootstrapping

\* The process can always spend what it has: a send it refuses is ill-formed, to
\* itself, of nothing, or not covered, never a nonce or signature it made itself.
OwnSendsAccepted == screen \notin {"self-verification", "AddressNotFound", "InvalidNonce"}

\* The report after a debit is true: "sent" means that a connected peer was given
\* the transfer, and what is "saved" no peer was or will be given.  So trying again,
\* as the prompt says, pays the recipient once (main.rs:377-388).
ReportTruthful == \A s \in sends : s.report = "sent" <=> s.nonce \in handed

\* main.rs:347 sends to "ALL connected peers", and the peers command lists the
\* swarm's: every connected peer is tracked.
ConnectedAreTracked == \A p \in Peers : conns[p] > 0 => p \in connected_peers
=============================================================================
