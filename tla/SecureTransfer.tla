--------------------------- MODULE SecureTransfer ---------------------------
(***************************************************************************)
(* secure_transfer.cpp: receivers and senders that meet at a Unix socket    *)
(* path, exchange public keys, derive a session key and transfer one         *)
(* encrypted message.  Every process is one run of the program.  A receiver  *)
(* serves one client and exits; its destructor closes the server socket and  *)
(* unlinks the path, whoever's socket the path names by then.               *)
(*                                                                         *)
(* The kernel is external: the path, listen queues and stream buffers behave *)
(* as Linux AF_UNIX sockets do.  A write to a closed peer raises SIGPIPE,     *)
(* which kills the process without running destructors; so does Kill.       *)
(***************************************************************************)
EXTENDS Naturals, Sequences

CONSTANTS
    Receivers,      \* receiver processes
    Senders,        \* sender processes; a sender stands for its message too
    NoOne,          \* no process
    Retries,        \* connect attempts of a sender (5 in the code)
    Backlog,        \* listen(server_socket, 1)
    MaxKills        \* bound: processes killed from outside

ASSUME SocketAssumption ==
    /\ Receivers \cap Senders = {} /\ NoOne \notin Receivers \cup Senders
    /\ Retries \in Nat \ {0} /\ Backlog \in Nat

VARIABLES
    path,           \* the receiver whose socket the path names, or NoOne
    rpc,            \* per receiver, the step it is at
    queue,          \* per receiver, connections waiting for accept
    client,         \* per receiver, the sender it accepted, or NoOne
    output,         \* per receiver, the message it decrypted, or NoOne
    spc,            \* per sender, the step it is at
    tries,          \* per sender, connect attempts left
    server,         \* per sender, the receiver it is connected to, or NoOne
    peer_key,       \* per process, the public key it received, or NoOne
    to_sender,      \* per sender, what its stream holds for it
    to_receiver,    \* per sender, what its stream holds for the receiver
    kills           \* number of processes killed from outside

path_vars == <<path>>
receiver_vars == <<rpc, queue, client, output>>
sender_vars == <<spc, tries, server>>
stream_vars == <<to_sender, to_receiver, peer_key>>
vars == <<path_vars, receiver_vars, sender_vars, stream_vars, kills>>

Processes == Receivers \cup Senders

RStates == {"idle", "created", "unlinked", "bound", "listening", "serving",
            "await_key", "await_data", "closing", "unlinking", "ended", "killed"}
SStates == {"idle", "connecting", "await_key", "keyed", "sending", "complete",
            "failed", "killed"}

\* The server socket listens from listen() to the destructor's close(); the
\* client's socket is open while handleClient runs.
Serving(r)    == rpc[r] \in {"serving", "await_key", "await_data"}
Listening(r)  == Serving(r) \/ rpc[r] \in {"listening", "closing"}
RAlive(r)     == rpc[r] \notin {"idle", "ended", "killed"}
SAlive(s)     == spc[s] \notin {"idle", "complete", "failed", "killed"}

Waiting(s, r) == \E i \in DOMAIN queue[r] : queue[r][i] = s

\* The other end of a sender's connection is open.
ServerOpen(s) == LET r == server[s]
                 IN  \/ Serving(r) /\ client[r] = s
                     \/ Listening(r) /\ Waiting(s, r)

-----------------------------------------------------------------------------
(* Cryptography, symbolically: a public key is known by its owner, the ECDH  *)
(* secret of two key pairs is the unordered pair, and AES-GCM opens with the *)
(* key that sealed.                                                         *)

PublicKey(p) == [kind |-> "key", owner |-> p]

\* Mutant of DeriveSharedSecret: derives with the own public key.
OwnSecret(own, peer) == {own}

DeriveSharedSecret(own, peer) == {own, peer}
Encrypt(message, key) == [kind |-> "data", message |-> message, key |-> key]
Authentic(frame, key) == frame.kind = "data" /\ frame.key = key

\* What is sent over a connection: public keys and encrypted messages.
Frames == [kind : {"key"}, owner : Processes]
          \cup [kind : {"data"}, message : Senders, key : SUBSET Processes]

-----------------------------------------------------------------------------
TypeOK ==
    /\ path \in Receivers \cup {NoOne}
    /\ rpc \in [Receivers -> RStates]
    /\ queue \in [Receivers -> Seq(Senders)]
    /\ client \in [Receivers -> Senders \cup {NoOne}]
    /\ output \in [Receivers -> Senders \cup {NoOne}]
    /\ spc \in [Senders -> SStates]
    /\ tries \in [Senders -> 0 .. Retries]
    /\ server \in [Senders -> Receivers \cup {NoOne}]
    /\ peer_key \in [Processes -> Processes \cup {NoOne}]
    /\ to_sender \in [Senders -> Seq(Frames)]
    /\ to_receiver \in [Senders -> Seq(Frames)]
    /\ kills \in Nat

Init == /\ path = NoOne
        /\ rpc = [r \in Receivers |-> "idle"]
        /\ queue = [r \in Receivers |-> << >>]
        /\ client = [r \in Receivers |-> NoOne]
        /\ output = [r \in Receivers |-> NoOne]
        /\ spc = [s \in Senders |-> "idle"]
        /\ tries = [s \in Senders |-> Retries]
        /\ server = [s \in Senders |-> NoOne]
        /\ peer_key = [p \in Processes |-> NoOne]
        /\ to_sender = [s \in Senders |-> << >>]
        /\ to_receiver = [s \in Senders |-> << >>]
        /\ kills = 0

-----------------------------------------------------------------------------
(* The receiver.                                                           *)

RGoto(r, label) == rpc' = [rpc EXCEPT ![r] = label]

\* Destructors and the kernel: closing the server socket resets the queue.
CloseServer(r) == queue' = [queue EXCEPT ![r] = << >>]

\* main("receive"), and socket().
StartReceiver(r) ==
    /\ rpc[r] = "idle"
    /\ RGoto(r, "created")
    /\ UNCHANGED <<path, queue, client, output, sender_vars, stream_vars, kills>>

\* "Remove old socket file if exists".
UnlinkOld(r) ==
    /\ rpc[r] = "created"
    /\ path' = NoOne
    /\ RGoto(r, "unlinked")
    /\ UNCHANGED <<queue, client, output, sender_vars, stream_vars, kills>>

\* bind fails when the path exists; the exception runs the destructor, which
\* closes a socket nobody could connect to and goes on to unlink.
Bind(r) ==
    /\ rpc[r] = "unlinked"
    /\ IF path = NoOne THEN path' = r /\ RGoto(r, "bound")
                       ELSE UNCHANGED path /\ RGoto(r, "unlinking")
    /\ UNCHANGED <<queue, client, output, sender_vars, stream_vars, kills>>

Listen(r) ==
    /\ rpc[r] = "bound"
    /\ RGoto(r, "listening")
    /\ UNCHANGED <<path, queue, client, output, sender_vars, stream_vars, kills>>

\* A system call fails.  Without a socket the destructor has nothing to do; after
\* an error of bind or listen it closes a socket nobody could connect to and goes
\* on to unlink; after an error of accept it resets the connections that wait.
StartFails(r) ==
    /\ \/ rpc[r] = "idle" /\ RGoto(r, "ended")
       \/ rpc[r] \in {"unlinked", "bound"} /\ RGoto(r, "unlinking")
       \/ rpc[r] = "listening" /\ RGoto(r, "closing")
    /\ UNCHANGED <<path, queue, client, output, sender_vars, stream_vars, kills>>

Accept(r) ==
    /\ rpc[r] = "listening"
    /\ queue[r] # << >>
    /\ client' = [client EXCEPT ![r] = Head(queue[r])]
    /\ queue' = [queue EXCEPT ![r] = Tail(@)]
    /\ RGoto(r, "serving")
    /\ UNCHANGED <<path, output, sender_vars, stream_vars, kills>>

\* Mutant of SendOwnKey: waits for the sender's key before sending its own.
SendOwnKeyLast(r) ==
    /\ rpc[r] = "serving"
    /\ to_receiver[client[r]] # << >>
    /\ to_sender' = [to_sender EXCEPT ![client[r]] = Append(@, PublicKey(r))]
    /\ RGoto(r, "await_key")
    /\ UNCHANGED <<path, queue, client, output, sender_vars, to_receiver, peer_key, kills>>

\* Generates a key pair and sends the public key first.
SendOwnKey(r) ==
    /\ rpc[r] = "serving"
    /\ IF SAlive(client[r])
       THEN /\ to_sender' = [to_sender EXCEPT ![client[r]] = Append(@, PublicKey(r))]
            /\ RGoto(r, "await_key")
            /\ UNCHANGED queue
       ELSE RGoto(r, "killed") /\ CloseServer(r) /\ UNCHANGED to_sender
    /\ UNCHANGED <<path, client, output, sender_vars, to_receiver, peer_key, kills>>

\* The receiver's stream at end of file: the sender is gone, nothing is left.
AtEnd(r) == ~SAlive(client[r]) /\ to_receiver[client[r]] = << >>

\* Mutant of ReceivePeerKey: end of file is taken for a read to try again.
ReceivePeerKeyNoEnd(r) ==
    LET s == client[r]
    IN  /\ rpc[r] = "await_key"
        /\ to_receiver[s] # << >>
        /\ peer_key' = [peer_key EXCEPT ![r] = Head(to_receiver[s]).owner]
        /\ to_receiver' = [to_receiver EXCEPT ![s] = Tail(@)]
        /\ RGoto(r, "await_data")
        /\ UNCHANGED <<path, queue, client, output, sender_vars, to_sender, kills>>

\* receiveString throws at end of file; otherwise the key is imported.
ReceivePeerKey(r) ==
    LET s == client[r]
    IN  /\ rpc[r] = "await_key"
        /\ \/ /\ to_receiver[s] # << >>
              /\ peer_key' = [peer_key EXCEPT ![r] = Head(to_receiver[s]).owner]
              /\ to_receiver' = [to_receiver EXCEPT ![s] = Tail(@)]
              /\ RGoto(r, "await_data")
           \/ /\ AtEnd(r)
              /\ RGoto(r, "closing")
              /\ UNCHANGED <<peer_key, to_receiver>>
        /\ UNCHANGED <<path, queue, client, output, sender_vars, to_sender, kills>>

\* Mutant of ReceiveData: end of file passes for an empty message.
ReceiveDataPastEnd(r) ==
    /\ rpc[r] = "await_data"
    /\ to_receiver[client[r]] # << >> \/ AtEnd(r)
    /\ output' = [output EXCEPT ![r] = client[r]]
    /\ RGoto(r, "closing")
    /\ UNCHANGED <<path, queue, client, sender_vars, stream_vars, kills>>

\* Decryption throws when the tag does not verify under the derived key.
ReceiveData(r) ==
    LET s   == client[r]
        key == DeriveSharedSecret(r, peer_key[r])
    IN  /\ rpc[r] = "await_data"
        /\ \/ /\ to_receiver[s] # << >>
              /\ to_receiver' = [to_receiver EXCEPT ![s] = Tail(@)]
              /\ output' = IF Authentic(Head(to_receiver[s]), key)
                           THEN [output EXCEPT ![r] = Head(to_receiver[s]).message]
                           ELSE output
           \/ AtEnd(r) /\ UNCHANGED <<to_receiver, output>>
        /\ RGoto(r, "closing")
        /\ UNCHANGED <<path, queue, client, sender_vars, to_sender, peer_key, kills>>

\* ~SecureReceiver: close(server_socket) ...
CloseSocket(r) ==
    /\ rpc[r] = "closing"
    /\ CloseServer(r)
    /\ RGoto(r, "unlinking")
    /\ UNCHANGED <<path, client, output, sender_vars, stream_vars, kills>>

\* Mutant of UnlinkPath: the file is left behind.
UnlinkForgotten(r) ==
    /\ rpc[r] = "unlinking"
    /\ RGoto(r, "ended")
    /\ UNCHANGED <<path, queue, client, output, sender_vars, stream_vars, kills>>

\* ... and unlink(socket_path), even if bind never succeeded.
UnlinkPath(r) ==
    /\ rpc[r] = "unlinking"
    /\ path' = NoOne
    /\ RGoto(r, "ended")
    /\ UNCHANGED <<queue, client, output, sender_vars, stream_vars, kills>>

\* SIGKILL, or SIGTERM with its default action: no destructor runs.
KillReceiver(r) ==
    /\ RAlive(r)
    /\ kills < MaxKills
    /\ kills' = kills + 1
    /\ RGoto(r, "killed")
    /\ CloseServer(r)
    /\ UNCHANGED <<path, client, output, sender_vars, stream_vars>>

-----------------------------------------------------------------------------
(* The sender.                                                             *)

SGoto(s, label) == spc' = [spc EXCEPT ![s] = label]

StartSender(s) ==
    /\ spc[s] = "idle"
    /\ SGoto(s, "connecting")
    /\ UNCHANGED <<path, receiver_vars, tries, server, stream_vars, kills>>

\* connect finds a listening socket with room in its queue; with a full queue
\* it blocks.
Connect(s) ==
    /\ spc[s] = "connecting"
    /\ path # NoOne /\ Listening(path) /\ Len(queue[path]) <= Backlog
    /\ queue' = [queue EXCEPT ![path] = Append(@, s)]
    /\ server' = [server EXCEPT ![s] = path]
    /\ SGoto(s, "await_key")
    /\ UNCHANGED <<path, rpc, client, output, tries, stream_vars, kills>>

\* Mutant of ConnectFails: `retries` is never compared with 0.
RetryForever(s) ==
    /\ spc[s] = "connecting"
    /\ path # NoOne => ~Listening(path)
    /\ tries' = [tries EXCEPT ![s] = @ - 1]
    /\ UNCHANGED <<path, receiver_vars, spc, server, stream_vars, kills>>

\* No path (ENOENT) or nobody listening there (ECONNREFUSED): try again, or
\* give up when `retries` has reached 0.
ConnectFails(s) ==
    /\ spc[s] = "connecting"
    /\ path # NoOne => ~Listening(path)
    /\ tries' = [tries EXCEPT ![s] = @ - 1]
    /\ IF tries[s] - 1 = 0 THEN SGoto(s, "failed") ELSE UNCHANGED spc
    /\ UNCHANGED <<path, receiver_vars, server, stream_vars, kills>>

\* The sender's stream at end of file throws; otherwise the receiver's public
\* key is read first.
ReceiveServerKey(s) ==
    /\ spc[s] = "await_key"
    /\ \/ /\ to_sender[s] # << >>
          /\ peer_key' = [peer_key EXCEPT ![s] = Head(to_sender[s]).owner]
          /\ to_sender' = [to_sender EXCEPT ![s] = Tail(@)]
          /\ SGoto(s, "keyed")
       \/ /\ to_sender[s] = << >> /\ ~ServerOpen(s)
          /\ SGoto(s, "failed")
          /\ UNCHANGED <<peer_key, to_sender>>
    /\ UNCHANGED <<path, receiver_vars, tries, server, to_receiver, kills>>

\* A frame written to a closed peer kills the sender.
Write(s, frame, next) ==
    IF ServerOpen(s)
    THEN to_receiver' = [to_receiver EXCEPT ![s] = Append(@, frame)] /\ SGoto(s, next)
    ELSE SGoto(s, "killed") /\ UNCHANGED to_receiver

SendKey(s) ==
    /\ spc[s] = "keyed"
    /\ Write(s, PublicKey(s), "sending")
    /\ UNCHANGED <<path, receiver_vars, tries, server, to_sender, peer_key, kills>>

\* Derives the session key, encrypts, sends, reports "Secure transfer complete!".
SendMessage(s) ==
    /\ spc[s] = "sending"
    /\ Write(s, Encrypt(s, DeriveSharedSecret(s, peer_key[s])), "complete")
    /\ UNCHANGED <<path, receiver_vars, tries, server, to_sender, peer_key, kills>>

KillSender(s) ==
    /\ SAlive(s)
    /\ kills < MaxKills
    /\ kills' = kills + 1
    /\ SGoto(s, "killed")
    /\ UNCHANGED <<path, receiver_vars, tries, server, stream_vars>>

-----------------------------------------------------------------------------
ReceiverStep(r) ==
    \/ UnlinkOld(r) \/ Bind(r) \/ Listen(r) \/ Accept(r) \/ SendOwnKey(r)
    \/ ReceivePeerKey(r) \/ ReceiveData(r) \/ CloseSocket(r) \/ UnlinkPath(r)

SenderStep(s) ==
    \/ Connect(s) \/ ConnectFails(s) \/ ReceiveServerKey(s) \/ SendKey(s)
    \/ SendMessage(s)

Next == \/ \E r \in Receivers : \/ StartReceiver(r) \/ StartFails(r) \/ ReceiverStep(r)
                                \/ KillReceiver(r)
        \/ \E s \in Senders : StartSender(s) \/ SenderStep(s) \/ KillSender(s)

Spec == Init /\ [][Next]_vars

\* A process that has been started keeps running; starting one is up to users.
FairSpec == /\ Spec
            /\ \A r \in Receivers : WF_vars(ReceiverStep(r))
            /\ \A s \in Senders : WF_vars(SenderStep(s))

-----------------------------------------------------------------------------
(* Properties.                                                             *)

\* What a receiver decrypts is the message of the one sender it accepted, who
\* finished sending it, and both ends derived the same session key.
SessionIntegrity ==
    \A r \in Receivers : output[r] # NoOne =>
        /\ output[r] = client[r]
        /\ spc[client[r]] = "complete"
        /\ DeriveSharedSecret(r, peer_key[r]) =
              DeriveSharedSecret(client[r], peer_key[client[r]])

\* Only a killed process leaves its socket file behind.
OnlyKilledLeaveFile == path # NoOne /\ ~RAlive(path) => rpc[path] = "killed"

\* A receiver that listens, with no other receiver alive, can be reached: the
\* path names its socket.
Sole(r) == \A q \in Receivers \ {r} : ~RAlive(q)
SoleListenerReachable ==
    \A r \in Receivers : rpc[r] = "listening" /\ Sole(r) => path = r

\* Nobody waits for good: every sender that was started ends, whatever happens
\* to receivers and to the other senders.
SendersEnd == \A s \in Senders : (spc[s] = "connecting") ~> ~SAlive(s)

\* A receiver that has accepted a client ends: it never waits for good for the key
\* or the data of a sender that gave up, was killed or waits for the receiver.
ReceiversEnd == \A r \in Receivers : (client[r] # NoOne) ~> ~RAlive(r)

\* "Secure transfer complete!" is the truth unless the receiver is killed.
CompleteIsReceived ==
    \A s \in Senders : (spc[s] = "complete") ~>
        \E r \in Receivers : client[r] = s /\ (output[r] = s \/ rpc[r] = "killed")
=============================================================================
