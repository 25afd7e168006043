------------------------ MODULE SecureTransferProofs ------------------------
(***************************************************************************)
(* The secure transfer program for any number of receivers and senders:     *)
(* connections belong to one receiver, what a receiver decrypts is the       *)
(* message of the sender it accepted, and a socket file left behind has a    *)
(* killed owner.                                                            *)
(***************************************************************************)
EXTENDS SecureTransfer, SequenceTheorems, TLAPS

-----------------------------------------------------------------------------
(* The inductive invariant.                                                *)

\* A connection is in one place: nowhere before connect, then in the queue of
\* the server it connected to, then with that server for good.
Connections ==
    /\ \A s \in Senders :
          /\ spc[s] \in {"idle", "connecting"} => server[s] = NoOne
          /\ spc[s] \in {"await_key", "keyed", "sending", "complete"} => server[s] \in Receivers
    /\ \A r \in Receivers : client[r] # NoOne => server[client[r]] = r
    /\ \A r \in Receivers : \A i \in DOMAIN queue[r] :
          /\ server[queue[r][i]] = r /\ client[r] # queue[r][i]
          /\ \A j \in DOMAIN queue[r] : queue[r][i] = queue[r][j] => i = j

\* A receiver has a client from accept on, and no client before.
Accepted ==
    \A r \in Receivers :
        /\ rpc[r] \in {"idle", "created", "unlinked", "bound", "listening"} => client[r] = NoOne
        /\ Serving(r) => client[r] # NoOne

\* The receiver's stream holds its key only; a sender knows no other key; and
\* a sender whose connection nobody accepted has been sent nothing.
ServerKeys ==
    /\ \A s \in Senders : \A i \in DOMAIN to_sender[s] : to_sender[s][i] = PublicKey(server[s])
    /\ \A s \in Senders : spc[s] \in {"keyed", "sending", "complete"} => peer_key[s] = server[s]
    /\ \A s \in Senders :
          (\A r \in Receivers : client[r] # s) =>
              to_sender[s] = << >> /\ spc[s] \notin {"keyed", "sending", "complete"}

Sealed(s) == Encrypt(s, DeriveSharedSecret(s, server[s]))

\* What the sender's stream holds: its key, then its message, less what the
\* receiver has read.
Unread(s) ==
    \/ to_receiver[s] = << >> /\ spc[s] \notin {"sending", "complete"}
    \/ to_receiver[s] = <<PublicKey(s)>> /\ spc[s] \in {"sending", "killed"}
    \/ to_receiver[s] = <<PublicKey(s), Sealed(s)>> /\ spc[s] = "complete"
KeyRead(s) ==
    \/ to_receiver[s] = << >> /\ spc[s] \in {"sending", "killed"}
    \/ to_receiver[s] = <<Sealed(s)>> /\ spc[s] = "complete"

Streams ==
    /\ \A s \in Senders : (\A r \in Receivers : client[r] # s) => Unread(s)
    /\ \A r \in Receivers :
          /\ rpc[r] \in {"serving", "await_key"} => Unread(client[r])
          /\ rpc[r] = "await_data" => KeyRead(client[r]) /\ peer_key[r] = client[r]

\* A message comes out of a finished session, which nobody touches again.
Outputs ==
    \A r \in Receivers : output[r] # NoOne =>
        /\ rpc[r] \in {"closing", "unlinking", "ended", "killed"}
        /\ output[r] = client[r] /\ spc[client[r]] = "complete"
        /\ peer_key[r] = client[r]

\* A sender that is still connecting has an attempt left.
Attempts == \A s \in Senders : spc[s] \in {"idle", "connecting"} => tries[s] # 0

Session == Connections /\ Accepted /\ ServerKeys /\ Streams /\ Outputs /\ Attempts

TransferInv == TypeOK /\ Session /\ OnlyKilledLeaveFile

USE SocketAssumption

-----------------------------------------------------------------------------
(* Sequences and frames.                                                   *)

\* A stream or queue with one element more.
LEMMA AppendFacts ==
    ASSUME NEW S, NEW q \in Seq(S), NEW x \in S
    PROVE  /\ Append(q, x) \in Seq(S) /\ Append(q, x) # << >>
           /\ DOMAIN q = 1 .. Len(q) /\ DOMAIN Append(q, x) = 1 .. (Len(q) + 1)
           /\ Append(q, x)[Len(q) + 1] = x
           /\ \A i \in DOMAIN q : Append(q, x)[i] = q[i]
           /\ Len(q) \in Nat
OBVIOUS

\* A stream or queue that lost its first element.
LEMMA TailFacts ==
    ASSUME NEW S, NEW q \in Seq(S), q # << >>
    PROVE  /\ Tail(q) \in Seq(S) /\ Head(q) \in S /\ Head(q) = q[1] /\ 1 \in DOMAIN q
           /\ DOMAIN q = 1 .. Len(q) /\ DOMAIN Tail(q) = 1 .. (Len(q) - 1)
           /\ \A i \in DOMAIN Tail(q) : i + 1 \in DOMAIN q /\ Tail(q)[i] = q[i + 1] /\ i + 1 # 1
           /\ Len(q) \in Nat
OBVIOUS

\* An update in place keeps a function's type.
LEMMA Updated ==
    ASSUME NEW D, NEW R, NEW f \in [D -> R], NEW x \in D, NEW v \in R
    PROVE  [f EXCEPT ![x] = v] \in [D -> R]
OBVIOUS

\* Streams hold two frames at most.
LEMMA ShortFacts ==
    ASSUME NEW a, NEW b
    PROVE  /\ Append(<< >>, a) = <<a>> /\ Append(<<a>>, b) = <<a, b>>
           /\ Head(<<a>>) = a /\ Tail(<<a>>) = << >> /\ <<a>> # << >>
           /\ Head(<<a, b>>) = a /\ Tail(<<a, b>>) = <<b>> /\ <<a, b>> # << >>
<1>1. Append(<< >>, a) = <<a>>
  OBVIOUS
<1>2. Append(<<a>>, b) = <<a, b>>
  <2>1. <<a>> \in Seq({a, b}) /\ <<a, b>> \in Seq({a, b}) /\ Len(<<a>>) = 1 /\ Len(<<a, b>>) = 2
    OBVIOUS
  <2>2. /\ Append(<<a>>, b) \in Seq({a, b}) /\ Len(Append(<<a>>, b)) = 2
        /\ Append(<<a>>, b)[1] = a /\ Append(<<a>>, b)[2] = b
    BY <2>1
  <2>3. <<a, b>>[1] = a /\ <<a, b>>[2] = b
    OBVIOUS
  <2>4. \A i \in 1 .. 2 : Append(<<a>>, b)[i] = <<a, b>>[i]
    BY <2>2, <2>3
  <2>5. QED BY <2>1, <2>2, <2>4, SeqEqual
<1>3. Head(<<a>>) = a /\ Head(<<a, b>>) = a /\ <<a>> # << >> /\ <<a, b>> # << >>
  OBVIOUS
<1>4. Tail(<<a>>) = << >>
  OBVIOUS
<1>5. Tail(<<a, b>>) = <<b>>
  OBVIOUS
<1>6. QED BY <1>1, <1>2, <1>3, <1>4, <1>5

\* What each kind of frame carries, and that the sealing key opens it.
LEMMA FrameFacts ==
    ASSUME NEW p \in Processes, NEW s \in Senders, NEW k \in SUBSET Processes
    PROVE  /\ PublicKey(p) \in Frames /\ PublicKey(p).owner = p
           /\ Encrypt(s, k) \in Frames /\ Encrypt(s, k).message = s
           /\ Authentic(Encrypt(s, k), k)
BY DEF PublicKey, Encrypt, Frames, Authentic

-----------------------------------------------------------------------------
(* What a step leaves alone.                                               *)

\* A sender whose own view of its stream stays in order.
LEMMA SenderStreams ==
    ASSUME TypeOK, Streams, Accepted, NEW s \in Senders, UNCHANGED <<rpc, client>>,
           \A r \in Receivers : peer_key'[r] = peer_key[r],
           \A z \in Senders : z # s => /\ to_receiver'[z] = to_receiver[z]
                                       /\ spc'[z] = spc[z] /\ server'[z] = server[z],
           Unread(s) => Unread(s)', KeyRead(s) => KeyRead(s)'
    PROVE  Streams'
<1>1. \A z \in Senders : (Unread(z) => Unread(z)') /\ (KeyRead(z) => KeyRead(z)')
  BY DEF Unread, KeyRead, Sealed
<1>2. \A r \in Receivers : rpc[r] \in {"serving", "await_key", "await_data"} => client[r] \in Senders
  BY DEF TypeOK, Accepted, Serving
<1>3. QED BY <1>1, <1>2 DEF Streams

\* A receiver that deals with its own client.
LEMMA ReceiverStreams ==
    ASSUME TypeOK, Connections, Accepted, Streams, NEW r \in Receivers, client[r] \in Senders,
           UNCHANGED <<client, spc, server>>,
           \A q \in Receivers : q # r => rpc'[q] = rpc[q] /\ peer_key'[q] = peer_key[q],
           \A z \in Senders : z # client[r] => to_receiver'[z] = to_receiver[z],
           rpc'[r] \in {"serving", "await_key"} => Unread(client[r])',
           rpc'[r] = "await_data" => KeyRead(client[r])' /\ peer_key'[r] = client[r]
    PROVE  Streams'
<1>1. \A z \in Senders : z # client[r] => (Unread(z)' <=> Unread(z)) /\ (KeyRead(z)' <=> KeyRead(z))
  BY DEF Unread, KeyRead, Sealed
<1>2. \A q \in Receivers : rpc[q] \in {"serving", "await_key", "await_data"} =>
            client[q] \in Senders /\ (q # r => client[q] # client[r])
  BY DEF TypeOK, Accepted, Serving, Connections
<1>3. QED BY <1>1, <1>2 DEF Streams

\* Finished sessions.
LEMMA OutputsKept ==
    ASSUME Outputs, TypeOK, UNCHANGED <<output, client>>,
           \A r \in Receivers : output[r] # NoOne =>
               /\ rpc'[r] \in {"closing", "unlinking", "ended", "killed"}
               /\ peer_key'[r] = peer_key[r]
               /\ client[r] \in Senders => spc'[client[r]] = spc[client[r]]
    PROVE  Outputs'
<1>1. \A r \in Receivers : output[r] # NoOne => client[r] \in Senders
  BY DEF Outputs, TypeOK
<1>2. QED BY <1>1 DEF Outputs

-----------------------------------------------------------------------------
(* Steps.                                                                  *)

\* Nothing has run yet.
LEMMA InitTransfer == Init => TransferInv
BY DEF Init, TransferInv, Session, TypeOK, RStates, SStates, Connections, Accepted, ServerKeys,
       Streams, Unread, KeyRead, Outputs, Attempts, OnlyKilledLeaveFile, Serving

\* A receiver starts.
LEMMA StartReceiverStep ==
    ASSUME TransferInv, NEW r \in Receivers, StartReceiver(r)
    PROVE  TransferInv'
<1> USE DEF TransferInv, Session, StartReceiver, RGoto,
            path_vars, receiver_vars, sender_vars, stream_vars
<1>1. TypeOK'
  BY DEF TypeOK, RStates, SStates, Frames, PublicKey, Encrypt, Processes
<1>2. Connections'
  BY DEF Connections, TypeOK
<1>3. Accepted'
  BY DEF Accepted, TypeOK, Serving
<1>4. ServerKeys'
  BY DEF ServerKeys, TypeOK, PublicKey, Processes, Connections
<1>5. Streams'
  BY DEF Streams, TypeOK, Unread, KeyRead, Sealed, Processes, Connections, PublicKey
<1>6. Outputs'
  BY DEF Outputs, TypeOK, Connections
<1>7. Attempts'
  BY DEF Attempts, TypeOK
<1>8. OnlyKilledLeaveFile'
  BY DEF OnlyKilledLeaveFile, RAlive, TypeOK
<1>9. QED BY <1>1, <1>2, <1>3, <1>4, <1>5, <1>6, <1>7, <1>8

\* It removes the file of an earlier run, or of one that still runs.
LEMMA UnlinkOldStep ==
    ASSUME TransferInv, NEW r \in Receivers, UnlinkOld(r)
    PROVE  TransferInv'
<1> USE DEF TransferInv, Session, UnlinkOld, RGoto,
            path_vars, receiver_vars, sender_vars, stream_vars
<1>1. TypeOK'
  BY DEF TypeOK, RStates, SStates, Frames, PublicKey, Encrypt, Processes
<1>2. Connections'
  BY DEF Connections, TypeOK
<1>3. Accepted'
  BY DEF Accepted, TypeOK, Serving
<1>4. ServerKeys'
  BY DEF ServerKeys, TypeOK, PublicKey, Processes, Connections
<1>5. Streams'
  BY DEF Streams, TypeOK, Unread, KeyRead, Sealed, Processes, Connections, PublicKey
<1>6. Outputs'
  BY DEF Outputs, TypeOK, Connections
<1>7. Attempts'
  BY DEF Attempts, TypeOK
<1>8. OnlyKilledLeaveFile'
  BY DEF OnlyKilledLeaveFile, RAlive, TypeOK
<1>9. QED BY <1>1, <1>2, <1>3, <1>4, <1>5, <1>6, <1>7, <1>8

\* It binds, or gives up when another receiver was faster.
LEMMA BindStep ==
    ASSUME TransferInv, NEW r \in Receivers, Bind(r)
    PROVE  TransferInv'
<1> USE DEF TransferInv, Session, Bind, RGoto,
            path_vars, receiver_vars, sender_vars, stream_vars
<1>1. TypeOK'
  BY DEF TypeOK, RStates, SStates, Frames, PublicKey, Encrypt, Processes
<1>2. Connections'
  BY DEF Connections, TypeOK
<1>3. Accepted'
  BY DEF Accepted, TypeOK, Serving
<1>4. ServerKeys'
  BY DEF ServerKeys, TypeOK, PublicKey, Processes, Connections
<1>5. Streams'
  BY DEF Streams, TypeOK, Unread, KeyRead, Sealed, Processes, Connections, PublicKey
<1>6. Outputs'
  <2>1. output[r] = NoOne /\ \A q \in Receivers : q # r => rpc'[q] = rpc[q]
    BY DEF Outputs, TypeOK
  <2>2. QED BY <2>1, OutputsKept DEF Outputs
<1>7. Attempts'
  BY DEF Attempts, TypeOK
<1>8. OnlyKilledLeaveFile'
  BY DEF OnlyKilledLeaveFile, RAlive, TypeOK
<1>9. QED BY <1>1, <1>2, <1>3, <1>4, <1>5, <1>6, <1>7, <1>8

\* A system call of the receiver fails.
LEMMA StartFailsStep ==
    ASSUME TransferInv, NEW r \in Receivers, StartFails(r)
    PROVE  TransferInv'
<1> USE DEF TransferInv, Session, StartFails, RGoto,
            path_vars, receiver_vars, sender_vars, stream_vars
<1>1. TypeOK'
  BY DEF TypeOK, RStates, SStates, Frames, PublicKey, Encrypt, Processes
<1>2. Connections'
  BY DEF Connections, TypeOK
<1>3. Accepted'
  BY DEF Accepted, TypeOK, Serving
<1>4. ServerKeys'
  BY DEF ServerKeys, TypeOK, PublicKey, Processes, Connections
<1>5. Streams'
  BY DEF Streams, TypeOK, Unread, KeyRead, Sealed, Processes, Connections, PublicKey
<1>6. Outputs'
  <2>1. output[r] = NoOne /\ \A q \in Receivers : q # r => rpc'[q] = rpc[q]
    BY DEF Outputs, TypeOK
  <2>2. QED BY <2>1, OutputsKept DEF Outputs
<1>7. Attempts'
  BY DEF Attempts, TypeOK
<1>8. OnlyKilledLeaveFile'
  BY DEF OnlyKilledLeaveFile, RAlive, TypeOK
<1>9. QED BY <1>1, <1>2, <1>3, <1>4, <1>5, <1>6, <1>7, <1>8

\* It listens.
LEMMA ListenStep ==
    ASSUME TransferInv, NEW r \in Receivers, Listen(r)
    PROVE  TransferInv'
<1> USE DEF TransferInv, Session, Listen, RGoto,
            path_vars, receiver_vars, sender_vars, stream_vars
<1>1. TypeOK'
  BY DEF TypeOK, RStates, SStates, Frames, PublicKey, Encrypt, Processes
<1>2. Connections'
  BY DEF Connections, TypeOK
<1>3. Accepted'
  BY DEF Accepted, TypeOK, Serving
<1>4. ServerKeys'
  BY DEF ServerKeys, TypeOK, PublicKey, Processes, Connections
<1>5. Streams'
  BY DEF Streams, TypeOK, Unread, KeyRead, Sealed, Processes, Connections, PublicKey
<1>6. Outputs'
  BY DEF Outputs, TypeOK, Connections
<1>7. Attempts'
  BY DEF Attempts, TypeOK
<1>8. OnlyKilledLeaveFile'
  BY DEF OnlyKilledLeaveFile, RAlive, TypeOK
<1>9. QED BY <1>1, <1>2, <1>3, <1>4, <1>5, <1>6, <1>7, <1>8

\* The head of the queue becomes the client; no other receiver has it.
LEMMA AcceptStep ==
    ASSUME TransferInv, NEW r \in Receivers, Accept(r)
    PROVE  TransferInv'
<1> USE DEF TransferInv, Session, Accept, RGoto,
            path_vars, receiver_vars, sender_vars, stream_vars
<1>1. TypeOK'
  BY DEF TypeOK, RStates, SStates, Frames, PublicKey, Encrypt, Processes
<1>2. Connections'
  <2>1. /\ DOMAIN queue[r] = 1 .. Len(queue[r]) /\ 1 \in DOMAIN queue[r]
        /\ Head(queue[r]) = queue[r][1] /\ Head(queue[r]) \in Senders
        /\ \A i \in DOMAIN Tail(queue[r]) : /\ i \in Nat /\ i + 1 \in DOMAIN queue[r] /\ i + 1 # 1
                                            /\ Tail(queue[r])[i] = queue[r][i + 1]
    BY TailFacts DEF TypeOK
  <2>2. \A i, j \in DOMAIN Tail(queue[r]) : i + 1 = j + 1 => i = j
    BY <2>1
  <2>3. /\ client'[r] = queue[r][1] /\ queue'[r] = Tail(queue[r]) /\ client[r] = NoOne
        /\ \A q \in Receivers : q # r => client'[q] = client[q] /\ queue'[q] = queue[q]
    BY <2>1 DEF TypeOK, Accepted
  <2>4. \A i \in DOMAIN queue'[r] :
            /\ server[queue'[r][i]] = r /\ client'[r] # queue'[r][i]
            /\ \A j \in DOMAIN queue'[r] : queue'[r][i] = queue'[r][j] => i = j
    <3>1. \A i, j \in DOMAIN queue[r] : server[queue[r][i]] = r /\ (queue[r][i] = queue[r][j] => i = j)
      BY DEF Connections
    <3>2. \A i \in DOMAIN Tail(queue[r]) :
              server[queue[r][i + 1]] = r /\ queue[r][i + 1] # queue[r][1]
      BY <2>1, <3>1
    <3>3. \A i, j \in DOMAIN Tail(queue[r]) : queue[r][i + 1] = queue[r][j + 1] => i = j
      BY <2>1, <2>2, <3>1
    <3> HIDE DEF TransferInv, Accept
    <3>4. QED BY <2>1, <2>3, <3>2, <3>3
  <2>5. server[client'[r]] = r
    BY <2>1, <2>3 DEF Connections
  <2>6. QED BY <2>3, <2>4, <2>5 DEF Connections
<1>3. Accepted'
  BY DEF Accepted, TypeOK, Serving
<1>4. ServerKeys'
  <2>1. \A z \in Senders : (\A q \in Receivers : client'[q] # z) => \A q \in Receivers : client[q] # z
    BY DEF TypeOK, Accepted
  <2>2. QED BY <2>1 DEF ServerKeys
<1>5. Streams'
  <2> DEFINE s == Head(queue[r])
  <2>0. s \in Senders /\ s = queue[r][1] /\ 1 \in DOMAIN queue[r]
    BY TailFacts DEF TypeOK
  <2>1. s \in Senders /\ \A q \in Receivers : client[q] # s
    BY <2>0 DEF Connections
  <2>2. Unread(s)
    BY <2>1 DEF Streams
  <2>3. \A z \in Senders : (Unread(z)' <=> Unread(z)) /\ (KeyRead(z)' <=> KeyRead(z))
    BY DEF Unread, KeyRead, Sealed
  <2>4. \A z \in Senders : (\A q \in Receivers : client'[q] # z) => \A q \in Receivers : client[q] # z
    BY DEF TypeOK, Accepted
  <2>5. client'[r] = s /\ rpc'[r] = "serving"
    BY DEF TypeOK
  <2>6. \A q \in Receivers : q # r => /\ client'[q] = client[q]
                                      /\ rpc'[q] = rpc[q] /\ peer_key'[q] = peer_key[q]
    BY DEF TypeOK
  <2>7. \A q \in Receivers : rpc[q] \in {"serving", "await_key", "await_data"} => client[q] \in Senders
    BY DEF TypeOK, Accepted, Serving
  <2> HIDE DEF s
  <2>8. QED BY <2>1, <2>2, <2>3, <2>4, <2>5, <2>6, <2>7 DEF Streams
<1>6. Outputs'
  BY DEF Outputs, TypeOK, Connections
<1>7. Attempts'
  BY DEF Attempts, TypeOK
<1>8. OnlyKilledLeaveFile'
  BY DEF OnlyKilledLeaveFile, RAlive, TypeOK
<1>9. QED BY <1>1, <1>2, <1>3, <1>4, <1>5, <1>6, <1>7, <1>8

\* The server's key goes to its client, or the write kills the server.
LEMMA SendOwnKeyStep ==
    ASSUME TransferInv, NEW r \in Receivers, SendOwnKey(r)
    PROVE  TransferInv'
<1> USE DEF TransferInv, Session, SendOwnKey, RGoto, CloseServer,
            path_vars, receiver_vars, sender_vars, stream_vars
<1>1. TypeOK'
  <2>1. client[r] \in Senders /\ r \in Processes
    BY DEF TypeOK, Accepted, Serving, Processes
  <2>2. Append(to_sender[client[r]], PublicKey(r)) \in Seq(Frames)
    BY <2>1, AppendFacts, FrameFacts DEF TypeOK
  <2>3. to_sender' \in [Senders -> Seq(Frames)]
    <3>1. \/ to_sender' = to_sender
          \/ to_sender' = [to_sender EXCEPT ![client[r]] = Append(to_sender[client[r]], PublicKey(r))]
      OBVIOUS
    <3>2. to_sender \in [Senders -> Seq(Frames)]
      BY DEF TypeOK
    <3> HIDE DEF TransferInv, SendOwnKey
    <3>3. ASSUME NEW v \in Seq(Frames)
          PROVE  [to_sender EXCEPT ![client[r]] = v] \in [Senders -> Seq(Frames)]
      BY <2>1, <3>2, Updated
    <3>4. QED BY <2>2, <3>1, <3>2, <3>3
  <2>4. rpc' \in [Receivers -> RStates]
    BY DEF TypeOK, RStates
  <2>5. queue' \in [Receivers -> Seq(Senders)]
    <3>1. queue' = queue \/ queue' = [queue EXCEPT ![r] = << >>]
      OBVIOUS
    <3>2. queue \in [Receivers -> Seq(Senders)] /\ << >> \in Seq(Senders)
      BY DEF TypeOK
    <3> HIDE DEF TransferInv, SendOwnKey
    <3>3. [queue EXCEPT ![r] = << >>] \in [Receivers -> Seq(Senders)]
      BY <3>2, Updated
    <3>4. QED BY <3>1, <3>2, <3>3
  <2>6. QED BY <2>3, <2>4, <2>5 DEF TypeOK
<1>2. Connections'
  <2>1. queue'[r] = queue[r] \/ queue'[r] = << >>
    BY DEF TypeOK
  <2>2. \A q \in Receivers : q # r => queue'[q] = queue[q]
    BY DEF TypeOK
  <2>3. DOMAIN << >> = {}
    OBVIOUS
  <2>4. QED BY <2>1, <2>2, <2>3 DEF Connections
<1>3. Accepted'
  BY DEF Accepted, TypeOK, Serving
<1>4. ServerKeys'
  <2>1. client[r] \in Senders /\ r \in Processes
    BY DEF TypeOK, Accepted, Serving, Processes
  <2>2. PICK q \in Seq(Frames) : q = to_sender[client[r]]
    BY <2>1 DEF TypeOK
  <2>3. \A i \in DOMAIN q : q[i] = PublicKey(r)
    BY <2>1, <2>2 DEF ServerKeys, Connections
  <2>4. \A i \in DOMAIN Append(q, PublicKey(r)) : Append(q, PublicKey(r))[i] = PublicKey(r)
    BY <2>1, <2>3, AppendFacts, FrameFacts
  <2>5. /\ server[client[r]] = r
        /\ to_sender'[client[r]] \in {q, Append(q, PublicKey(r))}
        /\ \A z \in Senders : z # client[r] => to_sender'[z] = to_sender[z]
    BY <2>1, <2>2 DEF TypeOK, Connections
  <2>6. ASSUME NEW z \in Senders
        PROVE  \A i \in DOMAIN to_sender'[z] : to_sender'[z][i] = PublicKey(server[z])
    <3>1. CASE z # client[r]
      BY <2>5, <3>1 DEF ServerKeys
    <3>2. CASE z = client[r]
      BY <2>3, <2>4, <2>5, <3>2
    <3>3. QED BY <3>1, <3>2
  <2>7. QED BY <2>1, <2>5, <2>6 DEF ServerKeys
<1>5. Streams'
  <2>1. client[r] \in Senders /\ r \in Processes
    BY DEF TypeOK, Accepted, Serving, Processes
  <2>2. /\ rpc'[r] \in {"await_key", "killed"} /\ \A q \in Receivers : q # r => rpc'[q] = rpc[q]
    BY DEF TypeOK
  <2>3. Unread(client[r]) /\ (Unread(client[r]) <=> Unread(client[r])')
    BY DEF Streams, Unread, Sealed
  <2>4. QED BY <2>1, <2>2, <2>3, ReceiverStreams
<1>6. Outputs'
  <2>1. output[r] = NoOne /\ \A q \in Receivers : q # r => rpc'[q] = rpc[q]
    BY DEF Outputs, TypeOK
  <2>2. QED BY <2>1, OutputsKept DEF Outputs
<1>7. Attempts'
  BY DEF Attempts, TypeOK
<1>8. OnlyKilledLeaveFile'
  BY DEF OnlyKilledLeaveFile, RAlive, TypeOK
<1>9. QED BY <1>1, <1>2, <1>3, <1>4, <1>5, <1>6, <1>7, <1>8

\* The first frame of the client is its key.
LEMMA ReceivePeerKeyStep ==
    ASSUME TransferInv, NEW r \in Receivers, ReceivePeerKey(r)
    PROVE  TransferInv'
<1> USE DEF TransferInv, Session, ReceivePeerKey, RGoto,
            path_vars, receiver_vars, sender_vars, stream_vars
<1>1. TypeOK'
  <2>1. client[r] \in Senders /\ r \in Processes
    BY DEF TypeOK, Accepted, Serving, Processes
  <2>2. Unread(client[r])
    BY DEF Streams
  <2>3. to_receiver[client[r]] # << >> => Head(to_receiver[client[r]]) = PublicKey(client[r])
    BY <2>2, ShortFacts DEF Unread
  <2>4. PublicKey(client[r]).owner = client[r]
    BY DEF PublicKey
  <2>5. to_receiver[client[r]] # << >> => Tail(to_receiver[client[r]]) \in Seq(Frames)
    BY <2>1, TailFacts DEF TypeOK
  <2>6. to_receiver' \in [Senders -> Seq(Frames)]
    <3>1. \/ to_receiver' = to_receiver
          \/ /\ to_receiver[client[r]] # << >>
             /\ to_receiver' = [to_receiver EXCEPT ![client[r]] = Tail(to_receiver[client[r]])]
      OBVIOUS
    <3>2. to_receiver \in [Senders -> Seq(Frames)]
      BY DEF TypeOK
    <3> HIDE DEF TransferInv, ReceivePeerKey
    <3>3. ASSUME NEW v \in Seq(Frames)
          PROVE  [to_receiver EXCEPT ![client[r]] = v] \in [Senders -> Seq(Frames)]
      BY <2>1, <3>2, Updated
    <3>4. QED BY <2>5, <3>1, <3>2, <3>3
  <2>7. peer_key' \in [Processes -> Processes \cup {NoOne}]
    BY <2>1, <2>3, <2>4 DEF TypeOK, Processes
  <2>8. rpc' \in [Receivers -> RStates]
    BY DEF TypeOK, RStates
  <2>9. QED BY <2>6, <2>7, <2>8 DEF TypeOK
<1>2. Connections'
  BY DEF Connections, TypeOK
<1>3. Accepted'
  BY DEF Accepted, TypeOK, Serving
<1>4. ServerKeys'
  BY DEF ServerKeys, TypeOK, PublicKey, Processes, Connections
<1>5. Streams'
  <2>1. client[r] \in Senders /\ r \in Processes
    BY DEF TypeOK, Accepted, Serving, Processes
  <2>2. Unread(client[r])
    BY DEF Streams
  <2>3. to_receiver[client[r]] # << >> => Head(to_receiver[client[r]]) = PublicKey(client[r])
    BY <2>2, ShortFacts DEF Unread
  <2>4. PublicKey(client[r]).owner = client[r]
    BY DEF PublicKey
  <2>5. CASE AtEnd(r) /\ rpc'[r] = "closing" /\ UNCHANGED <<peer_key, to_receiver>>
    BY <2>1, <2>5, ReceiverStreams DEF TypeOK
  <2>6. CASE /\ to_receiver[client[r]] # << >> /\ rpc'[r] = "await_data"
             /\ peer_key' = [peer_key EXCEPT ![r] = Head(to_receiver[client[r]]).owner]
             /\ to_receiver' = [to_receiver EXCEPT ![client[r]] = Tail(@)]
    <3>1. to_receiver'[client[r]] = Tail(to_receiver[client[r]])
      BY <2>1, <2>6 DEF TypeOK
    <3>2. Sealed(client[r])' = Sealed(client[r]) /\ client' = client /\ spc' = spc
      BY DEF Sealed
    <3>3. \/ Tail(to_receiver[client[r]]) = << >> /\ spc[client[r]] \in {"sending", "killed"}
          \/ Tail(to_receiver[client[r]]) = <<Sealed(client[r])>> /\ spc[client[r]] = "complete"
      <4> DEFINE key == PublicKey(client[r])  data == Sealed(client[r])
      <4>1. Tail(<<key>>) = << >> /\ Tail(<<key, data>>) = <<data>>
        BY ShortFacts
      <4>2. QED BY <2>2, <2>6, <4>1 DEF Unread
    <3>4. KeyRead(client[r])'
      BY <3>1, <3>2, <3>3 DEF KeyRead
    <3>5. peer_key'[r] = client[r]
      BY <2>1, <2>3, <2>4, <2>6 DEF TypeOK
    <3>6. QED BY <2>1, <2>6, <3>4, <3>5, ReceiverStreams DEF TypeOK, Processes
  <2>7. QED BY <2>5, <2>6 DEF TypeOK
<1>6. Outputs'
  BY OutputsKept DEF TypeOK, Outputs, Processes
<1>7. Attempts'
  BY DEF Attempts, TypeOK
<1>8. OnlyKilledLeaveFile'
  BY DEF OnlyKilledLeaveFile, RAlive, TypeOK
<1>9. QED BY <1>1, <1>2, <1>3, <1>4, <1>5, <1>6, <1>7, <1>8

\* The second frame opens under the key derived from the first.
LEMMA ReceiveDataStep ==
    ASSUME TransferInv, NEW r \in Receivers, ReceiveData(r)
    PROVE  TransferInv'
<1> USE DEF TransferInv, Session, ReceiveData, RGoto,
            path_vars, receiver_vars, sender_vars, stream_vars
<1>1. TypeOK'
  <2>1. client[r] \in Senders /\ r \in Processes
    BY DEF TypeOK, Accepted, Serving, Processes
  <2>2. KeyRead(client[r]) /\ peer_key[r] = client[r] /\ server[client[r]] = r
    BY <2>1 DEF Streams, Connections
  <2>3. to_receiver[client[r]] # << >> =>
            /\ Head(to_receiver[client[r]]) = Encrypt(client[r], {client[r], r})
            /\ spc[client[r]] = "complete"
    BY <2>2, ShortFacts DEF KeyRead, Sealed, DeriveSharedSecret
  <2>4. /\ Encrypt(client[r], {client[r], r}).message = client[r]
        /\ DeriveSharedSecret(r, peer_key[r]) = {client[r], r}
        /\ Authentic(Encrypt(client[r], {client[r], r}), {client[r], r})
    BY <2>2 DEF Encrypt, Authentic, DeriveSharedSecret
  <2>5. output' = output \/ (output' = [output EXCEPT ![r] = client[r]] /\ spc[client[r]] = "complete")
    BY <2>3, <2>4
  <2>6. to_receiver[client[r]] # << >> => Tail(to_receiver[client[r]]) \in Seq(Frames)
    BY <2>1, TailFacts DEF TypeOK
  <2>7. to_receiver' \in [Senders -> Seq(Frames)]
    BY <2>1, <2>6 DEF TypeOK
  <2>8. QED BY <2>1, <2>5, <2>7 DEF TypeOK, RStates
<1>2. Connections'
  BY DEF Connections, TypeOK
<1>3. Accepted'
  BY DEF Accepted, TypeOK, Serving
<1>4. ServerKeys'
  BY DEF ServerKeys, TypeOK, PublicKey, Processes, Connections
<1>5. Streams'
  <2>1. client[r] \in Senders /\ r \in Processes
    BY DEF TypeOK, Accepted, Serving, Processes
  <2>2. /\ rpc'[r] = "closing" /\ \A q \in Receivers : q # r => rpc'[q] = rpc[q]
        /\ \A z \in Senders : z # client[r] => to_receiver'[z] = to_receiver[z]
    BY <2>1 DEF TypeOK
  <2>3. QED BY <2>1, <2>2, ReceiverStreams DEF TypeOK
<1>6. Outputs'
  <2>1. client[r] \in Senders /\ r \in Processes
    BY DEF TypeOK, Accepted, Serving, Processes
  <2>2. KeyRead(client[r]) /\ peer_key[r] = client[r] /\ server[client[r]] = r
    BY <2>1 DEF Streams, Connections
  <2>3. to_receiver[client[r]] # << >> =>
            /\ Head(to_receiver[client[r]]) = Encrypt(client[r], {client[r], r})
            /\ spc[client[r]] = "complete"
    BY <2>2, ShortFacts DEF KeyRead, Sealed, DeriveSharedSecret
  <2>4. /\ Encrypt(client[r], {client[r], r}).message = client[r]
        /\ DeriveSharedSecret(r, peer_key[r]) = {client[r], r}
        /\ Authentic(Encrypt(client[r], {client[r], r}), {client[r], r})
    BY <2>2 DEF Encrypt, Authentic, DeriveSharedSecret
  <2>5. output' = output \/ (output' = [output EXCEPT ![r] = client[r]] /\ spc[client[r]] = "complete")
    BY <2>3, <2>4
  <2>6. rpc'[r] = "closing" /\ \A q \in Receivers : q # r => rpc'[q] = rpc[q]
    BY DEF TypeOK
  <2>7. output'[r] \in {output[r], client[r]} /\ \A q \in Receivers : q # r => output'[q] = output[q]
    BY <2>1, <2>5 DEF TypeOK
  <2>8. output[r] = NoOne
    BY DEF Outputs
  <2>9. QED BY <2>1, <2>2, <2>5, <2>6, <2>7, <2>8 DEF Outputs
<1>7. Attempts'
  BY DEF Attempts, TypeOK
<1>8. OnlyKilledLeaveFile'
  BY DEF OnlyKilledLeaveFile, RAlive, TypeOK
<1>9. QED BY <1>1, <1>2, <1>3, <1>4, <1>5, <1>6, <1>7, <1>8

\* The destructor resets waiting connections ...
LEMMA CloseSocketStep ==
    ASSUME TransferInv, NEW r \in Receivers, CloseSocket(r)
    PROVE  TransferInv'
<1> USE DEF TransferInv, Session, CloseSocket, RGoto, CloseServer,
            path_vars, receiver_vars, sender_vars, stream_vars
<1>1. TypeOK'
  BY DEF TypeOK, RStates, SStates, Frames, PublicKey, Encrypt, Processes
<1>2. Connections'
  BY DEF Connections, TypeOK
<1>3. Accepted'
  BY DEF Accepted, TypeOK, Serving
<1>4. ServerKeys'
  BY DEF ServerKeys, TypeOK, PublicKey, Processes, Connections
<1>5. Streams'
  BY DEF Streams, TypeOK, Unread, KeyRead, Sealed, Processes, Connections, PublicKey
<1>6. Outputs'
  BY DEF Outputs, TypeOK, Connections
<1>7. Attempts'
  BY DEF Attempts, TypeOK
<1>8. OnlyKilledLeaveFile'
  BY DEF OnlyKilledLeaveFile, RAlive, TypeOK
<1>9. QED BY <1>1, <1>2, <1>3, <1>4, <1>5, <1>6, <1>7, <1>8

\* ... and removes whatever file is at the path.
LEMMA UnlinkPathStep ==
    ASSUME TransferInv, NEW r \in Receivers, UnlinkPath(r)
    PROVE  TransferInv'
<1> USE DEF TransferInv, Session, UnlinkPath, RGoto,
            path_vars, receiver_vars, sender_vars, stream_vars
<1>1. TypeOK'
  BY DEF TypeOK, RStates, SStates, Frames, PublicKey, Encrypt, Processes
<1>2. Connections'
  BY DEF Connections, TypeOK
<1>3. Accepted'
  BY DEF Accepted, TypeOK, Serving
<1>4. ServerKeys'
  BY DEF ServerKeys, TypeOK, PublicKey, Processes, Connections
<1>5. Streams'
  BY DEF Streams, TypeOK, Unread, KeyRead, Sealed, Processes, Connections, PublicKey
<1>6. Outputs'
  BY DEF Outputs, TypeOK, Connections
<1>7. Attempts'
  BY DEF Attempts, TypeOK
<1>8. OnlyKilledLeaveFile'
  BY DEF OnlyKilledLeaveFile, RAlive, TypeOK
<1>9. QED BY <1>1, <1>2, <1>3, <1>4, <1>5, <1>6, <1>7, <1>8

\* No destructor runs; the kernel closes the sockets.
LEMMA KillReceiverStep ==
    ASSUME TransferInv, NEW r \in Receivers, KillReceiver(r)
    PROVE  TransferInv'
<1> USE DEF TransferInv, Session, KillReceiver, RGoto, CloseServer,
            path_vars, receiver_vars, sender_vars, stream_vars
<1>1. TypeOK'
  BY DEF TypeOK, RStates, SStates, Frames, PublicKey, Encrypt, Processes
<1>2. Connections'
  BY DEF Connections, TypeOK
<1>3. Accepted'
  BY DEF Accepted, TypeOK, Serving
<1>4. ServerKeys'
  BY DEF ServerKeys, TypeOK, PublicKey, Processes, Connections
<1>5. Streams'
  BY DEF Streams, TypeOK, Unread, KeyRead, Sealed, Processes, Connections, PublicKey
<1>6. Outputs'
  BY DEF Outputs, TypeOK, Connections
<1>7. Attempts'
  BY DEF Attempts, TypeOK
<1>8. OnlyKilledLeaveFile'
  BY DEF OnlyKilledLeaveFile, RAlive, TypeOK
<1>9. QED BY <1>1, <1>2, <1>3, <1>4, <1>5, <1>6, <1>7, <1>8

\* A sender starts.
LEMMA StartSenderStep ==
    ASSUME TransferInv, NEW s \in Senders, StartSender(s)
    PROVE  TransferInv'
<1> USE DEF TransferInv, Session, StartSender, SGoto,
            path_vars, receiver_vars, sender_vars, stream_vars
<1>1. TypeOK'
  BY DEF TypeOK, RStates, SStates, Frames, PublicKey, Encrypt, Processes
<1>2. Connections'
  BY DEF Connections, TypeOK
<1>3. Accepted'
  BY DEF Accepted, TypeOK, Serving
<1>4. ServerKeys'
  BY DEF ServerKeys, TypeOK, PublicKey, Processes, Connections
<1>5. Streams'
  BY DEF Streams, TypeOK, Unread, KeyRead, Sealed, Processes, Connections, PublicKey
<1>6. Outputs'
  BY DEF Outputs, TypeOK, Connections
<1>7. Attempts'
  BY DEF Attempts, TypeOK
<1>8. OnlyKilledLeaveFile'
  BY DEF OnlyKilledLeaveFile, RAlive, TypeOK
<1>9. QED BY <1>1, <1>2, <1>3, <1>4, <1>5, <1>6, <1>7, <1>8

\* A connection enters one queue, of the receiver the path names.
LEMMA ConnectStep ==
    ASSUME TransferInv, NEW s \in Senders, Connect(s)
    PROVE  TransferInv'
<1> USE DEF TransferInv, Session, Connect, SGoto,
            path_vars, receiver_vars, sender_vars, stream_vars
<1>1. TypeOK'
  BY DEF TypeOK, RStates, SStates, Frames, PublicKey, Encrypt, Processes
<1>2. Connections'
  <2>1. \A q \in Receivers : client[q] # s
    BY DEF Connections
  <2>2. path \in Receivers /\ server[s] = NoOne
    BY DEF TypeOK, Connections
  <2>3. \A q \in Receivers : \A i \in DOMAIN queue[q] : queue[q][i] # s
    BY <2>2 DEF Connections
  <2>4. /\ DOMAIN queue[path] = 1 .. Len(queue[path]) /\ Len(queue[path]) \in Nat
        /\ DOMAIN queue'[path] = 1 .. (Len(queue[path]) + 1) /\ queue'[path][Len(queue[path]) + 1] = s
        /\ \A i \in DOMAIN queue[path] : queue'[path][i] = queue[path][i]
    <3>1. queue[path] \in Seq(Senders) /\ queue'[path] = Append(queue[path], s)
      BY <2>2 DEF TypeOK
    <3> HIDE DEF TransferInv, Session, Connect
    <3>2. QED BY <3>1, AppendFacts
  <2>5. \A i \in DOMAIN queue'[path] : i \in DOMAIN queue[path] \/ i = Len(queue[path]) + 1
    BY <2>4
  <2>6. \A i, j \in DOMAIN queue'[path] : queue'[path][i] = queue'[path][j] => i = j
    BY <2>2, <2>3, <2>4, <2>5 DEF Connections
  <2>7. \A i \in DOMAIN queue'[path] : /\ server'[queue'[path][i]] = path
                                      /\ client[path] # queue'[path][i]
    <3>1. \A i \in DOMAIN queue[path] :
              queue[path][i] \in Senders /\ queue[path][i] # s /\ server[queue[path][i]] = path
              /\ client[path] # queue[path][i]
      BY <2>2, <2>3 DEF Connections, TypeOK
    <3>2. server'[s] = path /\ \A z \in Senders : z # s => server'[z] = server[z]
      BY DEF TypeOK
    <3> HIDE DEF TransferInv, Session, Connect
    <3>3. QED BY <2>1, <2>2, <2>4, <2>5, <3>1, <3>2
  <2>8. \A q \in Receivers : q # path => queue'[q] = queue[q]
    BY <2>2 DEF TypeOK
  <2>9. server'[s] = path /\ \A z \in Senders : z # s => server'[z] = server[z] /\ spc'[z] = spc[z]
    BY DEF TypeOK
  <2>10. \A q \in Receivers : client[q] \in Senders \cup {NoOne}
                              /\ \A i \in DOMAIN queue[q] : queue[q][i] \in Senders
    BY DEF TypeOK
  <2>11. spc'[s] = "await_key"
    BY DEF TypeOK
  <2>12. \A q \in Receivers : \A i \in DOMAIN queue'[q] :
            /\ server'[queue'[q][i]] = q /\ client[q] # queue'[q][i]
            /\ \A j \in DOMAIN queue'[q] : queue'[q][i] = queue'[q][j] => i = j
    BY <2>2, <2>3, <2>6, <2>7, <2>8, <2>9, <2>10 DEF Connections
  <2>13. \A q \in Receivers : client[q] # NoOne => server'[client[q]] = q
    BY <2>1, <2>9, <2>10 DEF Connections
  <2>14. QED BY <2>2, <2>9, <2>11, <2>12, <2>13 DEF Connections
<1>3. Accepted'
  BY DEF Accepted, TypeOK, Serving
<1>4. ServerKeys'
  <2>1. \A q \in Receivers : client[q] # s
    BY DEF Connections
  <2>2. to_sender[s] = << >>
    BY <2>1 DEF ServerKeys
  <2>3. spc'[s] = "await_key" /\ \A z \in Senders : z # s => server'[z] = server[z] /\ spc'[z] = spc[z]
    BY DEF TypeOK
  <2>4. QED BY <2>2, <2>3 DEF ServerKeys
<1>5. Streams'
  BY DEF Streams, TypeOK, Unread, KeyRead, Sealed, Processes, Connections, PublicKey
<1>6. Outputs'
  BY DEF Outputs, TypeOK, Connections
<1>7. Attempts'
  BY DEF Attempts, TypeOK
<1>8. OnlyKilledLeaveFile'
  BY DEF OnlyKilledLeaveFile, RAlive, TypeOK
<1>9. QED BY <1>1, <1>2, <1>3, <1>4, <1>5, <1>6, <1>7, <1>8

\* Nobody listens: one attempt less.
LEMMA ConnectFailsStep ==
    ASSUME TransferInv, NEW s \in Senders, ConnectFails(s)
    PROVE  TransferInv'
<1> USE DEF TransferInv, Session, ConnectFails, SGoto,
            path_vars, receiver_vars, sender_vars, stream_vars
<1>1. TypeOK'
  <2>1. tries[s] - 1 \in 0 .. Retries
    BY DEF TypeOK, Attempts
  <2>2. QED BY <2>1 DEF TypeOK, SStates
<1>2. Connections'
  BY DEF Connections, TypeOK
<1>3. Accepted'
  BY DEF Accepted, TypeOK, Serving
<1>4. ServerKeys'
  BY DEF ServerKeys, TypeOK, PublicKey, Processes, Connections
<1>5. Streams'
  <2>1. \A z \in Senders : z # s => spc'[z] = spc[z]
    BY DEF TypeOK
  <2>2. Unread(s) => Unread(s)'
    BY DEF Unread, Sealed, TypeOK
  <2>3. KeyRead(s) => KeyRead(s)'
    BY DEF KeyRead, Sealed, TypeOK
  <2>4. QED BY <2>1, <2>2, <2>3, SenderStreams DEF TypeOK
<1>6. Outputs'
  BY DEF Outputs, TypeOK, Connections
<1>7. Attempts'
  <2>1. tries[s] \in Nat /\ tries'[s] = tries[s] - 1 /\ (tries[s] - 1 = 0 => spc'[s] = "failed")
    BY DEF TypeOK
  <2>2. \A z \in Senders : z # s => tries'[z] = tries[z] /\ spc'[z] = spc[z]
    BY DEF TypeOK
  <2>3. QED BY <2>1, <2>2 DEF Attempts
<1>8. OnlyKilledLeaveFile'
  BY DEF OnlyKilledLeaveFile, RAlive, TypeOK
<1>9. QED BY <1>1, <1>2, <1>3, <1>4, <1>5, <1>6, <1>7, <1>8

\* The only frame for a sender is its server's key.
LEMMA ReceiveServerKeyStep ==
    ASSUME TransferInv, NEW s \in Senders, ReceiveServerKey(s)
    PROVE  TransferInv'
<1> USE DEF TransferInv, Session, ReceiveServerKey, SGoto,
            path_vars, receiver_vars, sender_vars, stream_vars
<1>1. TypeOK'
  <2>1. to_sender[s] # << >> => /\ Head(to_sender[s]) = PublicKey(server[s])
                                /\ Tail(to_sender[s]) \in Seq(Frames)
                                /\ \A i \in DOMAIN Tail(to_sender[s]) :
                                      /\ i + 1 \in DOMAIN to_sender[s]
                                      /\ Tail(to_sender[s])[i] = to_sender[s][i + 1]
    BY TailFacts DEF ServerKeys, TypeOK
  <2>2. server[s] \in Receivers /\ PublicKey(server[s]).owner = server[s]
    BY DEF Connections, PublicKey
  <2>3. to_sender' \in [Senders -> Seq(Frames)]
    BY <2>1 DEF TypeOK
  <2>4. peer_key' \in [Processes -> Processes \cup {NoOne}]
    BY <2>1, <2>2 DEF TypeOK, Processes
  <2>5. spc' \in [Senders -> SStates]
    BY DEF TypeOK, SStates
  <2>6. QED BY <2>3, <2>4, <2>5 DEF TypeOK
<1>2. Connections'
  BY DEF Connections, TypeOK
<1>3. Accepted'
  BY DEF Accepted, TypeOK, Serving
<1>4. ServerKeys'
  <2>1. to_sender[s] # << >> => /\ Head(to_sender[s]) = PublicKey(server[s])
                                /\ Tail(to_sender[s]) \in Seq(Frames)
                                /\ \A i \in DOMAIN Tail(to_sender[s]) :
                                      /\ i + 1 \in DOMAIN to_sender[s]
                                      /\ Tail(to_sender[s])[i] = to_sender[s][i + 1]
    BY TailFacts DEF ServerKeys, TypeOK
  <2>2. server[s] \in Receivers /\ PublicKey(server[s]).owner = server[s]
    BY DEF Connections, PublicKey
  <2>3. \A z \in Senders : z # s => /\ spc'[z] = spc[z] /\ to_sender'[z] = to_sender[z]
                                   /\ peer_key'[z] = peer_key[z]
    BY DEF TypeOK, Processes
  <2>4. CASE to_sender[s] = << >>
    <3>1. spc'[s] = "failed" /\ to_sender'[s] = << >>
      BY <2>4 DEF TypeOK
    <3>2. QED BY <2>3, <2>4, <3>1 DEF ServerKeys
  <2>5. CASE to_sender[s] # << >>
    <3>1. /\ spc'[s] = "keyed" /\ to_sender'[s] = Tail(to_sender[s]) /\ peer_key'[s] = server[s]
      BY <2>1, <2>2, <2>5 DEF TypeOK, Processes
    <3>2. \E q \in Receivers : client[q] = s
      BY <2>5 DEF ServerKeys
    <3>3. \A i \in DOMAIN to_sender'[s] : to_sender'[s][i] = PublicKey(server[s])
      BY <2>1, <2>5, <3>1 DEF ServerKeys
    <3>4. \A z \in Senders : \A i \in DOMAIN to_sender'[z] : to_sender'[z][i] = PublicKey(server[z])
      BY <2>3, <3>3 DEF ServerKeys
    <3>5. QED BY <2>3, <3>1, <3>2, <3>4 DEF ServerKeys
  <2>6. QED BY <2>4, <2>5
<1>5. Streams'
  <2>1. spc'[s] \in {"keyed", "failed"} /\ \A z \in Senders : z # s => spc'[z] = spc[z]
    BY DEF TypeOK
  <2>2. (Unread(s) => Unread(s)') /\ (KeyRead(s) => KeyRead(s)')
    BY <2>1 DEF Unread, KeyRead, Sealed
  <2>3. \A r \in Receivers : peer_key'[r] = peer_key[r]
    BY DEF TypeOK, Processes
  <2>4. QED BY <2>1, <2>2, <2>3, SenderStreams
<1>6. Outputs'
  BY OutputsKept DEF TypeOK, Outputs, Processes
<1>7. Attempts'
  BY DEF Attempts, TypeOK
<1>8. OnlyKilledLeaveFile'
  BY DEF OnlyKilledLeaveFile, RAlive, TypeOK
<1>9. QED BY <1>1, <1>2, <1>3, <1>4, <1>5, <1>6, <1>7, <1>8

\* The key is the first frame; a closed server kills the sender.
LEMMA SendKeyStep ==
    ASSUME TransferInv, NEW s \in Senders, SendKey(s)
    PROVE  TransferInv'
<1> USE DEF TransferInv, Session, SendKey, SGoto, Write,
            path_vars, receiver_vars, sender_vars, stream_vars
<1>1. TypeOK'
  <2>1. Append(to_receiver[s], PublicKey(s)) \in Seq(Frames)
    BY AppendFacts, FrameFacts DEF Processes, TypeOK
  <2>2. to_receiver' \in [Senders -> Seq(Frames)]
    <3>1. \/ to_receiver' = to_receiver
          \/ to_receiver' = [to_receiver EXCEPT ![s] = Append(to_receiver[s], PublicKey(s))]
      OBVIOUS
    <3>2. QED BY <2>1, <3>1 DEF TypeOK
  <2>3. spc' \in [Senders -> SStates]
    BY DEF TypeOK, SStates
  <2>4. QED BY <2>2, <2>3 DEF TypeOK
<1>2. Connections'
  BY DEF Connections, TypeOK
<1>3. Accepted'
  BY DEF Accepted, TypeOK, Serving
<1>4. ServerKeys'
  BY DEF ServerKeys, TypeOK, PublicKey, Processes, Connections
<1>5. Streams'
  <2>1. \A z \in Senders : z # s => spc'[z] = spc[z] /\ to_receiver'[z] = to_receiver[z]
    BY DEF TypeOK
  <2>2. \/ spc'[s] = "sending" /\ to_receiver'[s] = Append(to_receiver[s], PublicKey(s))
        \/ spc'[s] = "killed" /\ to_receiver'[s] = to_receiver[s]
    BY DEF TypeOK
  <2>3. Unread(s) => Unread(s)'
    BY <2>2, ShortFacts DEF Unread, Sealed
  <2>4. ~KeyRead(s)
    BY DEF KeyRead
  <2>5. QED BY <2>1, <2>3, <2>4, SenderStreams
<1>6. Outputs'
  BY DEF Outputs, TypeOK, Connections
<1>7. Attempts'
  BY DEF Attempts, TypeOK
<1>8. OnlyKilledLeaveFile'
  BY DEF OnlyKilledLeaveFile, RAlive, TypeOK
<1>9. QED BY <1>1, <1>2, <1>3, <1>4, <1>5, <1>6, <1>7, <1>8

\* The message is sealed under the server's key.
LEMMA SendMessageStep ==
    ASSUME TransferInv, NEW s \in Senders, SendMessage(s)
    PROVE  TransferInv'
<1> USE DEF TransferInv, Session, SendMessage, SGoto, Write,
            path_vars, receiver_vars, sender_vars, stream_vars
<1>1. TypeOK'
  <2>1. DeriveSharedSecret(s, peer_key[s]) \in SUBSET Processes
    BY DEF DeriveSharedSecret, ServerKeys, Connections, Processes
  <2> DEFINE frame == Encrypt(s, DeriveSharedSecret(s, peer_key[s]))
  <2>2. Append(to_receiver[s], frame) \in Seq(Frames)
    <3>1. frame \in Frames
      BY <2>1, FrameFacts DEF Processes
    <3>2. QED BY <3>1, AppendFacts DEF TypeOK
  <2>3. to_receiver' \in [Senders -> Seq(Frames)]
    <3>1. \/ to_receiver' = to_receiver
          \/ to_receiver' = [to_receiver EXCEPT ![s] = Append(to_receiver[s], frame)]
      OBVIOUS
    <3>2. QED BY <2>2, <3>1 DEF TypeOK
  <2>4. spc' \in [Senders -> SStates]
    BY DEF TypeOK, SStates
  <2>5. QED BY <2>3, <2>4 DEF TypeOK
<1>2. Connections'
  BY DEF Connections, TypeOK
<1>3. Accepted'
  BY DEF Accepted, TypeOK, Serving
<1>4. ServerKeys'
  BY DEF ServerKeys, TypeOK, PublicKey, Processes, Connections
<1>5. Streams'
  <2>1. \A z \in Senders : z # s => spc'[z] = spc[z] /\ to_receiver'[z] = to_receiver[z]
    BY DEF TypeOK
  <2>2. Sealed(s) = Encrypt(s, DeriveSharedSecret(s, peer_key[s]))
    BY DEF Sealed, ServerKeys
  <2>3. \/ spc'[s] = "complete" /\ to_receiver'[s] = Append(to_receiver[s], Sealed(s))
        \/ spc'[s] = "killed" /\ to_receiver'[s] = to_receiver[s]
    BY <2>2 DEF TypeOK
  <2>4. Sealed(s)' = Sealed(s)
    BY DEF Sealed
  <2>5. (Unread(s) => Unread(s)') /\ (KeyRead(s) => KeyRead(s)')
    BY <2>3, <2>4, ShortFacts DEF Unread, KeyRead
  <2>6. QED BY <2>1, <2>5, SenderStreams
<1>6. Outputs'
  BY DEF Outputs, TypeOK, Connections
<1>7. Attempts'
  BY DEF Attempts, TypeOK
<1>8. OnlyKilledLeaveFile'
  BY DEF OnlyKilledLeaveFile, RAlive, TypeOK
<1>9. QED BY <1>1, <1>2, <1>3, <1>4, <1>5, <1>6, <1>7, <1>8

\* What it wrote stays in the stream.
LEMMA KillSenderStep ==
    ASSUME TransferInv, NEW s \in Senders, KillSender(s)
    PROVE  TransferInv'
<1> USE DEF TransferInv, Session, KillSender, SGoto,
            path_vars, receiver_vars, sender_vars, stream_vars
<1>1. TypeOK'
  BY DEF TypeOK, RStates, SStates, Frames, PublicKey, Encrypt, Processes
<1>2. Connections'
  BY DEF Connections, TypeOK
<1>3. Accepted'
  BY DEF Accepted, TypeOK, Serving
<1>4. ServerKeys'
  BY DEF ServerKeys, TypeOK, PublicKey, Processes, Connections
<1>5. Streams'
  <2>1. spc'[s] = "killed" /\ spc[s] # "complete" /\ \A z \in Senders : z # s => spc'[z] = spc[z]
    BY DEF TypeOK, SAlive
  <2>2. (Unread(s) => Unread(s)') /\ (KeyRead(s) => KeyRead(s)')
    BY <2>1 DEF Unread, KeyRead, Sealed
  <2>3. QED BY <2>1, <2>2, SenderStreams DEF TypeOK
<1>6. Outputs'
  <2>1. spc[s] # "complete" /\ \A z \in Senders : z # s => spc'[z] = spc[z]
    BY DEF TypeOK, SAlive
  <2>2. QED BY <2>1 DEF Outputs, TypeOK
<1>7. Attempts'
  BY DEF Attempts, TypeOK
<1>8. OnlyKilledLeaveFile'
  BY DEF OnlyKilledLeaveFile, RAlive, TypeOK
<1>9. QED BY <1>1, <1>2, <1>3, <1>4, <1>5, <1>6, <1>7, <1>8

\* Every step of every process.
LEMMA NextTransfer == TransferInv /\ [Next]_vars => TransferInv'
<1> SUFFICES ASSUME TransferInv, [Next]_vars PROVE TransferInv'
  OBVIOUS
<1>1. CASE UNCHANGED vars
  BY <1>1 DEF vars, path_vars, receiver_vars, sender_vars, stream_vars, TransferInv, Session, TypeOK,
     Connections, Accepted, ServerKeys, Streams, Unread, KeyRead, Sealed, Outputs, Attempts,
     OnlyKilledLeaveFile, Serving, RAlive
<1>2. ASSUME NEW r \in Receivers,
             StartReceiver(r) \/ StartFails(r) \/ ReceiverStep(r) \/ KillReceiver(r)
      PROVE  TransferInv'
  BY <1>2, StartReceiverStep, StartFailsStep, UnlinkOldStep, BindStep, ListenStep, AcceptStep, SendOwnKeyStep,
     ReceivePeerKeyStep, ReceiveDataStep, CloseSocketStep, UnlinkPathStep, KillReceiverStep
     DEF ReceiverStep
<1>3. ASSUME NEW s \in Senders, StartSender(s) \/ SenderStep(s) \/ KillSender(s)
      PROVE  TransferInv'
  BY <1>3, StartSenderStep, ConnectStep, ConnectFailsStep, ReceiveServerKeyStep, SendKeyStep,
     SendMessageStep, KillSenderStep DEF SenderStep
<1>4. QED BY <1>1, <1>2, <1>3 DEF Next

\* The inductive invariant holds in every reachable state.
LEMMA TransferInvariant == Spec => []TransferInv
<1>1. QED BY InitTransfer, NextTransfer, PTL DEF Spec

-----------------------------------------------------------------------------
(* Theorems.                                                               *)

\* Streams, queues, sockets and keys hold what they are meant to.  The frame
\* read as a key is one and the frame read as data is one, because each end
\* writes in the order in which the other reads.
THEOREM TransferTypes == Spec => []TypeOK
<1>1. TransferInv => TypeOK
  BY DEF TransferInv
<1>2. QED BY <1>1, TransferInvariant, PTL

\* What a receiver prints is the message of the sender that it accepted, which
\* has finished sending it, under a session key that both derived, however
\* receivers that share the path, queues and kills interleave.
THEOREM OutputIsAuthentic == Spec => []SessionIntegrity
<1>1. TransferInv => SessionIntegrity
  <2> SUFFICES ASSUME TransferInv, NEW r \in Receivers, output[r] # NoOne
               PROVE  /\ output[r] = client[r]
                      /\ spc[client[r]] = "complete"
                      /\ DeriveSharedSecret(r, peer_key[r]) =
                            DeriveSharedSecret(client[r], peer_key[client[r]])
    BY DEF SessionIntegrity
  <2>1. /\ output[r] = client[r] /\ spc[client[r]] = "complete" /\ peer_key[r] = client[r]
        /\ client[r] \in Senders
    BY DEF TransferInv, Session, Outputs, TypeOK
  <2>2. peer_key[client[r]] = r
    BY <2>1 DEF TransferInv, Session, ServerKeys, Connections
  <2>3. QED BY <2>1, <2>2 DEF DeriveSharedSecret
<1>2. QED BY <1>1, TransferInvariant, PTL

\* Every way out of the receiver but a kill goes through the destructor's
\* unlink: a file whose owner is not running has a killed owner.
THEOREM StaleFileMeansKill == Spec => []OnlyKilledLeaveFile
<1>1. TransferInv => OnlyKilledLeaveFile
  BY DEF TransferInv
<1>2. QED BY <1>1, TransferInvariant, PTL
=============================================================================
