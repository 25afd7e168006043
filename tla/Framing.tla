------------------------------ MODULE Framing ------------------------------
(***************************************************************************)
(* Utils::sendData and Utils::receiveData of secure_transfer.cpp: one         *)
(* process writes length-prefixed frames to a stream socket, the other reads *)
(* them, each in as many pieces as the kernel likes.  Either process may die *)
(* at any point.  This module is what allows SecureTransfer to treat a frame *)
(* as one step.                                                             *)
(*                                                                         *)
(* The kernel's stream is external: bytes arrive in order, a write blocks     *)
(* while the buffer is full and fails once the reader is gone, a read blocks *)
(* while the stream is empty and returns 0 once the writer is gone too.      *)
(***************************************************************************)
EXTENDS Naturals, Sequences, Functions

CONSTANTS
    Base,           \* values of a byte (256 in the code)
    LenBytes,       \* bytes of the length prefix (4)
    MaxFrame,       \* the 10MB sanity check
    MaxData,        \* bound: size of the frames sent
    NFrames,        \* frames of one transfer (2: public key, ciphertext)
    Buffer          \* socket buffer

\* What a unit in byte i + 1 of the length prefix counts: Base to the power of i.
Weight[i \in 0 .. LenBytes] == IF i = 0 THEN 1 ELSE Base * Weight[i - 1]

\* uint32_t len = data.size() loses nothing: a frame of 4 GiB cannot come from
\* a command-line argument.
ASSUME FramingAssumption ==
    /\ Base \in Nat \ {0, 1} /\ LenBytes \in Nat \ {0}
    /\ MaxFrame \in Nat /\ NFrames \in Nat \ {0}
    /\ MaxData \in Nat /\ MaxData < Weight[LenBytes]
    /\ Buffer \in Nat /\ Buffer >= LenBytes

Byte == 0 .. Base - 1
Data == UNION {[1 .. n -> Byte] : n \in 0 .. MaxData}

VARIABLES
    frames,         \* what the caller passes to sendData, in order
    swriter,        \* "length", "data", "done" (all frames sent) or "dead"
    current,        \* index of the frame being sent
    sent,           \* bytes of it already sent
    stream,         \* bytes in the socket
    sreader,        \* "length", "data", "done", "threw" or "dead"
    len,            \* the decoded length
    received,       \* bytes of the frame read so far
    delivered       \* frames receiveData has returned

vars == <<frames, swriter, current, sent, stream, sreader, len, received, delivered>>
writer_vars == <<frames, current, sent>>
reader_vars == <<len, received, delivered>>

WriterOpen == swriter \in {"length", "data"}
ReaderOpen == sreader \in {"length", "data"}

\* The length prefix, in host (little-endian) byte order.
Encode(n) == [i \in 1 .. LenBytes |-> (n \div Weight[i - 1]) % Base]
Decode(bytes) == SumFunction([i \in 1 .. LenBytes |-> bytes[i] * Weight[i - 1]])

First(n) == SubSeq(stream, 1, n)
Rest(n) == SubSeq(stream, n + 1, Len(stream))

TypeOK ==
    /\ frames \in [1 .. NFrames -> Data]
    /\ swriter \in {"length", "data", "done", "dead"}
    /\ current \in 1 .. NFrames + 1
    /\ sent \in 0 .. MaxData
    /\ stream \in Seq(Byte) /\ Len(stream) <= Buffer
    /\ sreader \in {"length", "data", "done", "threw", "dead"}
    /\ len \in 0 .. MaxFrame
    /\ received \in Seq(Byte) /\ Len(received) <= len
    /\ delivered \in Seq(Data) /\ Len(delivered) <= NFrames

Init == /\ frames \in [1 .. NFrames -> Data]
        /\ swriter = "length" /\ current = 1 /\ sent = 0
        /\ stream = << >>
        /\ sreader = "length" /\ len = 0 /\ received = << >>
        /\ delivered = << >>

-----------------------------------------------------------------------------
(* The writer.                                                             *)

\* sendData has returned true; the caller goes on to its next frame.
NextFrame ==
    /\ current' = current + 1
    /\ sent' = 0
    /\ swriter' = IF current = NFrames THEN "done" ELSE "length"

\* An empty frame never enters the loop.
SendLength ==
    /\ swriter = "length" /\ ReaderOpen
    /\ Len(stream) + LenBytes <= Buffer
    /\ stream' = stream \o Encode(Len(frames[current]))
    /\ IF frames[current] = << >> THEN NextFrame
       ELSE swriter' = "data" /\ UNCHANGED <<current, sent>>
    /\ UNCHANGED <<frames, sreader, reader_vars>>

\* Mutant of SendData: every call sends from the start of the data.
SendFromStart(n) ==
    /\ swriter = "data" /\ ReaderOpen
    /\ n \in 1 .. Len(frames[current]) - sent /\ Len(stream) + n <= Buffer
    /\ stream' = stream \o SubSeq(frames[current], 1, n)
    /\ IF sent + n = Len(frames[current]) THEN NextFrame
       ELSE sent' = sent + n /\ UNCHANGED <<swriter, current>>
    /\ UNCHANGED <<frames, sreader, reader_vars>>

\* One turn of the loop: send takes n of the bytes that are left.
SendData(n) ==
    /\ swriter = "data" /\ ReaderOpen
    /\ n \in 1 .. Len(frames[current]) - sent /\ Len(stream) + n <= Buffer
    /\ stream' = stream \o SubSeq(frames[current], sent + 1, sent + n)
    /\ IF sent + n = Len(frames[current]) THEN NextFrame
       ELSE sent' = sent + n /\ UNCHANGED <<swriter, current>>
    /\ UNCHANGED <<frames, sreader, reader_vars>>

\* A write to a reader that is gone: SIGPIPE, or sendData returns false and the
\* caller throws.  Either way this process sends nothing more.
SendFails ==
    /\ WriterOpen /\ ~ReaderOpen
    /\ swriter' = "dead"
    /\ UNCHANGED <<writer_vars, stream, sreader, reader_vars>>

WriterDies ==
    /\ WriterOpen
    /\ swriter' = "dead"
    /\ UNCHANGED <<writer_vars, stream, sreader, reader_vars>>

-----------------------------------------------------------------------------
(* The reader.                                                             *)

Throw == sreader' = "threw" /\ UNCHANGED reader_vars

\* receiveData returns; the caller reads its next frame.
Deliver(data) ==
    /\ delivered' = Append(delivered, data)
    /\ received' = << >> /\ len' = 0
    /\ sreader' = IF Len(delivered) + 1 = NFrames THEN "done" ELSE "length"

\* What follows a length n: the sanity check, then the data if there is any.
Expect(n) ==
    \/ n > MaxFrame /\ Throw
    \/ n = 0 /\ Deliver(<< >>)
    \/ n \in 1 .. MaxFrame /\ len' = n /\ sreader' = "data"
                           /\ UNCHANGED <<received, delivered>>

\* Mutant of ReceiveLength: the sanity check refuses a frame of MaxFrame bytes.
ReceiveLengthStrict ==
    /\ sreader = "length" /\ Len(stream) >= LenBytes
    /\ LET n == Decode(First(LenBytes))
       IN  IF n >= MaxFrame THEN Throw ELSE Expect(n)
    /\ stream' = Rest(LenBytes)
    /\ UNCHANGED <<writer_vars, swriter>>

\* recv with MSG_WAITALL waits for the whole prefix.
ReceiveLength ==
    /\ sreader = "length" /\ Len(stream) >= LenBytes
    /\ Expect(Decode(First(LenBytes)))
    /\ stream' = Rest(LenBytes)
    /\ UNCHANGED <<writer_vars, swriter>>

\* Mutant of ReceiveData: every call asks for len bytes.
ReceivePastFrame(n) ==
    /\ sreader = "data"
    /\ n \in 1 .. Len(stream) /\ n <= len
    /\ stream' = Rest(n)
    /\ IF Len(received) + n = len THEN Deliver(received \o First(n))
       ELSE received' = received \o First(n) /\ UNCHANGED <<len, delivered, sreader>>
    /\ UNCHANGED <<writer_vars, swriter>>

\* One turn of the loop: recv returns n of the bytes that are there.
ReceiveData(n) ==
    /\ sreader = "data"
    /\ n \in 1 .. Len(stream) /\ n <= len - Len(received)
    /\ stream' = Rest(n)
    /\ IF Len(received) + n = len THEN Deliver(received \o First(n))
       ELSE received' = received \o First(n) /\ UNCHANGED <<len, delivered, sreader>>
    /\ UNCHANGED <<writer_vars, swriter>>

\* The writer is gone and what the stream holds is less than what is awaited.
EndOfStream == /\ ~WriterOpen
               /\ \/ sreader = "length" /\ Len(stream) < LenBytes
                  \/ sreader = "data" /\ stream = << >>

\* Mutant of ReceiveFails: only a negative result of recv ends the loop.
ReceiveFailsInLength ==
    /\ EndOfStream /\ sreader = "length" /\ Throw
    /\ UNCHANGED <<writer_vars, swriter, stream>>

\* A short prefix, or recv returning 0 in the loop: "Failed to receive data".
ReceiveFails ==
    /\ EndOfStream /\ Throw
    /\ UNCHANGED <<writer_vars, swriter, stream>>

ReaderDies ==
    /\ ReaderOpen
    /\ sreader' = "dead"
    /\ UNCHANGED <<writer_vars, swriter, stream, reader_vars>>

-----------------------------------------------------------------------------
WriterStep == SendLength \/ (\E n \in 1 .. MaxData : SendData(n)) \/ SendFails
ReaderStep == ReceiveLength \/ (\E n \in 1 .. MaxFrame : ReceiveData(n)) \/ ReceiveFails

Next == WriterStep \/ WriterDies \/ ReaderStep \/ ReaderDies

Spec == Init /\ [][Next]_vars

\* A process that can take a step takes it; none of the two has to die.
FairSpec == Spec /\ WF_vars(WriterStep) /\ WF_vars(ReaderStep)

-----------------------------------------------------------------------------
(* Properties.                                                             *)

\* Whatever the pieces and whoever dies, receiveData returns the frames given
\* to sendData: whole, unchanged, in order, none twice and none left out.
DeliveredPrefix == delivered = SubSeq(frames, 1, Len(delivered))

\* When sendData has returned true for every frame, none above the sanity
\* check, receiveData returns them all unless its process dies.
SentIsDelivered ==
    (swriter = "done" /\ \A i \in 1 .. NFrames : Len(frames[i]) <= MaxFrame)
        ~> (delivered = frames \/ sreader = "dead")

\* Neither side waits for the other for good: both loops end.
BothEnd == <>(~WriterOpen /\ ~ReaderOpen)
=============================================================================
