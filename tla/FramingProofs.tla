--------------------------- MODULE FramingProofs ---------------------------
(***************************************************************************)
(* Framing, for every byte size, prefix length, buffer and number of frames: *)
(* decoding undoes encoding, and receiveData returns a prefix of what was     *)
(* given to sendData.                                                        *)
(***************************************************************************)
EXTENDS Framing, SumProofs, SequenceTheorems

-----------------------------------------------------------------------------
(* The inductive invariant.                                                *)

\* The wire: frame k starts after byte Start(k), with its prefix, then its data.
Size == [i \in 1 .. NFrames |-> LenBytes + Len(frames[i])]
Start(k) == SumFunctionOnSet(Size, 1 .. (k - 1))

ByteAt(p, b) ==
    \A k \in 1 .. NFrames :
        /\ p \in (Start(k) + 1) .. (Start(k) + LenBytes) =>
               b = Encode(Len(frames[k]))[p - Start(k)]
        /\ p \in (Start(k) + LenBytes + 1) .. Start(k + 1) =>
               b = frames[k][p - (Start(k) + LenBytes)]

\* How much of the wire has been written and read.
WritePos == Start(current) + (IF swriter = "data" THEN LenBytes + sent ELSE 0)
ReadPos == Start(Len(delivered) + 1) +
               (IF sreader = "data" THEN LenBytes + Len(received) ELSE 0)

\* The writer's loop variables.
Writing ==
    /\ WriterOpen => current \in 1 .. NFrames
    /\ swriter = "length" => sent = 0
    /\ swriter = "data" => sent < Len(frames[current])

\* The reader's: it has read a proper prefix of the frame it is at, and knows its
\* length.
Reading ==
    /\ ReaderOpen => Len(delivered) + 1 \in 1 .. NFrames
    /\ sreader = "length" => len = 0 /\ received = << >>
    /\ sreader = "data" => LET frame == frames[Len(delivered) + 1]
                           IN  /\ len = Len(frame) /\ Len(received) < len
                               /\ received = SubSeq(frame, 1, Len(received))

\* The stream holds the part of the wire between the two.
Wire ==
    ReaderOpen => /\ \A j \in 1 .. Len(stream) : ByteAt(ReadPos + j, stream[j])
                  /\ WriterOpen => WritePos = ReadPos + Len(stream)

FramingInv == TypeOK /\ Writing /\ Reading /\ Wire /\ DeliveredPrefix

-----------------------------------------------------------------------------
(* The length prefix.                                                      *)

\* Products of positive numbers are positive.
LEMMA Product == ASSUME NEW a \in Nat \ {0}, NEW b \in Nat \ {0} PROVE a * b \in Nat \ {0}
OBVIOUS

\* The recursion for Weight has a solution.
LEMMA WeightExists ==
    \E g : g = [i \in 0 .. LenBytes |-> IF i = 0 THEN 1 ELSE Base * g[i - 1]]
<1> DEFINE Powers(g, n) == /\ g \in [0 .. n -> Nat \ {0}] /\ g[0] = 1
                           /\ \A i \in 1 .. n : g[i] = Base * g[i - 1]
           T == {n \in Nat : \E g : Powers(g, n)}
<1>1. 0 \in T
  <2>1. Powers([i \in 0 .. 0 |-> 1], 0)
    OBVIOUS
  <2>2. QED BY <2>1
<1>2. ASSUME NEW n \in Nat, n \in T PROVE n + 1 \in T
  <2>1. PICK g : Powers(g, n)
    BY <1>2
  <2> DEFINE h == [i \in 0 .. (n + 1) |-> IF i = n + 1 THEN Base * g[n] ELSE g[i]]
  <2>2. Base * g[n] \in Nat \ {0}
    BY <2>1, Product, FramingAssumption
  <2>3. h \in [0 .. (n + 1) -> Nat \ {0}] /\ h[0] = 1
    BY <2>1, <2>2
  <2>4. \A i \in 1 .. (n + 1) : h[i] = Base * h[i - 1]
    BY <2>1
  <2>5. Powers(h, n + 1)
    BY <2>3, <2>4
  <2>6. \E k : Powers(k, n + 1)
    BY <2>5
  <2>7. QED BY <2>6
<1>3. LenBytes \in T
  <2> HIDE DEF T
  <2>1. QED BY <1>1, <1>2, SetInduction, FramingAssumption
<1>4. PICK g : Powers(g, LenBytes)
  BY <1>3
<1>5. g = [i \in 0 .. LenBytes |-> IF i = 0 THEN 1 ELSE Base * g[i - 1]]
  BY <1>4, FramingAssumption
<1>6. QED BY <1>5

\* Weights are the powers of Base.
LEMMA WeightFacts ==
    /\ Weight[0] = 1
    /\ \A i \in 1 .. LenBytes : Weight[i] = Base * Weight[i - 1]
    /\ \A i \in 0 .. LenBytes : Weight[i] \in Nat \ {0}
<1>1. Weight = [i \in 0 .. LenBytes |-> IF i = 0 THEN 1 ELSE Base * Weight[i - 1]]
  BY WeightExists DEF Weight
<1>2. Weight[0] = 1 /\ \A i \in 1 .. LenBytes : Weight[i] = Base * Weight[i - 1]
  BY <1>1, FramingAssumption
<1> DEFINE T == {n \in Nat : n <= LenBytes => Weight[n] \in Nat \ {0}}
<1>3. 0 \in T
  BY <1>2
<1>4. ASSUME NEW n \in Nat, n \in T PROVE n + 1 \in T
  <2>1. SUFFICES ASSUME n + 1 <= LenBytes PROVE Weight[n + 1] \in Nat \ {0}
    OBVIOUS
  <2>2. Weight[n] \in Nat \ {0} /\ Weight[n + 1] = Base * Weight[n]
    BY <1>2, <1>4, <2>1, FramingAssumption
  <2>3. QED BY <2>2, Product, FramingAssumption
<1>5. Nat \subseteq T
  <2> HIDE DEF T
  <2>1. QED BY <1>3, <1>4, SetInduction
<1>6. QED BY <1>2, <1>5, FramingAssumption

\* One digit more of a remainder.
LEMMA NextDigit ==
    ASSUME NEW W \in Nat \ {0}, NEW B \in Nat \ {0}, NEW n \in Nat
    PROVE  n % (B * W) = ((n \div W) % B) * W + (n % W)
<1> DEFINE q == n \div W  r == n % W  p == q \div B  s == q % B
<1>1. q \in Int /\ r \in 0 .. (W - 1) /\ n = W * q + r
  BY DivMod
<1>2. p \in Int /\ s \in 0 .. (B - 1) /\ q = B * p + s
  BY <1>1, DivMod
<1> HIDE DEF q, r, p, s
<1>3. W * q = (B * W) * p + s * W
  BY <1>1, <1>2
<1>4. s * W \in Int /\ s * W <= (B - 1) * W /\ 0 <= s * W
  BY <1>2
<1>5. s * W + r \in 0 .. (B * W - 1)
  BY <1>1, <1>4
<1>6. B * W \in Nat \ {0}
  BY Product
<1>7. n = (B * W) * p + (s * W + r)
  BY <1>1, <1>2, <1>3, <1>4
<1>8. n % (B * W) = s * W + r
  <2> DEFINE M == B * W  t == s * W + r
  <2>1. M \in Nat \ {0} /\ t \in 0 .. (M - 1) /\ n = M * p + t /\ p \in Int /\ n \in Int
    BY <1>2, <1>5, <1>6, <1>7
  <2> HIDE DEF M, t
  <2>2. n % M = t
    BY <2>1, ModUnique
  <2>3. QED BY <2>2 DEF M, t
<1>9. QED BY <1>8 DEF q, r, p, s

\* What the prefix of a frame is.
LEMMA EncodeFacts ==
    ASSUME NEW n \in Nat
    PROVE  /\ Encode(n) \in Seq(Byte) /\ Len(Encode(n)) = LenBytes
           /\ \A i \in 1 .. LenBytes : Encode(n)[i] = (n \div Weight[i - 1]) % Base
<1>1. ASSUME NEW i \in 1 .. LenBytes PROVE (n \div Weight[i - 1]) % Base \in Byte
  <2>1. Weight[i - 1] \in Nat \ {0}
    BY WeightFacts, FramingAssumption
  <2>2. n \div Weight[i - 1] \in Int
    BY <2>1, DivMod
  <2>3. QED BY <2>2, DivMod, FramingAssumption DEF Byte
<1>2. Encode(n) \in [1 .. LenBytes -> Byte]
  BY <1>1 DEF Encode
<1>3. QED BY <1>2, FramingAssumption DEF Encode

\* The reader gets the length that the writer sent.
LEMMA DecodeEncode ==
    ASSUME NEW n \in Nat, n < Weight[LenBytes]
    PROVE  Decode(Encode(n)) = n
<1> DEFINE f == [i \in 1 .. LenBytes |-> Encode(n)[i] * Weight[i - 1]]
           T == {i \in Nat : i <= LenBytes => SumFunctionOnSet(f, 1 .. i) = n % Weight[i]}
<1>1. ASSUME NEW i \in 1 .. LenBytes
      PROVE  f[i] = ((n \div Weight[i - 1]) % Base) * Weight[i - 1] /\ f[i] \in Int
  <2>1. Weight[i - 1] \in Nat /\ Encode(n)[i] \in Nat
    <3>1. Weight[i - 1] \in Nat
      BY WeightFacts, FramingAssumption
    <3>2. Encode(n)[i] \in Byte
      BY EncodeFacts, FramingAssumption
    <3>3. QED BY <3>1, <3>2, FramingAssumption DEF Byte
  <2>2. QED BY <2>1, EncodeFacts
<1>2. 0 \in T
  <2>1. 1 .. 0 = {}
    OBVIOUS
  <2>2. n % 1 = 0
    OBVIOUS
  <2>3. QED BY <2>1, <2>2, SumEmpty, WeightFacts
<1>3. ASSUME NEW i \in Nat, i \in T PROVE i + 1 \in T
  <2> SUFFICES ASSUME i + 1 <= LenBytes
               PROVE  SumFunctionOnSet(f, 1 .. (i + 1)) = n % Weight[i + 1]
    OBVIOUS
  <2>1. SumFunctionOnSet(f, 1 .. i) = n % Weight[i]
    BY <1>3, FramingAssumption
  <2>2. 1 .. (i + 1) = (1 .. i) \cup {i + 1} /\ i + 1 \notin 1 .. i
    OBVIOUS
  <2>3. Summable(f, 1 .. i) /\ f[i + 1] \in Int
    <3>1. \A j \in 1 .. (i + 1) : j \in 1 .. LenBytes
      BY FramingAssumption
    <3>2. \A j \in 1 .. (i + 1) : f[j] \in Int
      BY <1>1, <3>1
    <3>3. IsFiniteSet(1 .. i)
      BY FS_Interval
    <3> HIDE DEF f
    <3>4. (\A j \in 1 .. i : f[j] \in Int) /\ f[i + 1] \in Int
      BY <3>2
    <3>5. QED BY <3>3, <3>4 DEF Summable
  <2>4. f[i + 1] = ((n \div Weight[i]) % Base) * Weight[i]
    BY <1>1, FramingAssumption
  <2>5. Weight[i] \in Nat \ {0} /\ Weight[i + 1] = Base * Weight[i]
    BY WeightFacts, FramingAssumption
  <2> HIDE DEF f
  <2>6. SumFunctionOnSet(f, 1 .. (i + 1)) = f[i + 1] + SumFunctionOnSet(f, 1 .. i)
    BY <2>2, <2>3, SumInsert
  <2>7. n % (Base * Weight[i]) = ((n \div Weight[i]) % Base) * Weight[i] + (n % Weight[i])
    BY <2>5, NextDigit, FramingAssumption
  <2>8. QED BY <2>1, <2>3, <2>4, <2>5, <2>6, <2>7
<1>4. LenBytes \in T
  <2> HIDE DEF T
  <2>1. QED BY <1>2, <1>3, SetInduction, FramingAssumption
<1>5. SumFunctionOnSet(f, 1 .. LenBytes) = n % Weight[LenBytes]
  BY <1>4, FramingAssumption
<1>6. n % Weight[LenBytes] = n
  BY WeightFacts, FramingAssumption
<1>7. Decode(Encode(n)) = SumFunctionOnSet(f, 1 .. LenBytes)
  BY DEF Decode, SumFunction
<1>8. QED BY <1>5, <1>6, <1>7

-----------------------------------------------------------------------------
(* The wire.                                                               *)

FramesTyped == frames \in [1 .. NFrames -> Data]

\* A frame is a sequence of bytes of bounded length.
LEMMA DataFacts ==
    ASSUME NEW d \in Data
    PROVE  /\ d \in Seq(Byte) /\ Len(d) \in 0 .. MaxData /\ DOMAIN d = 1 .. Len(d)
           /\ \A i \in 1 .. Len(d) : d[i] \in Byte
BY FramingAssumption DEF Data

\* Where frames start.
LEMMA StartFacts ==
    ASSUME FramesTyped
    PROVE  /\ Start(1) = 0
           /\ \A k \in 1 .. (NFrames + 1) : Start(k) \in Nat
           /\ \A k \in 1 .. NFrames : Start(k + 1) = Start(k) + LenBytes + Len(frames[k])
<1>1. \A i \in 1 .. NFrames : Size[i] \in Nat /\ Size[i] = LenBytes + Len(frames[i])
  BY DataFacts, FramingAssumption DEF Size, FramesTyped
<1>2. Start(1) = 0
  <2>1. 1 .. (1 - 1) = {}
    OBVIOUS
  <2>2. QED BY <2>1, SumEmpty DEF Start
<1>3. ASSUME NEW k \in 1 .. (NFrames + 1)
      PROVE  Summable(Size, 1 .. (k - 1)) /\ Start(k) \in Nat
  <2>1. IsFiniteSet(1 .. (k - 1))
    BY FS_Interval, FramingAssumption
  <2>2. \A i \in 1 .. (k - 1) : i \in 1 .. NFrames
    BY FramingAssumption
  <2>3. \A i \in 1 .. (k - 1) : Size[i] \in Nat
    BY <1>1, <2>2
  <2>4. Start(k) \in Nat
    BY <2>1, <2>3, SumNat DEF Start
  <2>5. QED BY <2>1, <2>3, <2>4 DEF Summable
<1>4. ASSUME NEW k \in 1 .. NFrames
      PROVE  Start(k + 1) = Start(k) + LenBytes + Len(frames[k])
  <2>1. k \in 1 .. (NFrames + 1) /\ k \in Int /\ k \notin 1 .. (k - 1)
        /\ 1 .. ((k + 1) - 1) = (1 .. (k - 1)) \cup {k}
    BY FramingAssumption
  <2>2. Summable(Size, 1 .. (k - 1)) /\ Size[k] \in Int
    BY <1>1, <1>3, <2>1
  <2>3. SumFunctionOnSet(Size, (1 .. (k - 1)) \cup {k}) =
            Size[k] + SumFunctionOnSet(Size, 1 .. (k - 1))
    BY <2>1, <2>2, SumInsert
  <2>4. Start(k + 1) = Size[k] + Start(k)
    BY <2>1, <2>3 DEF Start
  <2>5. Start(k) \in Nat /\ Len(frames[k]) \in Nat
    BY <1>3, <2>1, DataFacts DEF FramesTyped
  <2>6. QED BY <1>1, <2>4, <2>5, FramingAssumption
<1>5. QED BY <1>2, <1>3, <1>4

\* Frames follow one another.
LEMMA StartOrder ==
    ASSUME FramesTyped, NEW j \in 1 .. NFrames, NEW k \in 1 .. NFrames, j < k
    PROVE  Start(j + 1) <= Start(k)
<1> DEFINE T == {n \in Nat : j + 1 + n <= NFrames => Start(j + 1) <= Start(j + 1 + n)}
<1>1. 0 \in T
  <2>1. j + 1 \in 1 .. (NFrames + 1) /\ j + 1 + 0 = j + 1
    BY FramingAssumption
  <2>2. Start(j + 1) \in Nat
    BY <2>1, StartFacts
  <2>3. QED BY <2>1, <2>2
<1>2. ASSUME NEW n \in Nat, n \in T PROVE n + 1 \in T
  <2> SUFFICES ASSUME j + 1 + (n + 1) <= NFrames
               PROVE  Start(j + 1) <= Start(j + 1 + (n + 1))
    OBVIOUS
  <2> DEFINE m == j + 1 + n
  <2>1. m \in 1 .. NFrames /\ m + 1 = j + 1 + (n + 1) /\ m \in 1 .. (NFrames + 1)
        /\ j + 1 \in 1 .. (NFrames + 1)
    BY FramingAssumption
  <2>2. Start(j + 1) <= Start(m)
    BY <1>2, <2>1
  <2> HIDE DEF m
  <2>3. /\ Start(m + 1) = Start(m) + LenBytes + Len(frames[m]) /\ Start(m) \in Nat
        /\ Start(j + 1) \in Nat /\ Len(frames[m]) \in Nat
    BY <2>1, StartFacts, DataFacts DEF FramesTyped
  <2>4. Start(j + 1) <= Start(m + 1)
    BY <2>2, <2>3, FramingAssumption
  <2>5. QED BY <2>1, <2>4
<1>3. Nat \subseteq T
  <2> HIDE DEF T
  <2>1. QED BY <1>1, <1>2, SetInduction
<1>4. k - (j + 1) \in Nat /\ j + 1 + (k - (j + 1)) = k
  BY FramingAssumption
<1>5. k - (j + 1) \in T
  BY <1>3, <1>4
<1>6. QED BY <1>4, <1>5, FramingAssumption

\* A position inside frame k is inside no other frame.
LEMMA InsideOne ==
    ASSUME FramesTyped, NEW k \in 1 .. NFrames, NEW p \in (Start(k) + 1) .. Start(k + 1),
           NEW j \in 1 .. NFrames, j # k
    PROVE  ~(Start(j) < p /\ p <= Start(j + 1))
<1>1. j < k \/ k < j
  OBVIOUS
<1>2. j + 1 \in 1 .. (NFrames + 1) /\ k + 1 \in 1 .. (NFrames + 1)
      /\ j \in 1 .. (NFrames + 1) /\ k \in 1 .. (NFrames + 1)
  BY FramingAssumption
<1>3. Start(j) \in Nat /\ Start(j + 1) \in Nat /\ Start(k) \in Nat /\ Start(k + 1) \in Nat
  BY <1>2, StartFacts
<1>4. (j < k => Start(j + 1) <= Start(k)) /\ (k < j => Start(k + 1) <= Start(j))
  BY StartOrder
<1>5. QED BY <1>1, <1>3, <1>4

\* What is right for its own frame is right on the wire.
LEMMA OwnFrame ==
    ASSUME FramesTyped, NEW k \in 1 .. NFrames, NEW p \in (Start(k) + 1) .. Start(k + 1), NEW b,
           p <= Start(k) + LenBytes => b = Encode(Len(frames[k]))[p - Start(k)],
           p > Start(k) + LenBytes => b = frames[k][p - (Start(k) + LenBytes)]
    PROVE  ByteAt(p, b)
<1> SUFFICES ASSUME NEW j \in 1 .. NFrames
             PROVE  /\ p \in (Start(j) + 1) .. (Start(j) + LenBytes) =>
                           b = Encode(Len(frames[j]))[p - Start(j)]
                    /\ p \in (Start(j) + LenBytes + 1) .. Start(j + 1) =>
                           b = frames[j][p - (Start(j) + LenBytes)]
  BY DEF ByteAt
<1>1. Start(j) \in Nat /\ Start(j + 1) \in Nat /\ Start(j + 1) >= Start(j) + LenBytes
      /\ Start(k) \in Nat /\ Start(k + 1) \in Nat
  <2>1. j \in 1 .. (NFrames + 1) /\ j + 1 \in 1 .. (NFrames + 1)
        /\ k \in 1 .. (NFrames + 1) /\ k + 1 \in 1 .. (NFrames + 1)
    BY FramingAssumption
  <2>2. Len(frames[j]) \in Nat
    BY DataFacts DEF FramesTyped
  <2>3. QED BY <2>1, <2>2, StartFacts, FramingAssumption
<1>2. CASE j = k
  BY <1>1, <1>2, FramingAssumption
<1>3. CASE j # k
  <2>1. ~(Start(j) < p /\ p <= Start(j + 1))
    BY <1>3, InsideOne
  <2>2. QED BY <1>1, <2>1, FramingAssumption
<1>4. QED BY <1>2, <1>3

\* The bytes of a prefix and of a frame, at their places.
LEMMA PrefixByte ==
    ASSUME FramesTyped, NEW k \in 1 .. NFrames, NEW i \in 1 .. LenBytes
    PROVE  ByteAt(Start(k) + i, Encode(Len(frames[k]))[i])
<1>1. /\ Start(k) \in Nat /\ Len(frames[k]) \in Nat
      /\ Start(k + 1) = Start(k) + LenBytes + Len(frames[k])
  BY StartFacts, DataFacts, FramingAssumption DEF FramesTyped
<1>2. /\ Start(k) + i \in (Start(k) + 1) .. Start(k + 1) /\ (Start(k) + i) - Start(k) = i
      /\ ~(Start(k) + i > Start(k) + LenBytes)
  BY <1>1, FramingAssumption
<1>3. QED BY <1>2, OwnFrame

\* The data of a frame lies on the wire behind its prefix.
LEMMA DataByte ==
    ASSUME FramesTyped, NEW k \in 1 .. NFrames, NEW i \in 1 .. Len(frames[k])
    PROVE  ByteAt(Start(k) + LenBytes + i, frames[k][i])
<1>1. /\ Start(k) \in Nat /\ Len(frames[k]) \in Nat
      /\ Start(k + 1) = Start(k) + LenBytes + Len(frames[k])
  BY StartFacts, DataFacts, FramingAssumption DEF FramesTyped
<1> DEFINE p == Start(k) + LenBytes + i
<1>2. /\ p \in (Start(k) + 1) .. Start(k + 1) /\ p - (Start(k) + LenBytes) = i
      /\ ~(p <= Start(k) + LenBytes)
  BY <1>1, FramingAssumption
<1> HIDE DEF p
<1>3. ByteAt(p, frames[k][i])
  BY <1>2, OwnFrame
<1>4. QED BY <1>3 DEF p

-----------------------------------------------------------------------------
(* Steps.                                                                  *)

\* A piece of a sequence.
LEMMA PieceFacts ==
    ASSUME NEW S, NEW q \in Seq(S), NEW m \in Nat, NEW n \in 1 .. (Len(q) - m)
    PROVE  /\ n \in Nat /\ SubSeq(q, m + 1, m + n) \in Seq(S) /\ Len(SubSeq(q, m + 1, m + n)) = n
           /\ \A i \in 1 .. n : /\ m + i \in 1 .. Len(q)
                                /\ SubSeq(q, m + 1, m + n)[i] = q[m + i]
<1>1. /\ m + 1 \in 1 .. (Len(q) + 1) /\ m + n \in m .. Len(q) /\ (m + n) - (m + 1) + 1 = n
      /\ n \in Nat /\ Len(q) \in Nat
  OBVIOUS
<1>2. \A i \in 1 .. n : m + i \in 1 .. Len(q) /\ i + (m + 1) - 1 = m + i
  BY <1>1
<1>3. SubSeq(q, m + 1, m + n) = [i \in 1 .. n |-> q[m + i]]
  BY <1>1, <1>2
<1>4. \A i \in 1 .. n : q[m + i] \in S
  BY <1>2
<1>5. QED BY <1>1, <1>2, <1>3, <1>4

\* A prefix that grows by the elements that follow it.
LEMMA PrefixGrows ==
    ASSUME NEW S, NEW q \in Seq(S), NEW d \in Seq(S), d = SubSeq(q, 1, Len(d)), NEW e \in Seq(S),
           Len(d) + Len(e) <= Len(q), \A i \in 1 .. Len(e) : e[i] = q[Len(d) + i]
    PROVE  d \o e = SubSeq(q, 1, Len(d) + Len(e))
<1> DEFINE m == Len(d)  n == Len(e)
<1>1. m \in Nat /\ n \in Nat /\ Len(q) \in Nat
  OBVIOUS
<1>2. /\ d \o e \in Seq(S) /\ Len(d \o e) = m + n
      /\ \A i \in 1 .. m : (d \o e)[i] = d[i]
      /\ \A i \in (m + 1) .. (m + n) : (d \o e)[i] = e[i - m]
  OBVIOUS
<1>3. \A i \in 1 .. m : d[i] = q[i]
  <2>1. \A i \in 1 .. m : SubSeq(q, 1, m)[i] = q[i]
    BY <1>1
  <2>2. QED BY <2>1
<1>4. /\ SubSeq(q, 1, m + n) \in Seq(S) /\ Len(SubSeq(q, 1, m + n)) = m + n
      /\ \A i \in 1 .. (m + n) : SubSeq(q, 1, m + n)[i] = q[i]
  BY <1>1
<1> HIDE DEF m, n
<1>5. ASSUME NEW i \in 1 .. (m + n) PROVE (d \o e)[i] = q[i]
  <2>1. CASE i \in 1 .. m
    BY <1>2, <1>3, <2>1
  <2>2. CASE i \notin 1 .. m
    <3>1. i \in (m + 1) .. (m + n) /\ i - m \in 1 .. n /\ m + (i - m) = i
      BY <1>1, <2>2
    <3>2. e[i - m] = q[m + (i - m)]
      BY <3>1 DEF m, n
    <3>3. QED BY <1>2, <3>1, <3>2
  <2>3. QED BY <2>1, <2>2
<1>6. d \o e = SubSeq(q, 1, m + n)
  BY <1>2, <1>4, <1>5, SeqEqual
<1>7. QED BY <1>6 DEF m, n

\* All of a sequence is the sequence.
LEMMA WholeSeq == ASSUME NEW S, NEW q \in Seq(S) PROVE SubSeq(q, 1, Len(q)) = q
OBVIOUS

\* The wire depends on the frames only.
LEMMA SameWire ==
    ASSUME frames' = frames
    PROVE  (\A k : Start(k)' = Start(k)) /\ (\A p, b : ByteAt(p, b)' <=> ByteAt(p, b))
<1>1. Size' = Size
  BY DEF Size
<1>2. \A k : Start(k)' = Start(k)
  BY <1>1 DEF Start
<1>3. QED BY <1>2 DEF ByteAt

\* Where the two sides are is a position on the wire.
LEMMA Positions ==
    ASSUME TypeOK, Writing, Reading
    PROVE  (ReaderOpen => ReadPos \in Nat) /\ (WriterOpen => WritePos \in Nat)
<1>0. FramesTyped /\ \A k \in 1 .. NFrames : k \in 1 .. (NFrames + 1)
  BY FramingAssumption DEF TypeOK, FramesTyped
<1>1. \A k \in 1 .. NFrames : Start(k) \in Nat
  BY <1>0, StartFacts
<1>2. Len(received) \in Nat /\ sent \in Nat /\ LenBytes \in Nat
  BY FramingAssumption DEF TypeOK
<1>3. QED BY <1>1, <1>2 DEF ReadPos, WritePos, Writing, Reading

\* Bytes that are written where the writer is.
LEMMA WriteBytes ==
    ASSUME TypeOK, Writing, Reading, Wire, ReaderOpen, WriterOpen, NEW e \in Seq(Byte),
           stream' = stream \o e, UNCHANGED <<frames, sreader, reader_vars>>,
           \A i \in 1 .. Len(e) : ByteAt(WritePos + i, e[i]),
           WriterOpen' => WritePos' = WritePos + Len(e)
    PROVE  Wire'
<1>1. ReadPos' = ReadPos /\ ReadPos \in Nat /\ WritePos \in Nat /\ WritePos = ReadPos + Len(stream)
  BY SameWire, Positions DEF ReadPos, reader_vars, Wire
<1>2. /\ Len(stream) \in Nat /\ Len(e) \in Nat /\ Len(stream \o e) = Len(stream) + Len(e)
      /\ \A j \in 1 .. Len(stream) : (stream \o e)[j] = stream[j]
      /\ \A j \in (Len(stream) + 1) .. (Len(stream) + Len(e)) : (stream \o e)[j] = e[j - Len(stream)]
  BY DEF TypeOK
<1>3. ASSUME NEW j \in 1 .. Len(stream') PROVE ByteAt(ReadPos + j, stream'[j])
  <2>1. CASE j \in 1 .. Len(stream)
    BY <1>2, <2>1 DEF Wire
  <2>2. CASE j \notin 1 .. Len(stream)
    <3> DEFINE i == j - Len(stream)
    <3>1. /\ i \in 1 .. Len(e) /\ WritePos + i = ReadPos + j
          /\ j \in (Len(stream) + 1) .. (Len(stream) + Len(e))
      BY <1>1, <1>2, <2>2
    <3>2. stream'[j] = e[i]
      BY <1>2, <3>1
    <3> HIDE DEF i
    <3>3. ByteAt(WritePos + i, e[i])
      BY <3>1
    <3>4. QED BY <3>1, <3>2, <3>3
  <2>3. QED BY <2>1, <2>2
<1>4. WriterOpen' => WritePos' = ReadPos + Len(stream')
  BY <1>1, <1>2
<1>5. QED BY <1>1, <1>3, <1>4, SameWire DEF Wire

\* Bytes that are read where the reader is.
LEMMA ReadBytes ==
    ASSUME TypeOK, Writing, Reading, Wire, ReaderOpen, NEW n \in 1 .. Len(stream),
           stream' = Rest(n), UNCHANGED <<writer_vars, swriter>>,
           ReaderOpen' => ReadPos' = ReadPos + n
    PROVE  Wire'
<1>1. ReadPos \in Nat /\ frames' = frames
  BY Positions DEF writer_vars
<1>2. /\ Len(stream) \in Nat /\ Len(stream') = Len(stream) - n
      /\ \A j \in 1 .. Len(stream') : n + j \in 1 .. Len(stream) /\ stream'[j] = stream[n + j]
  BY DEF TypeOK, Rest
<1>3. WriterOpen' = WriterOpen /\ WritePos' = WritePos
  BY <1>1, SameWire DEF WriterOpen, WritePos, writer_vars
<1>4. SUFFICES ASSUME ReaderOpen'
               PROVE  /\ \A j \in 1 .. Len(stream') : ByteAt(ReadPos' + j, stream'[j])
                      /\ WriterOpen => WritePos = ReadPos' + Len(stream')
  BY <1>1, <1>3, SameWire DEF Wire
<1>5. ReadPos' = ReadPos + n
  BY <1>4
<1>6. ASSUME NEW j \in 1 .. Len(stream') PROVE ByteAt(ReadPos' + j, stream'[j])
  <2>1. n + j \in 1 .. Len(stream) /\ stream'[j] = stream[n + j] /\ ReadPos' + j = ReadPos + (n + j)
    BY <1>1, <1>2, <1>5
  <2>2. ByteAt(ReadPos + (n + j), stream[n + j])
    BY <2>1 DEF Wire
  <2>3. QED BY <2>1, <2>2
<1>7. QED BY <1>1, <1>2, <1>5, <1>6 DEF Wire

\* A reader that closes leaves nothing to say about the stream.
LEMMA ClosedWire == ASSUME ~ReaderOpen' PROVE Wire'
BY DEF Wire

\* Initially nothing is written and nothing is read.
LEMMA InitFraming == Init => FramingInv
<1> SUFFICES ASSUME Init PROVE FramingInv
  OBVIOUS
<1>1. TypeOK /\ Writing /\ Reading
  BY FramingAssumption DEF Init, TypeOK, Writing, Reading, WriterOpen, ReaderOpen
<1>2. Wire
  <2>1. Len(stream) = 0 /\ Len(delivered) + 1 = 1 /\ current = 1
        /\ swriter = "length" /\ sreader = "length"
    BY DEF Init
  <2>2. Start(1) = 0
    BY <1>1, StartFacts DEF TypeOK, FramesTyped
  <2>3. WritePos = 0 /\ ReadPos = 0
    BY <2>1, <2>2 DEF WritePos, ReadPos
  <2>4. QED BY <2>1, <2>3 DEF Wire
<1>3. DeliveredPrefix
  BY DEF Init, DeliveredPrefix
<1>4. QED BY <1>1, <1>2, <1>3 DEF FramingInv

\* The reader and the frames it returned are as before.
LEMMA ReaderUnchanged ==
    ASSUME FramingInv, UNCHANGED <<frames, reader_vars>>,
           sreader' = sreader \/ ~ReaderOpen'
    PROVE  Reading' /\ DeliveredPrefix'
BY DEF FramingInv, Reading, DeliveredPrefix, reader_vars, ReaderOpen

\* The next frame.
LEMMA NextFrameFacts ==
    ASSUME FramingInv, WriterOpen, NextFrame, frames' = frames
    PROVE  /\ (Writing /\ current \in 1 .. NFrames + 1 /\ sent \in 0 .. MaxData)'
           /\ swriter' \in {"length", "done"}
           /\ WriterOpen' => WritePos' = Start(current + 1)
<1>1. current \in 1 .. NFrames /\ current' = current + 1 /\ sent' = 0
      /\ swriter' = IF current = NFrames THEN "done" ELSE "length"
  BY DEF FramingInv, Writing, NextFrame
<1>2. Start(current + 1) \in Nat
  BY <1>1, StartFacts, FramingAssumption DEF FramingInv, TypeOK, FramesTyped
<1>3. QED BY <1>1, <1>2, SameWire, FramingAssumption DEF Writing, WriterOpen, WritePos

\* The prefix goes onto the wire where its frame starts.
LEMMA SendLengthStep == ASSUME FramingInv, SendLength PROVE FramingInv'
<1> DEFINE f == frames[current]  e == Encode(Len(f))
<1>1. /\ swriter = "length" /\ ReaderOpen /\ WriterOpen /\ stream' = stream \o e
      /\ Len(stream) + LenBytes <= Buffer
      /\ UNCHANGED <<frames, sreader, reader_vars>> /\ current \in 1 .. NFrames /\ sent = 0
      /\ \/ f = << >> /\ NextFrame
         \/ f # << >> /\ swriter' = "data" /\ UNCHANGED <<current, sent>>
  BY DEF FramingInv, SendLength, WriterOpen, Writing
<1>2. f \in Data /\ f \in Seq(Byte) /\ Len(f) \in 0 .. MaxData
  BY <1>1, DataFacts DEF FramingInv, TypeOK
<1>3. e \in Seq(Byte) /\ Len(e) = LenBytes
  BY <1>2, EncodeFacts
<1>4. /\ Start(current) \in Nat /\ WritePos = Start(current)
      /\ Start(current + 1) = Start(current) + LenBytes + Len(f)
  BY <1>1, StartFacts, FramingAssumption DEF FramingInv, TypeOK, FramesTyped, WritePos
<1>5. \A i \in 1 .. Len(e) : ByteAt(WritePos + i, e[i])
  BY <1>1, <1>3, <1>4, PrefixByte DEF FramingInv, TypeOK, FramesTyped
<1>6. /\ (Writing /\ current \in 1 .. NFrames + 1 /\ sent \in 0 .. MaxData)'
      /\ swriter' \in {"length", "data", "done"}
      /\ WriterOpen' => WritePos' = WritePos + LenBytes
  <2>1. CASE f = << >> /\ NextFrame
    <3>1. Len(f) = 0
      BY <2>1
    <3>2. WritePos + LenBytes = Start(current + 1)
      BY <1>4, <3>1, FramingAssumption
    <3>3. QED BY <1>1, <2>1, <3>2, NextFrameFacts
  <2>2. CASE f # << >> /\ swriter' = "data" /\ UNCHANGED <<current, sent>>
    <3>1. Len(f) > 0
      BY <1>2, <2>2
    <3>2. WritePos' = Start(current) + (LenBytes + 0)
      BY <1>1, <2>2, SameWire DEF WritePos
    <3>3. QED BY <1>1, <1>2, <1>4, <2>2, <3>1, <3>2, FramingAssumption DEF Writing, WriterOpen
  <2>3. QED BY <1>1, <2>1, <2>2
<1>7. stream' \in Seq(Byte) /\ Len(stream') <= Buffer
  BY <1>1, <1>3 DEF FramingInv, TypeOK
<1> HIDE DEF e, f
<1>8. Wire'
  BY <1>1, <1>3, <1>5, <1>6, WriteBytes DEF FramingInv
<1>9. TypeOK'
  BY <1>1, <1>6, <1>7 DEF FramingInv, TypeOK, reader_vars
<1>10. QED BY <1>1, <1>6, <1>8, <1>9, ReaderUnchanged DEF FramingInv

\* A piece of data goes onto the wire behind what was sent of its frame.
LEMMA SendDataStep == ASSUME FramingInv, NEW n, SendData(n) PROVE FramingInv'
<1> DEFINE f == frames[current]  e == SubSeq(f, sent + 1, sent + n)
<1>1. /\ swriter = "data" /\ ReaderOpen /\ WriterOpen /\ stream' = stream \o e
      /\ n \in 1 .. Len(f) - sent /\ Len(stream) + n <= Buffer
      /\ UNCHANGED <<frames, sreader, reader_vars>> /\ current \in 1 .. NFrames /\ sent < Len(f)
      /\ \/ sent + n = Len(f) /\ NextFrame
         \/ sent + n # Len(f) /\ sent' = sent + n /\ UNCHANGED <<swriter, current>>
  BY DEF FramingInv, SendData, WriterOpen, Writing
<1>2. f \in Data /\ f \in Seq(Byte) /\ Len(f) \in 0 .. MaxData /\ sent \in Nat
  <2>1. f \in Data /\ sent \in Nat
    BY <1>1, FramingAssumption DEF FramingInv, TypeOK
  <2>2. QED BY <2>1, DataFacts
<1>3. /\ n \in Nat /\ e \in Seq(Byte) /\ Len(e) = n
      /\ \A i \in 1 .. n : sent + i \in 1 .. Len(f) /\ e[i] = f[sent + i]
  BY <1>1, <1>2, PieceFacts
<1>4. /\ Start(current) \in Nat /\ WritePos = Start(current) + LenBytes + sent
      /\ Start(current + 1) = Start(current) + LenBytes + Len(f)
  <2>1. Start(current) \in Nat /\ Start(current + 1) = Start(current) + LenBytes + Len(f)
    BY <1>1, StartFacts, FramingAssumption DEF FramingInv, TypeOK, FramesTyped
  <2>2. WritePos = Start(current) + (LenBytes + sent)
    BY <1>1 DEF WritePos
  <2>3. QED BY <1>2, <2>1, <2>2, FramingAssumption
<1>5. ASSUME NEW i \in 1 .. Len(e) PROVE ByteAt(WritePos + i, e[i])
  <2>1. sent + i \in 1 .. Len(f) /\ e[i] = f[sent + i]
    BY <1>3
  <2>2. ByteAt(Start(current) + LenBytes + (sent + i), f[sent + i])
    BY <1>1, <2>1, DataByte DEF FramingInv, TypeOK, FramesTyped
  <2>3. Start(current) + LenBytes + (sent + i) = WritePos + i
    BY <1>2, <1>3, <1>4, FramingAssumption
  <2>4. QED BY <2>1, <2>2, <2>3
<1>6. /\ (Writing /\ current \in 1 .. NFrames + 1 /\ sent \in 0 .. MaxData)'
      /\ swriter' \in {"length", "data", "done"}
      /\ WriterOpen' => WritePos' = WritePos + n
  <2>1. CASE sent + n = Len(f) /\ NextFrame
    <3>1. WritePos + n = Start(current + 1)
      BY <1>2, <1>3, <1>4, <2>1, FramingAssumption
    <3>2. QED BY <1>1, <2>1, <3>1, NextFrameFacts
  <2>2. CASE sent + n # Len(f) /\ sent' = sent + n /\ UNCHANGED <<swriter, current>>
    <3>1. WritePos' = Start(current) + (LenBytes + (sent + n))
      BY <1>1, <2>2, SameWire DEF WritePos
    <3>2. WritePos' = WritePos + n
      BY <1>2, <1>3, <1>4, <3>1, FramingAssumption
    <3>3. sent + n < Len(f) /\ sent + n \in 0 .. MaxData
      BY <1>1, <1>2, <1>3, <2>2, FramingAssumption
    <3>4. QED BY <1>1, <2>2, <3>2, <3>3, FramingAssumption DEF Writing, WriterOpen
  <2>3. QED BY <1>1, <2>1, <2>2
<1>7. stream' \in Seq(Byte) /\ Len(stream') <= Buffer
  BY <1>1, <1>3 DEF FramingInv, TypeOK
<1> HIDE DEF e, f
<1>8. Wire'
  BY <1>1, <1>3, <1>5, <1>6, WriteBytes DEF FramingInv
<1>9. TypeOK'
  BY <1>1, <1>6, <1>7 DEF FramingInv, TypeOK, reader_vars
<1>10. QED BY <1>1, <1>6, <1>8, <1>9, ReaderUnchanged DEF FramingInv

\* The frames are a sequence.
LEMMA FramesSeq ==
    ASSUME TypeOK
    PROVE  frames \in Seq(Data) /\ Len(frames) = NFrames
BY FramingAssumption DEF TypeOK

\* receiveData returns the frame that the reader is at.
LEMMA DeliverFacts ==
    ASSUME FramingInv, ReaderOpen, frames' = frames, Deliver(frames[Len(delivered) + 1])
    PROVE  /\ Reading' /\ DeliveredPrefix'
           /\ (delivered \in Seq(Data) /\ Len(delivered) <= NFrames)'
           /\ len' = 0 /\ received' = << >> /\ sreader' \in {"done", "length"}
           /\ ReaderOpen' => ReadPos' = Start(Len(delivered) + 2)
<1> DEFINE m == Len(delivered)  f == frames[m + 1]
<1>1. /\ delivered' = Append(delivered, f) /\ len' = 0 /\ received' = << >>
      /\ sreader' = IF m + 1 = NFrames THEN "done" ELSE "length"
  BY DEF Deliver
<1>2. delivered \in Seq(Data) /\ m \in Nat /\ m + 1 \in 1 .. NFrames /\ f \in Data
  BY FramingAssumption DEF FramingInv, TypeOK, Reading
<1>3. delivered' = delivered \o <<f>> /\ Len(delivered') = m + 1 /\ delivered' \in Seq(Data)
  BY <1>1, <1>2
<1>4. DeliveredPrefix'
  <2>1. frames \in Seq(Data) /\ Len(frames) = NFrames
    BY FramesSeq DEF FramingInv
  <2>2. <<f>> \in Seq(Data) /\ Len(<<f>>) = 1 /\ \A i \in 1 .. 1 : <<f>>[i] = frames[m + i]
    BY <1>2
  <2>3. delivered = SubSeq(frames, 1, m) /\ m + 1 <= NFrames
    BY <1>2, FramingAssumption DEF FramingInv, DeliveredPrefix
  <2>4. delivered \o <<f>> = SubSeq(frames, 1, m + 1)
    <3> DEFINE e == <<f>>
    <3>1. e \in Seq(Data) /\ Len(e) = 1 /\ \A i \in 1 .. Len(e) : e[i] = frames[m + i]
      BY <2>2
    <3> HIDE DEF e, f
    <3>2. delivered \o e = SubSeq(frames, 1, m + Len(e))
      BY <1>2, <2>1, <2>3, <3>1, PrefixGrows
    <3>3. QED BY <3>1, <3>2 DEF e
  <2>5. QED BY <1>3, <2>4 DEF DeliveredPrefix
<1>5. Reading'
  BY <1>1, <1>2, <1>3, FramingAssumption DEF Reading, ReaderOpen
<1>6. ReaderOpen' => ReadPos' = Start(m + 2)
  <2> SUFFICES ASSUME ReaderOpen' PROVE ReadPos' = Start(m + 2)
    OBVIOUS
  <2>1. sreader' = "length" /\ m + 1 # NFrames
    BY <1>1 DEF ReaderOpen
  <2>2. ReadPos' = Start((m + 1) + 1) + 0
    BY <1>3, <2>1, SameWire DEF ReadPos
  <2>3. (m + 1) + 1 = m + 2 /\ m + 2 \in 1 .. (NFrames + 1)
    BY <1>2, FramingAssumption
  <2>4. Start(m + 2) \in Nat
    BY <2>3, StartFacts DEF FramingInv, TypeOK, FramesTyped
  <2>5. QED BY <2>2, <2>3, <2>4
<1>7. QED BY <1>1, <1>2, <1>3, <1>4, <1>5, <1>6, FramingAssumption

\* The writer's side of a reader's step.
LEMMA WriterUnchanged ==
    ASSUME FramingInv, UNCHANGED <<writer_vars, swriter>>
    PROVE  Writing' /\ frames' = frames
BY DEF FramingInv, Writing, writer_vars, WriterOpen

\* Whole prefixes come off the wire; the next data is the frame's.
LEMMA ReceiveLengthStep == ASSUME FramingInv, ReceiveLength PROVE FramingInv'
<1> DEFINE k == Len(delivered) + 1  f == frames[k]  e == Encode(Len(f))
<1>1. /\ sreader = "length" /\ ReaderOpen /\ Len(stream) >= LenBytes
      /\ Expect(Decode(First(LenBytes))) /\ stream' = Rest(LenBytes)
      /\ UNCHANGED <<writer_vars, swriter>> /\ k \in 1 .. NFrames
      /\ len = 0 /\ received = << >>
  BY DEF FramingInv, ReceiveLength, ReaderOpen, Reading
<1>2. f \in Data /\ f \in Seq(Byte) /\ Len(f) \in 0 .. MaxData /\ Len(f) \in Nat
  <2>1. f \in Data
    BY <1>1 DEF FramingInv, TypeOK
  <2>2. QED BY <2>1, DataFacts, FramingAssumption
<1>3. /\ Start(k) \in Nat /\ ReadPos = Start(k)
      /\ Start(k + 1) = Start(k) + LenBytes + Len(f)
  <2>1. Start(k) \in Nat /\ Start(k + 1) = Start(k) + LenBytes + Len(f)
    <3>1. FramesTyped
      BY DEF FramingInv, TypeOK, FramesTyped
    <3>2. k \in 1 .. NFrames /\ k \in 1 .. (NFrames + 1)
      BY <1>1, FramingAssumption
    <3> HIDE DEF k
    <3>3. QED BY <3>1, <3>2, StartFacts
  <2>2. ReadPos = Start(k) + 0
    BY <1>1 DEF ReadPos
  <2>3. QED BY <2>1, <2>2
<1>4. stream \in Seq(Byte) /\ Len(stream) \in Nat /\ LenBytes \in 1 .. Len(stream)
  BY <1>1, FramingAssumption DEF FramingInv, TypeOK
<1>5. First(LenBytes) = e
  <2>1. /\ First(LenBytes) \in Seq(Byte) /\ Len(First(LenBytes)) = LenBytes
        /\ \A i \in 1 .. LenBytes : First(LenBytes)[i] = stream[i] /\ i \in 1 .. Len(stream)
    BY <1>4 DEF First
  <2>2. ASSUME NEW i \in 1 .. LenBytes PROVE stream[i] = e[i]
    <3>1. ByteAt(Start(k) + i, stream[i])
      BY <1>1, <1>3, <2>1 DEF FramingInv, Wire
    <3>2. Start(k) + i \in (Start(k) + 1) .. (Start(k) + LenBytes) /\ (Start(k) + i) - Start(k) = i
      BY <1>3, FramingAssumption
    <3>3. QED BY <1>1, <3>1, <3>2 DEF ByteAt
  <2>3. e \in Seq(Byte) /\ Len(e) = LenBytes
    BY <1>2, EncodeFacts
  <2> HIDE DEF e
  <2>4. QED BY <2>1, <2>2, <2>3, SeqEqual
<1>6. Decode(First(LenBytes)) = Len(f)
  <2>1. Len(f) < Weight[LenBytes]
    BY <1>2, WeightFacts, FramingAssumption
  <2>2. QED BY <1>2, <1>5, <2>1, DecodeEncode
<1>7. stream' \in Seq(Byte) /\ Len(stream') <= Buffer
  BY <1>1, <1>4, FramingAssumption DEF FramingInv, TypeOK, Rest
<1>8. Writing' /\ frames' = frames /\ UNCHANGED <<current, sent>>
  BY <1>1, WriterUnchanged DEF writer_vars
<1>9. CASE Throw
  <2>1. ~ReaderOpen' /\ UNCHANGED reader_vars /\ sreader' = "threw"
    BY <1>9 DEF Throw, ReaderOpen
  <2>2. TypeOK'
    BY <1>1, <1>7, <1>8, <2>1 DEF FramingInv, TypeOK, reader_vars
  <2>3. QED BY <1>8, <2>1, <2>2, ClosedWire, ReaderUnchanged DEF FramingInv
<1>10. CASE Len(f) = 0 /\ Deliver(<< >>)
  <2>1. f = << >>
    BY <1>2, <1>10
  <2>2. Deliver(f)
    BY <1>10, <2>1
  <2>3. /\ Reading' /\ DeliveredPrefix' /\ (delivered \in Seq(Data) /\ Len(delivered) <= NFrames)'
        /\ len' = 0 /\ received' = << >> /\ sreader' \in {"done", "length"}
        /\ ReaderOpen' => ReadPos' = Start(Len(delivered) + 2)
    BY <1>1, <1>8, <2>2, DeliverFacts
  <2>4. Len(delivered) + 2 = k + 1 /\ Start(k + 1) = ReadPos + LenBytes
    BY <1>1, <1>3, <1>10, FramingAssumption DEF FramingInv, TypeOK
  <2>5. Wire'
    BY <1>1, <1>4, <2>3, <2>4, ReadBytes DEF FramingInv
  <2>6. TypeOK'
    BY <1>1, <1>7, <1>8, <2>3, FramingAssumption DEF FramingInv, TypeOK
  <2>7. QED BY <1>8, <2>3, <2>5, <2>6 DEF FramingInv
<1>11. CASE /\ Len(f) \in 1 .. MaxFrame /\ len' = Len(f) /\ sreader' = "data"
            /\ UNCHANGED <<received, delivered>>
  <2>1. ReadPos' = Start(k) + (LenBytes + Len(received))
    BY <1>8, <1>11, SameWire DEF ReadPos
  <2>2. Len(received) = 0
    BY <1>1
  <2>3. ReadPos' = ReadPos + LenBytes
    BY <1>3, <2>1, <2>2, FramingAssumption
  <2>4. Wire'
    BY <1>1, <1>4, <2>3, ReadBytes DEF FramingInv
  <2>5. Reading'
    <3>1. SubSeq(f, 1, 0) = << >>
      BY <1>2
    <3>2. Len(received) < Len(f) /\ received = SubSeq(f, 1, Len(received))
      BY <1>1, <1>11, <2>2, <3>1
    <3>3. QED BY <1>1, <1>8, <1>11, <3>2 DEF Reading, ReaderOpen
  <2>6. TypeOK'
    BY <1>1, <1>7, <1>8, <1>11, <2>2 DEF FramingInv, TypeOK
  <2>7. DeliveredPrefix'
    BY <1>8, <1>11 DEF FramingInv, DeliveredPrefix
  <2>8. QED BY <1>8, <2>4, <2>5, <2>6, <2>7 DEF FramingInv
<1>12. QED BY <1>1, <1>6, <1>9, <1>10, <1>11 DEF Expect

\* A piece of data continues what was received.
LEMMA ReceiveDataStep == ASSUME FramingInv, NEW n, ReceiveData(n) PROVE FramingInv'
<1> DEFINE k == Len(delivered) + 1  f == frames[k]  e == First(n)  got == Len(received)
<1>1. /\ sreader = "data" /\ ReaderOpen /\ n \in 1 .. Len(stream) /\ n <= len - got
      /\ stream' = Rest(n) /\ UNCHANGED <<writer_vars, swriter>> /\ k \in 1 .. NFrames
      /\ len = Len(f) /\ got < len /\ received = SubSeq(f, 1, got)
      /\ \/ got + n = len /\ Deliver(received \o e)
         \/ got + n # len /\ received' = received \o e /\ UNCHANGED <<len, delivered, sreader>>
  BY DEF FramingInv, ReceiveData, ReaderOpen, Reading
<1>2. f \in Data /\ f \in Seq(Byte) /\ Len(f) \in Nat /\ received \in Seq(Byte) /\ got \in Nat
  <2>1. f \in Data /\ received \in Seq(Byte)
    BY <1>1 DEF FramingInv, TypeOK
  <2>2. QED BY <2>1, DataFacts, FramingAssumption
<1>3. /\ Start(k) \in Nat /\ ReadPos = Start(k) + LenBytes + got
      /\ Start(k + 1) = Start(k) + LenBytes + Len(f)
  <2>1. Start(k) \in Nat /\ Start(k + 1) = Start(k) + LenBytes + Len(f)
    <3>1. FramesTyped
      BY DEF FramingInv, TypeOK, FramesTyped
    <3>2. k \in 1 .. NFrames /\ k \in 1 .. (NFrames + 1)
      BY <1>1, FramingAssumption
    <3> HIDE DEF k
    <3>3. QED BY <3>1, <3>2, StartFacts
  <2>2. ReadPos = Start(k) + (LenBytes + got)
    BY <1>1 DEF ReadPos
  <2>3. QED BY <1>2, <2>1, <2>2, FramingAssumption
<1>4. stream \in Seq(Byte) /\ Len(stream) \in Nat /\ n \in Nat /\ got + n <= Len(f)
  BY <1>1, <1>2, FramingAssumption DEF FramingInv, TypeOK
<1>5. /\ e \in Seq(Byte) /\ Len(e) = n
      /\ \A i \in 1 .. n : e[i] = stream[i] /\ i \in 1 .. Len(stream)
  BY <1>1, <1>4 DEF First
<1>6. ASSUME NEW i \in 1 .. n PROVE e[i] = f[got + i]
  <2> DEFINE p == ReadPos + i
  <2>1. ByteAt(p, stream[i])
    BY <1>1, <1>5 DEF FramingInv, Wire
  <2>2. /\ p \in (Start(k) + LenBytes + 1) .. Start(k + 1)
        /\ p - (Start(k) + LenBytes) = got + i
    <3> DEFINE a == Start(k)  b == Start(k + 1)  r == ReadPos  l == Len(f)
    <3>1. /\ a \in Nat /\ got \in Nat /\ l \in Nat /\ n \in Nat /\ LenBytes \in Nat
          /\ r = a + LenBytes + got /\ b = a + LenBytes + l /\ got + n <= l
      BY <1>2, <1>3, <1>4, FramingAssumption
    <3> HIDE DEF a, b, r, l, got, k, f
    <3>2. /\ r + i \in (a + LenBytes + 1) .. b
          /\ (r + i) - (a + LenBytes) = got + i
      BY <3>1
    <3>3. QED BY <3>2 DEF a, b, r
  <2> HIDE DEF p
  <2>3. stream[i] = f[got + i]
    BY <1>1, <2>1, <2>2 DEF ByteAt
  <2>4. QED BY <1>5, <2>3
<1>7. received \o e = SubSeq(f, 1, got + n) /\ received \o e \in Seq(Byte)
      /\ Len(received \o e) = got + n
  <2> HIDE DEF e, f
  <2>1. received \o e \in Seq(Byte) /\ Len(received \o e) = got + n
    BY ONLY <1>2, <1>5, ConcatProperties
  <2>2. received \o e = SubSeq(f, 1, got + n)
    BY <1>1, <1>2, <1>4, <1>5, <1>6, PrefixGrows
  <2>3. QED BY <2>1, <2>2
<1>8. stream' \in Seq(Byte) /\ Len(stream') <= Buffer
  BY <1>1, <1>4, FramingAssumption DEF FramingInv, TypeOK, Rest
<1>9. Writing' /\ frames' = frames /\ UNCHANGED <<current, sent>>
  BY <1>1, WriterUnchanged DEF writer_vars
<1>10. CASE got + n = len /\ Deliver(received \o e)
  <2>1. received \o e = f
    BY <1>1, <1>2, <1>7, <1>10, WholeSeq
  <2>2. Deliver(f)
    BY <1>10, <2>1
  <2>3. /\ Reading' /\ DeliveredPrefix' /\ (delivered \in Seq(Data) /\ Len(delivered) <= NFrames)'
        /\ len' = 0 /\ received' = << >> /\ sreader' \in {"done", "length"}
        /\ ReaderOpen' => ReadPos' = Start(Len(delivered) + 2)
    BY <1>1, <1>9, <2>2, DeliverFacts
  <2>4. Len(delivered) + 2 = k + 1 /\ Start(k + 1) = ReadPos + n
    <3>1. Len(delivered) + 2 = k + 1
      BY DEF FramingInv, TypeOK
    <3>2. got + n = Len(f)
      BY <1>1, <1>10
    <3>3. Start(k + 1) = ReadPos + n
      <4> DEFINE a == Start(k)  b == Start(k + 1)  r == ReadPos  l == Len(f)
      <4>1. /\ a \in Nat /\ got \in Nat /\ l \in Nat /\ n \in Nat /\ LenBytes \in Nat
            /\ r = a + LenBytes + got /\ b = a + LenBytes + l /\ got + n = l
        BY <1>2, <1>3, <1>4, <3>2, FramingAssumption
      <4> HIDE DEF a, b, r, l, got, k, f
      <4>2. b = r + n
        BY <4>1
      <4>3. QED BY <4>2 DEF b, r
    <3>4. QED BY <3>1, <3>3
  <2>5. Wire'
    BY <1>1, <2>3, <2>4, ReadBytes DEF FramingInv
  <2>6. TypeOK'
    BY <1>1, <1>8, <1>9, <2>3, FramingAssumption DEF FramingInv, TypeOK
  <2>7. QED BY <1>9, <2>3, <2>5, <2>6 DEF FramingInv
<1>11. CASE got + n # len /\ received' = received \o e /\ UNCHANGED <<len, delivered, sreader>>
  <2>1. Len(received') = got + n /\ got + n < len
    <3>1. Len(received') = got + n
      BY <1>7, <1>11
    <3>2. got + n # Len(f) /\ len = Len(f)
      BY <1>1, <1>11
    <3> HIDE DEF got, k, f
    <3>3. got + n < len
      BY <1>2, <1>4, <3>2
    <3>4. QED BY <3>1, <3>3
  <2>2. ReadPos' = Start(k) + (LenBytes + (got + n))
    BY <1>1, <1>9, <1>11, <2>1, SameWire DEF ReadPos
  <2>3. ReadPos' = ReadPos + n
    BY <1>2, <1>3, <1>4, <2>2, FramingAssumption
  <2>4. Wire'
    BY <1>1, <2>3, ReadBytes DEF FramingInv
  <2>5. Reading'
    <3>1. received' = SubSeq(f, 1, Len(received'))
      BY <1>7, <1>11, <2>1
    <3>2. QED BY <1>1, <1>9, <1>11, <2>1, <3>1 DEF Reading, ReaderOpen
  <2>6. TypeOK'
    BY <1>1, <1>7, <1>8, <1>9, <1>11, <2>1, FramingAssumption DEF FramingInv, TypeOK
  <2>7. DeliveredPrefix'
    BY <1>9, <1>11 DEF FramingInv, DeliveredPrefix
  <2>8. QED BY <1>9, <2>4, <2>5, <2>6, <2>7 DEF FramingInv
<1>12. QED BY <1>1, <1>10, <1>11

\* Either side gives up or dies.
LEMMA EndStep ==
    ASSUME FramingInv, SendFails \/ WriterDies \/ ReceiveFails \/ ReaderDies
    PROVE  FramingInv'
<1>1. CASE SendFails \/ WriterDies
  <2>1. swriter' = "dead" /\ UNCHANGED <<writer_vars, stream, sreader, reader_vars>>
    BY <1>1 DEF SendFails, WriterDies
  <2>2. frames' = frames /\ ~WriterOpen' /\ ReadPos' = ReadPos
    BY <2>1, SameWire DEF writer_vars, reader_vars, WriterOpen, ReadPos
  <2>3. TypeOK' /\ Writing'
    BY <2>1, <2>2 DEF FramingInv, TypeOK, Writing, writer_vars, reader_vars
  <2>4. Wire'
    BY <2>1, <2>2, SameWire DEF FramingInv, Wire, ReaderOpen
  <2>5. QED BY <2>1, <2>2, <2>3, <2>4, ReaderUnchanged DEF FramingInv
<1>2. CASE ReceiveFails \/ ReaderDies
  <2>1. /\ sreader' \in {"threw", "dead"} /\ ~ReaderOpen'
        /\ UNCHANGED <<writer_vars, swriter, stream, reader_vars>>
    BY <1>2 DEF ReceiveFails, ReaderDies, Throw, ReaderOpen
  <2>2. TypeOK' /\ Writing' /\ frames' = frames
    BY <2>1, WriterUnchanged DEF FramingInv, TypeOK, writer_vars, reader_vars
  <2>3. QED BY <2>1, <2>2, ClosedWire, ReaderUnchanged DEF FramingInv
<1>3. QED BY <1>1, <1>2

\* Every step keeps the invariant.
LEMMA NextFraming == FramingInv /\ [Next]_vars => FramingInv'
<1> SUFFICES ASSUME FramingInv, [Next]_vars PROVE FramingInv'
  OBVIOUS
<1>1. CASE UNCHANGED vars
  <2>1. frames' = frames /\ ReadPos' = ReadPos /\ WritePos' = WritePos
    BY <1>1, SameWire DEF vars, ReadPos, WritePos
  <2>2. Wire'
    BY <1>1, <2>1, SameWire DEF FramingInv, Wire, vars, ReaderOpen, WriterOpen
  <2>3. QED BY <1>1, <2>2 DEF vars, FramingInv, TypeOK, Writing, Reading, DeliveredPrefix,
            ReaderOpen, WriterOpen
<1>2. CASE Next
  BY <1>2, SendLengthStep, SendDataStep, ReceiveLengthStep, ReceiveDataStep, EndStep
     DEF Next, WriterStep, ReaderStep
<1>3. QED BY <1>1, <1>2

\* The invariant holds in every reachable state.
LEMMA FramingInvariant == Spec => []FramingInv
<1>1. QED BY InitFraming, NextFraming, PTL DEF Spec

-----------------------------------------------------------------------------
(* Theorems.                                                               *)

\* Buffers, counters and frames stay in range: no loop of sendData or receiveData
\* runs past the frame it is at.
THEOREM FramingTypes == Spec => []TypeOK
<1>1. FramingInv => TypeOK
  BY DEF FramingInv
<1>2. QED BY <1>1, FramingInvariant, PTL

\* Whatever pieces the kernel makes of them and whoever dies, receiveData returns
\* the frames given to sendData, whole and in order; an encoded length is read
\* back as it was (secure_transfer.cpp:90-128).
THEOREM FramesArriveInOrder == Spec => []DeliveredPrefix
<1>1. FramingInv => DeliveredPrefix
  BY DEF FramingInv
<1>2. QED BY <1>1, FramingInvariant, PTL
=============================================================================
