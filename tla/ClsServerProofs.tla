--------------------------- MODULE ClsServerProofs --------------------------
(***************************************************************************)
(* The command server is correct for every number of connections, message  *)
(* size, buffer size, segmentation and length of the streams: its buffer   *)
(* is overrun by nothing but a segment longer than it, the client it       *)
(* serves is there, and as long as no byte is lost each message is         *)
(* executed exactly once and answered once.                                *)
(***************************************************************************)
EXTENDS ClsServer, FiniteSetTheorems, SequenceTheorems, WellFoundedInduction, TLAPS

-----------------------------------------------------------------------------
(* The inductive invariant *)

\* The n bytes of the stream of c that begin at position `from'.
Segment(c, from, n) == [i \in 1 .. n |-> <<c, from + i - 1>>]

\* What is delivered of the stream of c and not yet part of a command.
Pending(c) == Segment(c, (delivered[c] \div MessageSize) * MessageSize,
                         delivered[c] % MessageSize)

\* The buffer holds less than a message between two callbacks.
Parsed == running \in {"boot", "loop"} => Len(recv_buffer) < MessageSize

\* Only a segment longer than the buffer has been copied past it.
Oversized == running = "overrun" => overran > BufferSize

\* A connection that was never accepted has delivered nothing.
Fresh == \A c \in Conns : pcb[c] = "none" => delivered[c] = 0

\* One connection is open; what the buffer holds is the begun message of it.
Framed ==
    /\ \A c, d \in Conns : pcb[c] = "open" /\ pcb[d] = "open" => c = d
    /\ running \in {"boot", "loop"} =>
          /\ \A c \in Conns : pcb[c] = "open" => recv_buffer = Pending(c)
          /\ (\A c \in Conns : pcb[c] # "open") => recv_buffer = <<>>

\* Every whole message delivered was executed.
Counted ==
    /\ ~misframed
    /\ running \in {"boot", "loop"} =>
          \A c \in Conns : executed[c] = delivered[c] \div MessageSize

\* Every question executed was answered, or refused for want of room.
Answered == \A c \in Conns : /\ executed[c] <= MaxMessages
                             /\ replies[c] + refused[c] = Asks(c)

IInv ==
    /\ TypeOK /\ ServedClientIsOpen /\ Parsed /\ Oversized /\ Fresh
    /\ ~tainted => Framed /\ Counted /\ Answered

-----------------------------------------------------------------------------
(* Segments of a stream *)

\* The numbers of the server.
LEMMA Sizes ==
    /\ MessageSize \in Nat \ {0} /\ BufferSize \in Nat /\ MaxSegment \in Nat
    /\ MaxMessages \in Nat /\ StreamLength \in Nat
    /\ StreamLength = MaxMessages * MessageSize /\ SndBuf \in Nat
  BY ServerAssumption DEF StreamLength

\* Division by the size of a message.
LEMMA DivMod ==
    ASSUME NEW a, a \in Nat
    PROVE  /\ a \div MessageSize \in Nat /\ a % MessageSize \in 0 .. MessageSize - 1
           /\ a = (a \div MessageSize) * MessageSize + (a % MessageSize)
           /\ a % MessageSize \in Nat /\ (a \div MessageSize) * MessageSize \in Nat
           /\ (a \div MessageSize) * MessageSize <= a
  BY Sizes

\* A quotient is known by its product.
LEMMA DivUnique ==
    ASSUME NEW a, NEW q, NEW r, a \in Nat, q \in Nat, r \in 0 .. MessageSize - 1,
           a = q * MessageSize + r
    PROVE  a \div MessageSize = q /\ a % MessageSize = r
  BY Sizes

\* Products of messages are ordered as the messages are.
LEMMA ProductOrder ==
    ASSUME NEW a, NEW b, a \in Int, b \in Int
    PROVE  /\ a * MessageSize \in Int /\ b * MessageSize \in Int
           /\ a * MessageSize = b * MessageSize => a = b
           /\ a <= b => a * MessageSize <= b * MessageSize
           /\ a * MessageSize <= b * MessageSize => a <= b
           /\ (a + b) * MessageSize = a * MessageSize + b * MessageSize
  BY Sizes

\* A function on 1 .. n is a sequence of length n.
LEMMA FunctionIsSeq ==
    ASSUME NEW S, NEW n, n \in Nat, NEW s, s \in [1 .. n -> S]
    PROVE  s \in Seq(S) /\ Len(s) = n
  <1>1. s \in Seq(S)
    OBVIOUS
  <1>2. DOMAIN s = 1 .. Len(s) /\ Len(s) \in Nat
    BY <1>1, LenProperties
  <1>3. 1 .. n = 1 .. Len(s)
    BY <1>2
  <1> QED BY <1>1, <1>2, <1>3

\* A segment is a sequence of bytes.
LEMMA SegmentType ==
    ASSUME NEW c \in Conns, NEW from, NEW n, from \in Nat, n \in Nat
    PROVE  /\ Segment(c, from, n) \in Seq(Conns \X Nat) /\ Len(Segment(c, from, n)) = n
           /\ \A i \in 1 .. n : Segment(c, from, n)[i] = <<c, from + i - 1>>
           /\ from + n <= StreamLength => Segment(c, from, n) \in Seq(Byte)
  <1>1. \A i \in 1 .. n : from + i - 1 \in Nat
    OBVIOUS
  <1>2. Segment(c, from, n) \in [1 .. n -> Conns \X Nat]
    BY <1>1 DEF Segment
  <1>3. from + n <= StreamLength => \A i \in 1 .. n : from + i - 1 \in 0 .. StreamLength - 1
    BY Sizes
  <1>4. from + n <= StreamLength => Segment(c, from, n) \in [1 .. n -> Byte]
    BY <1>3 DEF Segment, Byte
  <1>5. \A i \in 1 .. n : Segment(c, from, n)[i] = <<c, from + i - 1>>
    BY DEF Segment
  <1> QED BY <1>2, <1>4, <1>5, FunctionIsSeq

Joined(a, b) == a \o b

\* Two segments that follow one another are one.
LEMMA SegmentConcat ==
    ASSUME NEW c \in Conns, NEW from, NEW n, NEW k, from \in Nat, n \in Nat, k \in Nat
    PROVE  Joined(Segment(c, from, n), Segment(c, from + n, k)) = Segment(c, from, n + k)
  <1> DEFINE a == Segment(c, from, n)
             b == Segment(c, from + n, k)
             s == Segment(c, from, n + k)
  <1>1. from + n \in Nat /\ n + k \in Nat
    OBVIOUS
  <1>2. /\ a \in Seq(Conns \X Nat) /\ Len(a) = n
        /\ \A i \in 1 .. n : a[i] = <<c, from + i - 1>>
    BY SegmentType
  <1>3. /\ b \in Seq(Conns \X Nat) /\ Len(b) = k
        /\ \A i \in 1 .. k : b[i] = <<c, from + n + i - 1>>
    BY <1>1, SegmentType
  <1>4. /\ s \in Seq(Conns \X Nat) /\ Len(s) = n + k
        /\ \A i \in 1 .. n + k : s[i] = <<c, from + i - 1>>
    BY <1>1, SegmentType
  <1> HIDE DEF a, b, s
  <1> DEFINE ab == a \o b
  <1>5. /\ ab \in Seq(Conns \X Nat) /\ Len(ab) = n + k
        /\ \A i \in 1 .. n + k : ab[i] = IF i <= n THEN a[i] ELSE b[i - n]
    BY <1>2, <1>3, ConcatProperties
  <1> HIDE DEF ab
  <1>6. ASSUME NEW i \in 1 .. n + k PROVE ab[i] = s[i]
    <2>1. CASE i <= n
      <3>1. ab[i] = a[i] /\ i \in 1 .. n
        BY <1>5, <2>1
      <3>2. a[i] = <<c, from + i - 1>>
        BY <1>2, <3>1
      <3> QED BY <1>4, <3>1, <3>2
    <2>2. CASE i > n
      <3>1. ab[i] = b[i - n] /\ i - n \in 1 .. k
        BY <1>5, <2>2
      <3>2. from + n + (i - n) - 1 = from + i - 1
        OBVIOUS
      <3> QED BY <1>3, <1>4, <3>1, <3>2
    <2> QED BY <2>1, <2>2
  <1>7. ab = s
    BY <1>4, <1>5, <1>6, SeqEqual
  <1> QED BY <1>7 DEF Joined, ab, a, b, s

\* The elements of s after the first a, up to the b-th.
Part(s, a, b) == SubSeq(s, a + 1, b)

\* A part of a segment is a segment.
LEMMA SegmentPart ==
    ASSUME NEW c \in Conns, NEW from, NEW n, NEW a, NEW b,
           from \in Nat, n \in Nat, a \in Nat, b \in Nat, a <= b, b <= n
    PROVE  Part(Segment(c, from, n), a, b) = Segment(c, from + a, b - a)
  <1> DEFINE s == Segment(c, from, n)
             p == SubSeq(s, a + 1, b)
             t == Segment(c, from + a, b - a)
  <1>1. from + a \in Nat /\ b - a \in Nat
    OBVIOUS
  <1>2. /\ s \in Seq(Conns \X Nat) /\ Len(s) = n
        /\ \A i \in 1 .. n : s[i] = <<c, from + i - 1>>
    BY SegmentType
  <1>3. /\ t \in Seq(Conns \X Nat) /\ Len(t) = b - a
        /\ \A i \in 1 .. b - a : t[i] = <<c, from + a + i - 1>>
    BY <1>1, SegmentType
  <1> HIDE DEF s, t
  <1>4. /\ p \in Seq(Conns \X Nat) /\ Len(p) = b - a
        /\ \A i \in 1 .. b - a : p[i] = s[a + i]
    <2>1. \A i \in a + 1 .. b : s[i] \in Conns \X Nat
      BY <1>2
    <2>2. a + 1 \in Int /\ b \in Int
      OBVIOUS
    <2>3. /\ p \in Seq(Conns \X Nat)
          /\ Len(p) = IF a + 1 <= b THEN b - (a + 1) + 1 ELSE 0
          /\ \A i \in 1 .. b - (a + 1) + 1 : p[i] = s[(a + 1) + i - 1]
      BY <2>1, <2>2, SubSeqProperties
    <2>4. \A i \in 1 .. b - a : (a + 1) + i - 1 = a + i
      OBVIOUS
    <2>5. b - (a + 1) + 1 = b - a
      OBVIOUS
    <2> HIDE DEF p
    <2> QED BY <2>3, <2>4, <2>5
  <1> HIDE DEF p
  <1>5. ASSUME NEW i \in 1 .. b - a PROVE p[i] = t[i]
    <2>1. a + i \in 1 .. n /\ from + (a + i) - 1 = from + a + i - 1
      OBVIOUS
    <2> QED BY <1>2, <1>3, <1>4, <2>1
  <1>6. p = t
    BY <1>3, <1>4, <1>5, SeqEqual
  <1> QED BY <1>6 DEF Part, p, s, t

-----------------------------------------------------------------------------
(* The frames of a buffer *)

\* The parse loop takes as many whole messages as there are.
LEMMA FrameCountBounds ==
    ASSUME NEW S, NEW buf, buf \in Seq(S)
    PROVE  /\ FrameCount(buf) \in Nat /\ FrameCount(buf) * MessageSize \in 0 .. Len(buf)
           /\ Len(buf) - FrameCount(buf) * MessageSize \in 0 .. MessageSize - 1
  <1>1. Len(buf) \in Nat
    BY LenProperties
  <1> DEFINE n == Len(buf)
             q == n \div MessageSize
             r == n % MessageSize
  <1>2. q \in Nat /\ r \in 0 .. MessageSize - 1 /\ n = q * MessageSize + r
    BY <1>1, DivMod
  <1>3. q * MessageSize \in Nat /\ MessageSize \in Nat
    BY <1>2, Sizes
  <1> HIDE DEF n, q, r
  <1>4. q * MessageSize \in 0 .. n /\ n - q * MessageSize = r
    BY <1>2, <1>3
  <1> QED BY <1>2, <1>4 DEF FrameCount, n, q

\* The frames of a segment that begins with a message are the messages that follow.
LEMMA FrameOfSegment ==
    ASSUME NEW c \in Conns, NEW m, NEW n, NEW j,
           m \in Nat, n \in Nat, j \in 1 .. n \div MessageSize
    PROVE  Frame(Segment(c, m * MessageSize, n), j)
             = Segment(c, (m + j - 1) * MessageSize, MessageSize)
  <1> DEFINE a == (j - 1) * MessageSize
             b == j * MessageSize
             from == m * MessageSize
             q == n \div MessageSize
  <1>0. q \in Nat /\ j \in 1 .. q /\ q * MessageSize <= n /\ MessageSize \in Nat \ {0}
    BY DivMod, Sizes
  <1> HIDE DEF q
  <1>1. a \in Nat /\ b \in Nat /\ from \in Nat /\ b - a = MessageSize /\ a <= b
    BY <1>0
  <1>2. b <= n
    <2>1. b <= q * MessageSize /\ q * MessageSize \in Int
      BY <1>0
    <2> HIDE DEF b
    <2> QED BY <1>0, <1>1, <2>1
  <1>3. from + a = (m + j - 1) * MessageSize
    BY <1>0
  <1> HIDE DEF from, a, b
  <1>4. Part(Segment(c, from, n), a, b) = Segment(c, from + a, b - a)
    BY <1>1, <1>2, SegmentPart
  <1> QED BY <1>1, <1>3, <1>4 DEF Frame, Part, from, a, b

\* A message is recognised, by its connection and its number.
LEMMA SegmentMessage ==
    ASSUME NEW c \in Conns, NEW m, m \in Messages
    PROVE  LET frame == Segment(c, m * MessageSize, MessageSize)
           IN  /\ WellFormed(frame) /\ KindOf(frame) = MsgKind[m]
               /\ frame[1][1] = c /\ MsgKind[m] \in Kinds
  <1> DEFINE frame == Segment(c, m * MessageSize, MessageSize)
  <1>0. m \in Nat /\ MessageSize \in Nat \ {0} /\ m * MessageSize \in Nat
    BY Sizes DEF Messages
  <1>1. \A k \in 1 .. MessageSize : frame[k] = <<c, m * MessageSize + k - 1>>
    BY <1>0, SegmentType
  <1>2. IsMessage(frame, c, m)
    BY <1>1 DEF IsMessage
  <1>3. frame[1] = <<c, m * MessageSize + 1 - 1>>
    BY <1>0, <1>1
  <1> HIDE DEF frame
  <1>4. ASSUME NEW x \in Messages, NEW d \in Conns, IsMessage(frame, d, x)
        PROVE  x = m
    <2>1. frame[1] = <<d, x * MessageSize + 1 - 1>>
      BY <1>0, <1>4 DEF IsMessage
    <2>2. x * MessageSize + 1 - 1 = m * MessageSize + 1 - 1
      BY <1>3, <2>1
    <2>3. x \in Int /\ x * MessageSize \in Int
      BY <1>0 DEF Messages
    <2>4. x * MessageSize = m * MessageSize
      BY <1>0, <2>2, <2>3
    <2> QED BY <1>0, <2>3, <2>4, ProductOrder
  <1>5. (CHOOSE x \in Messages : \E d \in Conns : IsMessage(frame, d, x)) = m
    BY <1>2, <1>4
  <1>6. KindOf(frame) = MsgKind[m]
    BY <1>5 DEF KindOf
  <1>7. WellFormed(frame)
    BY <1>2 DEF WellFormed
  <1>8. MsgKind[m] \in Kinds
    BY ServerAssumption DEF Messages
  <1> QED BY <1>3, <1>6, <1>7, <1>8 DEF frame

\* The frames of buf are the messages of c from the m-th on.
IsStream(buf, c, m) ==
    /\ FrameCount(buf) \in Nat /\ m + FrameCount(buf) <= MaxMessages
    /\ \A j \in 1 .. FrameCount(buf) :
          /\ m + j - 1 \in Messages
          /\ WellFormed(Frame(buf, j)) /\ Frame(buf, j)[1][1] = c
          /\ KindOf(Frame(buf, j)) = MsgKind[m + j - 1]
          /\ KindOf(Frame(buf, j)) \in Kinds

\* So are those of a segment that begins with the m-th message.
LEMMA SegmentFrames ==
    ASSUME NEW c \in Conns, NEW m, NEW n, m \in Nat, n \in Nat,
           m * MessageSize + n <= StreamLength
    PROVE  /\ FrameCount(Segment(c, m * MessageSize, n)) = n \div MessageSize
           /\ IsStream(Segment(c, m * MessageSize, n), c, m)
  <1> DEFINE buf == Segment(c, m * MessageSize, n)
             q == n \div MessageSize
  <1>0. m * MessageSize \in Nat /\ MessageSize \in Nat \ {0} /\ MaxMessages \in Nat
    BY Sizes
  <1>1. FrameCount(buf) = q
    BY <1>0, SegmentType DEF FrameCount
  <1>2. q \in Nat /\ q * MessageSize <= n /\ q * MessageSize \in Nat
    BY DivMod
  <1> HIDE DEF q
  <1>3. m + q <= MaxMessages
    <2>1. StreamLength = MaxMessages * MessageSize /\ StreamLength \in Nat
      BY Sizes
    <2>2. m * MessageSize + q * MessageSize <= StreamLength
      BY <1>0, <1>2, <2>1
    <2>3. (m + q) * MessageSize <= MaxMessages * MessageSize
      BY <1>0, <1>2, <2>1, <2>2
    <2>4. m + q \in Int
      BY <1>2
    <2> QED BY <1>0, <2>3, <2>4, ProductOrder
  <1>4. ASSUME NEW j \in 1 .. q
        PROVE  /\ m + j - 1 \in Messages
               /\ WellFormed(Frame(buf, j)) /\ Frame(buf, j)[1][1] = c
               /\ KindOf(Frame(buf, j)) = MsgKind[m + j - 1]
               /\ KindOf(Frame(buf, j)) \in Kinds
    <2>1. m + j - 1 \in Messages
      BY <1>0, <1>2, <1>3 DEF Messages
    <2>2. Frame(buf, j) = Segment(c, (m + j - 1) * MessageSize, MessageSize)
      BY FrameOfSegment DEF q
    <2> HIDE DEF buf
    <2> QED BY <2>1, <2>2, SegmentMessage
  <1> HIDE DEF buf
  <1>5. IsStream(buf, c, m)
    BY <1>1, <1>2, <1>3, <1>4 DEF IsStream
  <1> QED BY <1>1, <1>5 DEF buf, q

\* A part of a sequence.
LEMMA PartType ==
    ASSUME NEW S, NEW s, NEW a, NEW b, s \in Seq(S), a \in Nat, b \in Nat,
           a <= b, b <= Len(s)
    PROVE  Part(s, a, b) \in Seq(S) /\ Len(Part(s, a, b)) = b - a
  <1>1. \A i \in a + 1 .. b : s[i] \in S
    <2>1. \A i \in a + 1 .. b : i \in 1 .. Len(s)
      BY LenProperties
    <2> QED BY <2>1, ElementOfSeq
  <1>2. a + 1 \in Int /\ b \in Int
    OBVIOUS
  <1> DEFINE p == SubSeq(s, a + 1, b)
  <1>3. p \in Seq(S) /\ Len(p) = IF a + 1 <= b THEN b - (a + 1) + 1 ELSE 0
    BY <1>1, <1>2, SubSeqProperties
  <1> HIDE DEF p
  <1>4. p \in Seq(S) /\ Len(p) = b - a
    BY <1>3
  <1> QED BY <1>4 DEF Part, p

\* The first of several frames.
LEMMA FirstIsOne ==
    ASSUME NEW T, T \subseteq Nat, T # {}
    PROVE  Min(T) \in T
  <1> DEFINE R == OpToRel(<, Nat)
  <1>1. \E x \in T : \A y \in T : ~(<<y, x>> \in R)
    BY NatLessThanWellFounded, WFMin
  <1>2. \A x, y \in T : ~(<<y, x>> \in R) => x <= y
    BY DEF OpToRel
  <1>3. \E x \in T : \A y \in T : x <= y
    BY <1>1, <1>2
  <1> QED BY <1>3 DEF Min

\* A driver that stops leaves the frames in front of its command executed.
LEMMA BeforeHaltPart ==
    ASSUME NEW S, NEW buf, buf \in Seq(S)
    PROVE  \E p \in 0 .. Len(buf) :
              BeforeHalt(buf) = Part(buf, 0, p) /\ (HaltsAt(buf) = {} => p = Len(buf))
  <1>0. Len(buf) \in Nat
    BY LenProperties
  <1>1. CASE HaltsAt(buf) = {}
    <2>1. SubSeq(buf, 1, Len(buf)) = buf
      BY SubSeqFull
    <2>2. Part(buf, 0, Len(buf)) = buf
      <3>1. 0 + 1 = 1
        OBVIOUS
      <3> QED BY <2>1, <3>1, Zenon DEF Part
    <2>3. BeforeHalt(buf) = buf
      BY <1>1 DEF BeforeHalt
    <2>4. Len(buf) \in 0 .. Len(buf)
      BY <1>0
    <2> QED BY <2>2, <2>3, <2>4
  <1>2. CASE HaltsAt(buf) # {}
    <2> DEFINE h == Min(HaltsAt(buf))
               q == FrameCount(buf)
    <2>1. q \in Nat /\ q * MessageSize \in 0 .. Len(buf)
      BY FrameCountBounds
    <2>2. HaltsAt(buf) \subseteq 1 .. q
      BY DEF HaltsAt, FramesOf
    <2>3. h \in 1 .. q
      BY <1>2, <2>1, <2>2, FirstIsOne
    <2> HIDE DEF h, q
    <2>4. (h - 1) * MessageSize \in 0 .. Len(buf)
      <3>1. h - 1 \in Nat /\ h - 1 <= q
        BY <2>1, <2>3
      <3>2. (h - 1) * MessageSize \in Nat /\ (h - 1) * MessageSize <= q * MessageSize
        BY <2>1, <3>1, Sizes
      <3> QED BY <1>0, <2>1, <3>2
    <2>5. BeforeHalt(buf) = Part(buf, 0, (h - 1) * MessageSize)
      <3>1. 0 + 1 = 1
        OBVIOUS
      <3>2. BeforeHalt(buf) = SubSeq(buf, 1, (h - 1) * MessageSize)
        BY <1>2 DEF BeforeHalt, h
      <3> QED BY <3>1, <3>2, Zenon DEF Part
    <2> QED BY <1>2, <2>4, <2>5
  <1> QED BY <1>1, <1>2

\* What stays in the buffer: less than a message, unless a driver stopped.
LEMMA RestType ==
    ASSUME NEW S, NEW buf, buf \in Seq(S)
    PROVE  /\ BeforeHalt(buf) \in Seq(S)
           /\ Rest(buf) \in Seq(S)
           /\ HaltsAt(buf) = {} => Len(Rest(buf)) < MessageSize
  <1>0. Len(buf) \in Nat /\ MessageSize \in Nat
    BY LenProperties, Sizes
  <1>1. PICK p \in 0 .. Len(buf) :
           BeforeHalt(buf) = Part(buf, 0, p) /\ (HaltsAt(buf) = {} => p = Len(buf))
    BY BeforeHaltPart
  <1>2. BeforeHalt(buf) \in Seq(S) /\ Len(BeforeHalt(buf)) = p
    <2>1. 0 \in Nat /\ p \in Nat /\ 0 <= p /\ p <= Len(buf) /\ p - 0 = p
      BY <1>0
    <2>2. Part(buf, 0, p) \in Seq(S) /\ Len(Part(buf, 0, p)) = p - 0
      BY <2>1, PartType
    <2> QED BY <1>1, <2>1, <2>2
  <1> DEFINE taken == FrameCount(BeforeHalt(buf)) * MessageSize
  <1>3. taken \in 0 .. p /\ p - taken \in 0 .. MessageSize - 1
    BY <1>2, FrameCountBounds
  <1>4. Rest(buf) = Part(buf, taken, Len(buf))
    BY DEF Rest, Part
  <1> HIDE DEF taken
  <1>5. Part(buf, taken, Len(buf)) \in Seq(S)
        /\ Len(Part(buf, taken, Len(buf))) = Len(buf) - taken
    <2>1. taken \in Nat /\ taken <= Len(buf)
      BY <1>0, <1>3
    <2> QED BY <1>0, <2>1, PartType
  <1> QED BY <1>0, <1>1, <1>2, <1>3, <1>4, <1>5

-----------------------------------------------------------------------------
(* Executing the frames of a buffer *)

Asking == {"GetCount", "GetVolt"}

\* The questions among the first e messages of a stream, and among n from the
\* m-th on.
AsksTo(e) == Cardinality({m \in 0 .. e - 1 : MsgKind[m] \in Asking})
AsksIn(m, n) == Cardinality({j \in 1 .. n : MsgKind[m + j - 1] \in Asking})

\* The frames of a buffer are finitely many.
LEMMA FramesFinite ==
    ASSUME NEW S, NEW buf, buf \in Seq(S), NEW T, T \subseteq 1 .. FrameCount(buf)
    PROVE  IsFiniteSet(T) /\ Cardinality(T) \in Nat
  <1>1. FrameCount(buf) \in Nat
    BY FrameCountBounds
  <1>2. IsFiniteSet(1 .. FrameCount(buf))
    BY <1>1, FS_Interval
  <1>3. IsFiniteSet(T)
    BY <1>2, FS_Subset
  <1> QED BY <1>3, FS_CardinalityType

\* Of k replies, s are sent and the others refused.
LEMMA SentOrRefused ==
    ASSUME NEW a, NEW b, NEW k, NEW s, a \in Nat, b \in Nat, k \in Nat, s \in Nat, s <= k
    PROVE  a + s \in Nat /\ b + k - s \in Nat /\ (a + s) + (b + k - s) = a + b + k
  OBVIOUS

\* Each reply is sent or refused; the counts keep their types.
LEMMA ExecuteTypes ==
    ASSUME TypeOK, NEW c \in Conns, NEW S, NEW buf, buf \in Seq(S),
           ExecuteFrames(c, buf)
    PROVE  LET asks == Cardinality(FramesOf(buf, Asking))
           IN  /\ executed' \in [Conns -> Nat] /\ misframed' \in BOOLEAN
               /\ sndbuf' \in [Conns -> 0 .. SndBuf]
               /\ replies' \in [Conns -> Nat] /\ refused' \in [Conns -> Nat]
               /\ replies'[c] + refused'[c] = replies[c] + refused[c] + asks
               /\ \A d \in Conns : d # c => /\ replies'[d] = replies[d]
                                            /\ refused'[d] = refused[d]
  <1> DEFINE asks == Cardinality(FramesOf(buf, Asking))
             sent == IF asks <= sndbuf[c] THEN asks ELSE sndbuf[c]
             execs(d) == Cardinality({j \in FramesOf(buf, Kinds) : Frame(buf, j)[1][1] = d})
  <1>1. asks \in Nat
    <2>1. FramesOf(buf, Asking) \subseteq 1 .. FrameCount(buf)
      BY DEF FramesOf
    <2> QED BY <2>1, FramesFinite
  <1>2. ASSUME NEW d \in Conns PROVE execs(d) \in Nat
    <2> DEFINE T == {j \in FramesOf(buf, Kinds) : Frame(buf, j)[1][1] = d}
    <2>1. T \subseteq 1 .. FrameCount(buf)
      BY DEF FramesOf
    <2> HIDE DEF T
    <2>2. Cardinality(T) \in Nat
      BY <2>1, FramesFinite
    <2> QED BY <2>2 DEF T
  <1>3. /\ executed' = [d \in Conns |-> executed[d] + execs(d)]
        /\ misframed' \in BOOLEAN
        /\ sndbuf' = [sndbuf EXCEPT ![c] = @ - sent]
        /\ replies' = [replies EXCEPT ![c] = @ + sent]
        /\ refused' = [refused EXCEPT ![c] = @ + asks - sent]
    BY DEF ExecuteFrames, Asking
  <1> HIDE DEF asks, execs
  <1>4. executed' \in [Conns -> Nat]
    <2>1. \A d \in Conns : executed[d] + execs(d) \in Nat
      BY <1>2, SMTT(30) DEF TypeOK
    <2> QED BY <1>3, <2>1
  <1>5. /\ sndbuf[c] \in 0 .. SndBuf /\ SndBuf \in Nat
        /\ replies[c] \in Nat /\ refused[c] \in Nat
    BY Sizes DEF TypeOK
  <1>6. sent \in Nat /\ sent <= asks /\ sndbuf[c] - sent \in 0 .. SndBuf
    BY <1>1, <1>5
  <1> HIDE DEF sent
  <1>7. sndbuf' \in [Conns -> 0 .. SndBuf]
    BY <1>3, <1>6 DEF TypeOK
  <1>8. replies[c] + sent \in Nat /\ refused[c] + asks - sent \in Nat
        /\ (replies[c] + sent) + (refused[c] + asks - sent) = replies[c] + refused[c] + asks
    BY <1>1, <1>5, <1>6, SentOrRefused, SMTT(30)
  <1>9. replies' \in [Conns -> Nat] /\ refused' \in [Conns -> Nat]
    BY <1>3, <1>8 DEF TypeOK
  <1>10. replies'[c] = replies[c] + sent /\ refused'[c] = refused[c] + asks - sent
    BY <1>3 DEF TypeOK
  <1>11. \A d \in Conns : d # c => replies'[d] = replies[d] /\ refused'[d] = refused[d]
    BY <1>3 DEF TypeOK
  <1> QED BY <1>3, <1>4, <1>7, <1>8, <1>9, <1>10, <1>11 DEF asks

\* A buffer of whole messages of one connection: each is executed, for that
\* connection, and each question among them is counted.
LEMMA ExecuteStream ==
    ASSUME TypeOK, NEW c \in Conns, NEW m, m \in Nat,
           NEW S, NEW buf, buf \in Seq(S), IsStream(buf, c, m), ExecuteFrames(c, buf)
    PROVE  /\ misframed' = misframed
           /\ executed'[c] = executed[c] + FrameCount(buf)
           /\ \A d \in Conns : d # c => executed'[d] = executed[d]
           /\ Cardinality(FramesOf(buf, Asking)) = AsksIn(m, FrameCount(buf))
  <1> DEFINE n == FrameCount(buf)
             mine(d) == {j \in FramesOf(buf, Kinds) : Frame(buf, j)[1][1] = d}
  <1>0. n \in Nat /\ \A j \in 1 .. n : /\ WellFormed(Frame(buf, j))
                                       /\ Frame(buf, j)[1][1] = c
                                       /\ KindOf(Frame(buf, j)) = MsgKind[m + j - 1]
                                       /\ KindOf(Frame(buf, j)) \in Kinds
    BY DEF IsStream
  <1>1. misframed' = misframed
    BY <1>0 DEF ExecuteFrames, TypeOK
  <1>2. mine(c) = 1 .. n
    BY <1>0 DEF FramesOf
  <1>3. \A d \in Conns : d # c => mine(d) = {}
    BY <1>0 DEF FramesOf
  <1>4. \A d \in Conns : executed'[d] = executed[d] + Cardinality(mine(d))
    BY DEF ExecuteFrames
  <1>5. FramesOf(buf, Asking) = {j \in 1 .. n : MsgKind[m + j - 1] \in Asking}
    BY <1>0 DEF FramesOf
  <1>6. Cardinality(FramesOf(buf, Asking)) = AsksIn(m, n)
    BY <1>5 DEF AsksIn
  <1> HIDE DEF n, mine
  <1>7. Cardinality(1 .. n) = n
    <2>1. Cardinality(1 .. n) = IF 1 > n THEN 0 ELSE n - 1 + 1
      BY <1>0, FS_Interval
    <2> QED BY <1>0, <2>1
  <1>8. executed'[c] = executed[c] + n
    BY <1>2, <1>4, <1>7
  <1>9. \A d \in Conns : d # c => executed'[d] = executed[d]
    <2> SUFFICES ASSUME NEW d \in Conns, d # c PROVE executed'[d] = executed[d]
      OBVIOUS
    <2>1. Cardinality(mine(d)) = 0
      BY <1>3, FS_EmptySet
    <2>2. executed[d] \in Nat
      BY DEF TypeOK
    <2> QED BY <1>4, <2>1, <2>2
  <1> QED BY <1>1, <1>6, <1>8, <1>9 DEF n

\* The questions of a stream are those of its first e messages and of the rest.
LEMMA AsksSplit ==
    ASSUME NEW e, NEW n, e \in Nat, n \in Nat
    PROVE  AsksTo(e + n) = AsksTo(e) + AsksIn(e, n) /\ AsksTo(e) \in Nat
  <1> DEFINE A == {m \in 0 .. e - 1 : MsgKind[m] \in Asking}
             B == {m \in e .. e + n - 1 : MsgKind[m] \in Asking}
             J == {j \in 1 .. n : MsgKind[e + j - 1] \in Asking}
             f == [j \in J |-> e + j - 1]
  <1>1. {m \in 0 .. e + n - 1 : MsgKind[m] \in Asking} = A \cup B /\ A \cap B = {}
    OBVIOUS
  <1>2. IsFiniteSet(A) /\ IsFiniteSet(B) /\ IsFiniteSet(J)
    <2>1. IsFiniteSet(0 .. e - 1) /\ IsFiniteSet(e .. e + n - 1) /\ IsFiniteSet(1 .. n)
      BY FS_Interval
    <2>2. A \subseteq 0 .. e - 1 /\ B \subseteq e .. e + n - 1 /\ J \subseteq 1 .. n
      OBVIOUS
    <2> HIDE DEF A, B, J
    <2> QED BY <2>1, <2>2, FS_Subset
  <1>3. f \in Bijection(J, B)
    <2>1. f \in [J -> B]
      OBVIOUS
    <2>2. \A i, j \in J : f[i] = f[j] => i = j
      OBVIOUS
    <2>3. \A b \in B : b - e + 1 \in J /\ f[b - e + 1] = b
      <3> SUFFICES ASSUME NEW b \in B PROVE b - e + 1 \in J /\ f[b - e + 1] = b
        OBVIOUS
      <3>1. b \in e .. e + n - 1 /\ MsgKind[b] \in Asking
        OBVIOUS
      <3>2. b - e + 1 \in 1 .. n /\ e + (b - e + 1) - 1 = b
        BY <3>1
      <3>3. b - e + 1 \in J
        BY <3>1, <3>2
      <3> QED BY <3>2, <3>3
    <2> HIDE DEF f, J, B
    <2> QED BY <2>1, <2>2, <2>3 DEF Bijection, Injection, Surjection, IsInjective
  <1> HIDE DEF f, A, B, J
  <1>4. Cardinality(B) = Cardinality(J)
    BY <1>2, <1>3, FS_Bijection DEF ExistsBijection
  <1>5. Cardinality(A) \in Nat /\ Cardinality(B) \in Nat
    BY <1>2, FS_CardinalityType
  <1>6. Cardinality(A \cup B) = Cardinality(A) + Cardinality(B) - Cardinality(A \cap B)
    BY <1>2, FS_Union
  <1>7. Cardinality(A \cup B) = Cardinality(A) + Cardinality(J)
    <2>1. Cardinality(A \cap B) = 0
      BY <1>1, FS_EmptySet
    <2> QED BY <1>4, <1>5, <1>6, <2>1
  <1>8. AsksTo(e) = Cardinality(A) /\ AsksIn(e, n) = Cardinality(J)
    BY DEF AsksTo, AsksIn, A, J
  <1>9. AsksTo(e + n) = Cardinality(A \cup B)
    BY <1>1 DEF AsksTo
  <1> QED BY <1>5, <1>7, <1>8, <1>9

-----------------------------------------------------------------------------
(* A segment is received *)

\* Where a segment of len bytes takes a stream of which d bytes are delivered.
LEMMA StreamPosition ==
    ASSUME NEW d, NEW len, d \in Nat, len \in Nat
    PROVE  LET m == d \div MessageSize
               n == (d % MessageSize) + len
           IN  /\ m \in Nat /\ n \in Nat /\ m * MessageSize + n = d + len
               /\ (d + len) \div MessageSize = m + n \div MessageSize
               /\ ((d + len) \div MessageSize) * MessageSize
                     = m * MessageSize + (n \div MessageSize) * MessageSize
               /\ (d + len) % MessageSize = n - (n \div MessageSize) * MessageSize
  <1> DEFINE m == d \div MessageSize
             k == d % MessageSize
             n == k + len
             q == n \div MessageSize
             r == n % MessageSize
  <1>1. m \in Nat /\ m * MessageSize \in Nat /\ n \in Nat /\ m * MessageSize + n = d + len
    <2>1. /\ m \in Nat /\ k \in Nat /\ m * MessageSize \in Nat
          /\ d = m * MessageSize + k
      BY DivMod, Zenon
    <2> HIDE DEF m, k
    <2> QED BY <2>1
  <1> HIDE DEF m, n, k
  <1>2. /\ q \in Nat /\ r \in 0 .. MessageSize - 1 /\ q * MessageSize \in Nat
        /\ n = q * MessageSize + r /\ r \in Nat
    BY <1>1, DivMod
  <1> HIDE DEF q, r
  <1>3. (m + q) * MessageSize = m * MessageSize + q * MessageSize
    BY <1>1, <1>2, ProductOrder
  <1>4. d + len = (m + q) * MessageSize + r /\ m + q \in Nat /\ d + len \in Nat
    BY <1>1, <1>2, <1>3
  <1>5. (d + len) \div MessageSize = m + q /\ (d + len) % MessageSize = r
    BY <1>2, <1>4, DivUnique
  <1>6. r = n - q * MessageSize
    BY <1>2
  <1> QED BY <1>1, <1>3, <1>5, <1>6 DEF m, n, q, k

\* A buffer that was not emptied continues the begun message with the segment.
LEMMA BufferContinues ==
    ASSUME IInv, ~tainted, running = "loop", NEW c \in Conns, pcb[c] = "open",
           NEW len, len \in Nat, ~Overflows(NextBytes(c, len))
    PROVE  Append_(NextBytes(c, len)) =
             Segment(c, (delivered[c] \div MessageSize) * MessageSize,
                        (delivered[c] % MessageSize) + len)
  <1> DEFINE d == delivered[c]
             from == (d \div MessageSize) * MessageSize
             k == d % MessageSize
             bytes == NextBytes(c, len)
  <1>0. d \in Nat
    BY Sizes DEF IInv, TypeOK
  <1>1. from \in Nat /\ k \in Nat /\ d = from + k
    <2> HIDE DEF d
    <2> QED BY <1>0, DivMod
  <1>2. recv_buffer = Segment(c, from, k)
    BY DEF IInv, Framed, Pending
  <1>3. bytes = Segment(c, from + k, len)
    BY <1>1 DEF NextBytes, Segment
  <1> HIDE DEF d, from, k, bytes
  <1>4. Joined(Segment(c, from, k), Segment(c, from + k, len)) = Segment(c, from, k + len)
    <2> SUFFICES ASSUME NEW f, NEW j, f \in Nat, j \in Nat
                 PROVE  Joined(Segment(c, f, j), Segment(c, f + j, len)) = Segment(c, f, j + len)
      BY <1>1
    <2> QED BY SegmentConcat
  <1>5. CASE recv_buffer = <<>>
    <2>1. k = 0
      <3>1. Len(Segment(c, from, k)) = k
        BY <1>1, SegmentType
      <3> QED BY <1>2, <1>5, <3>1
    <2>2. from + k = from /\ k + len = len
      BY <1>1, <2>1
    <2>3. bytes = Segment(c, from, k + len)
      BY <1>3, <2>2
    <2>4. <<>> \o bytes = bytes
      BY <1>2, <1>3, <1>4, <1>5, <2>3 DEF Joined
    <2>5. Append_(bytes) = bytes
      BY <1>5, <2>4 DEF Append_
    <2> QED BY <2>3, <2>5 DEF bytes, from, k, d
  <1>6. CASE recv_buffer # <<>>
    <2>1. Append_(bytes) = recv_buffer \o bytes
      BY <1>6 DEF Append_, Overflows, bytes
    <2> QED BY <1>2, <1>3, <1>4, <2>1 DEF Joined, bytes, from, k, d
  <1> QED BY <1>5, <1>6

\* The buffer as it is after the segment is copied.
LEMMA AppendType ==
    ASSUME IInv, NEW c \in Conns, NEW len, len \in Nat, delivered[c] + len <= StreamLength
    PROVE  /\ NextBytes(c, len) \in Seq(Byte) /\ Len(NextBytes(c, len)) = len
           /\ Append_(NextBytes(c, len)) \in Seq(Byte)
  <1>0. delivered[c] \in Nat /\ recv_buffer \in Seq(Byte)
    BY Sizes DEF IInv, TypeOK
  <1>1. NextBytes(c, len) = Segment(c, delivered[c], len)
    BY DEF NextBytes, Segment
  <1>2. NextBytes(c, len) \in Seq(Byte) /\ Len(NextBytes(c, len)) = len
    BY <1>0, <1>1, SegmentType
  <1>3. recv_buffer \o NextBytes(c, len) \in Seq(Byte)
    BY <1>0, <1>2, ConcatProperties
  <1> QED BY <1>2, <1>3 DEF Append_

\* What recv_callback does, given the buffer with the segment copied into it.
LEMMA ReceiveFields ==
    ASSUME NEW c \in Conns, NEW len, NEW lost, recv_callback(c, len, lost)
    PROVE  LET buf == Append_(NextBytes(c, len))
           IN  /\ recv_buffer' = Rest(buf) /\ ExecuteFrames(c, BeforeHalt(buf))
               /\ running' = IF HaltsAt(buf) # {} THEN "halted" ELSE running
               /\ delivered' = [delivered EXCEPT ![c] = @ + len + lost]
               /\ unreturned' = unreturned + lost
               /\ tainted' = (tainted \/ Overflows(NextBytes(c, len)) \/ lost > 0)
               /\ client_pcb' = client_pcb /\ listening' = listening
               /\ devices' = devices /\ pcb' = pcb /\ overran' = overran
  BY DEF recv_callback

\* A segment keeps the invariant: no byte of the stream is skipped or read
\* twice by the parse loop, wherever lwIP cuts it.
LEMMA ReceiveStep ==
    ASSUME IInv, running = "loop", NEW c \in Conns, pcb[c] = "open",
           NEW len, NEW lost, len \in Nat, lost \in Nat,
           delivered[c] + len + lost <= StreamLength, recv_callback(c, len, lost)
    PROVE  IInv'
  <1> DEFINE buf == Append_(NextBytes(c, len))
             front == BeforeHalt(buf)
  <1>1. /\ recv_buffer' = Rest(buf) /\ ExecuteFrames(c, front)
        /\ running' = IF HaltsAt(buf) # {} THEN "halted" ELSE running
        /\ delivered' = [delivered EXCEPT ![c] = @ + len + lost]
        /\ unreturned' = unreturned + lost
        /\ tainted' = (tainted \/ Overflows(NextBytes(c, len)) \/ lost > 0)
        /\ client_pcb' = client_pcb /\ listening' = listening
        /\ devices' = devices /\ pcb' = pcb /\ overran' = overran
    BY ReceiveFields
  <1>2. delivered[c] \in Nat /\ delivered[c] + len <= StreamLength /\ TypeOK
    <2>1. TypeOK
      BY DEF IInv
    <2>2. delivered[c] \in Nat
      BY <2>1, Sizes DEF TypeOK
    <2> QED BY <2>1, <2>2, Sizes
  <1>3. buf \in Seq(Byte)
    BY <1>2, AppendType
  <1>4. /\ front \in Seq(Byte) /\ Rest(buf) \in Seq(Byte)
        /\ HaltsAt(buf) = {} => Len(Rest(buf)) < MessageSize
    BY <1>3, RestType
  <1> HIDE DEF buf, front
  <1>5. /\ executed' \in [Conns -> Nat] /\ misframed' \in BOOLEAN
        /\ sndbuf' \in [Conns -> 0 .. SndBuf]
        /\ replies' \in [Conns -> Nat] /\ refused' \in [Conns -> Nat]
        /\ replies'[c] + refused'[c]
             = replies[c] + refused[c] + Cardinality(FramesOf(front, Asking))
        /\ \A d \in Conns : d # c => replies'[d] = replies[d] /\ refused'[d] = refused[d]
    BY <1>1, <1>2, <1>4, ExecuteTypes
  <1>6. delivered'[c] = delivered[c] + len + lost
        /\ \A d \in Conns : d # c => delivered'[d] = delivered[d]
    BY <1>1, <1>2 DEF TypeOK
  <1>7. TypeOK'
    <2>1. delivered' \in [Conns -> 0 .. StreamLength]
      BY <1>1, <1>2, Sizes DEF TypeOK
    <2>2. unreturned' \in Nat /\ tainted' \in BOOLEAN /\ running' \in {"boot", "loop", "halted"}
          /\ overran' \in Nat
      BY <1>1, <1>2 DEF TypeOK
    <2> QED BY <1>1, <1>2, <1>4, <1>5, <2>1, <2>2 DEF TypeOK
  <1>8. ServedClientIsOpen' /\ Parsed' /\ Oversized' /\ Fresh'
    <2>0. Oversized'
      BY <1>1 DEF Oversized
    <2>1. ServedClientIsOpen'
      BY <1>1 DEF IInv, ServedClientIsOpen
    <2>2. Parsed'
      BY <1>1, <1>4 DEF Parsed
    <2>3. Fresh'
      BY <1>1, <1>6 DEF IInv, Fresh
    <2> QED BY <2>0, <2>1, <2>2, <2>3
  <1>9. ASSUME ~tainted' PROVE Framed' /\ Counted' /\ Answered'
    <2>1. ~tainted /\ ~Overflows(NextBytes(c, len)) /\ lost = 0
      <3>1. ~(tainted \/ Overflows(NextBytes(c, len)) \/ lost > 0)
        BY <1>1, <1>9, Zenon
      <3> QED BY <3>1
    <2>2. Framed /\ Counted /\ Answered
      BY <2>1 DEF IInv
    <2> DEFINE m == delivered[c] \div MessageSize
               n == (delivered[c] % MessageSize) + len
               from == m * MessageSize
               all == n \div MessageSize
    <2>3. /\ m \in Nat /\ n \in Nat /\ from + n = delivered[c] + len
          /\ (delivered[c] + len) \div MessageSize = m + all
          /\ ((delivered[c] + len) \div MessageSize) * MessageSize = from + all * MessageSize
          /\ (delivered[c] + len) % MessageSize = n - all * MessageSize
      BY <1>2, StreamPosition
    <2>4. buf = Segment(c, from, n)
      BY <2>1, BufferContinues DEF buf
    <2>5. executed[c] = m
      BY <2>2 DEF Counted
    <2>6. from \in Nat /\ delivered'[c] = delivered[c] + len
      BY <1>2, <1>6, <2>1, DivMod
    <2>7. all \in Nat /\ all * MessageSize \in Nat /\ all * MessageSize <= n
      <3> HIDE DEF n
      <3> QED BY <2>3, DivMod
    <2> HIDE DEF m, n, all
    <2>8. PICK p \in 0 .. Len(buf) :
             front = Part(buf, 0, p) /\ (HaltsAt(buf) = {} => p = Len(buf))
      BY <1>3, BeforeHaltPart DEF front
    <2>9. Len(buf) = n
      BY <2>3, <2>4, <2>6, SegmentType
    <2>10. p \in Nat /\ p <= n
      BY <2>3, <2>8, <2>9
    <2>11. front = Segment(c, from, p)
      <3>1. 0 \in Nat /\ 0 <= p /\ from + 0 = from /\ p - 0 = p
        BY <2>6, <2>10
      <3>2. Part(Segment(c, from, n), 0, p) = Segment(c, from + 0, p - 0)
        BY <2>3, <2>6, <2>10, <3>1, SegmentPart
      <3> QED BY <2>4, <2>8, <3>1, <3>2
    <2>12. FrameCount(front) = p \div MessageSize /\ IsStream(front, c, m)
      <3>1. from + p <= StreamLength
        BY <1>2, <2>3, <2>6, <2>10, Sizes, SMTT(30)
      <3> QED BY <2>3, <2>10, <2>11, <3>1, SegmentFrames DEF from
    <2> DEFINE e == FrameCount(front)
    <2>13. e \in Nat /\ m + e <= MaxMessages
      BY <2>12 DEF IsStream
    <2>14. /\ misframed' = misframed
           /\ executed'[c] = executed[c] + e
           /\ \A d \in Conns : d # c => executed'[d] = executed[d]
           /\ Cardinality(FramesOf(front, Asking)) = AsksIn(m, e)
      BY <1>1, <1>2, <1>4, <2>3, <2>12, ExecuteStream, ZenonT(60)
    <2>15. HaltsAt(buf) = {} => e = all
      BY <2>8, <2>9, <2>12 DEF all
    <2> HIDE DEF e
    <2>16. Answered'
      <3> SUFFICES ASSUME NEW d \in Conns
                   PROVE  /\ executed'[d] <= MaxMessages
                          /\ replies'[d] + refused'[d] = AsksTo(executed'[d])
        BY DEF Answered, Asks, AsksTo, Asking
      <3>1. executed[d] <= MaxMessages /\ replies[d] + refused[d] = AsksTo(executed[d])
        BY <2>2 DEF Answered, Asks, AsksTo, Asking
      <3>2. CASE d # c
        BY <1>5, <2>14, <3>1, <3>2
      <3>3. CASE d = c
        <4>1. executed'[c] = m + e
          BY <2>5, <2>14
        <4>2. AsksTo(m + e) = AsksTo(m) + AsksIn(m, e)
          BY <2>3, <2>13, AsksSplit
        <4> QED BY <1>5, <2>5, <2>13, <2>14, <3>1, <3>3, <4>1, <4>2
      <3> QED BY <3>2, <3>3
    <2>17. Counted'
      <3>1. ~misframed'
        BY <2>2, <2>14 DEF Counted
      <3>2. ASSUME running' \in {"boot", "loop"}, NEW d \in Conns
            PROVE  executed'[d] = delivered'[d] \div MessageSize
        <4>1. HaltsAt(buf) = {}
          BY <1>1, <3>2
        <4>2. CASE d = c
          <5>1. executed'[c] = m + all
            BY <2>5, <2>14, <2>15, <4>1
          <5> QED BY <2>3, <2>6, <4>2, <5>1
        <4>3. CASE d # c
          BY <1>6, <2>2, <2>14, <4>3 DEF Counted
        <4> QED BY <4>2, <4>3
      <3> QED BY <3>1, <3>2 DEF Counted
    <2>18. HaltsAt(buf) = {} => recv_buffer' = Pending(c)'
      <3> SUFFICES ASSUME HaltsAt(buf) = {} PROVE recv_buffer' = Pending(c)'
        OBVIOUS
      <3>1. Rest(buf) = Part(buf, e * MessageSize, Len(buf))
        BY DEF Rest, Part, e, front
      <3>2. Rest(buf) = Part(Segment(c, from, n), all * MessageSize, n)
        BY <2>4, <2>9, <2>15, <3>1
      <3>3. Part(Segment(c, from, n), all * MessageSize, n)
              = Segment(c, from + all * MessageSize, n - all * MessageSize)
        BY <2>3, <2>6, <2>7, SegmentPart, SMTT(30)
      <3>4. Pending(c)' = Segment(c, from + all * MessageSize, n - all * MessageSize)
        BY <2>3, <2>6 DEF Pending
      <3> QED BY <1>1, <3>2, <3>3, <3>4
    <2>19. Framed'
      <3>1. \A d \in Conns : pcb[d] = "open" => d = c
        BY <2>2 DEF Framed
      <3>2. \A d, x \in Conns : pcb'[d] = "open" /\ pcb'[x] = "open" => d = x
        BY <1>1, <3>1
      <3>3. running' \in {"boot", "loop"} => recv_buffer' = Pending(c)'
        BY <1>1, <2>18
      <3> QED BY <1>1, <3>1, <3>2, <3>3 DEF Framed
    <2> QED BY <2>16, <2>17, <2>19
  <1> QED BY <1>7, <1>8, <1>9 DEF IInv

\* A segment that is copied past the buffer is longer than the buffer: one that
\* joins what the buffer holds ends before its end.
LEMMA OverrunStep ==
    ASSUME IInv, NEW c \in Conns, NEW len, len \in Nat,
           delivered[c] + len <= StreamLength, recv_callback_overruns(c, len)
    PROVE  IInv'
  <1> DEFINE bytes == NextBytes(c, len)
  <1>1. /\ Len(Append_(bytes)) > BufferSize /\ running' = "overrun" /\ overran' = len
        /\ UNCHANGED <<client_pcb, recv_buffer, listening, devices, lwip,
                       executed, replies, refused, misframed, tainted, unreturned>>
    BY DEF recv_callback_overruns
  <1>2. bytes \in Seq(Byte) /\ Len(bytes) = len
    BY AppendType
  <1>3. recv_buffer \in Seq(Byte) /\ Len(recv_buffer) \in Nat /\ BufferSize \in Nat
    BY Sizes DEF IInv, TypeOK
  <1>4. Len(recv_buffer \o bytes) = Len(recv_buffer) + len
    BY <1>2, <1>3, ConcatProperties
  <1> HIDE DEF bytes
  <1>5. len > BufferSize
    <2>1. CASE Len(recv_buffer) + Len(bytes) >= BufferSize
      BY <1>1, <1>2, <2>1 DEF Append_
    <2>2. CASE ~(Len(recv_buffer) + Len(bytes) >= BufferSize)
      <3>1. Append_(bytes) = recv_buffer \o bytes
        BY <2>2 DEF Append_
      <3> QED BY <1>1, <1>2, <1>3, <1>4, <2>2, <3>1
    <2> QED BY <2>1, <2>2
  <1>6. TypeOK'
    BY <1>1 DEF IInv, TypeOK, lwip
  <1>7. ServedClientIsOpen' /\ Parsed' /\ Oversized' /\ Fresh'
    BY <1>1, <1>5 DEF IInv, ServedClientIsOpen, Parsed, Oversized, Fresh, lwip
  <1>8. ~tainted' => Framed' /\ Counted' /\ Answered'
    BY <1>1 DEF IInv, Framed, Counted, Answered, Asks, lwip
  <1> QED BY <1>6, <1>7, <1>8 DEF IInv

-----------------------------------------------------------------------------
(* The other callbacks *)

\* An accepted client continues what the buffer holds: nothing, of a stream of
\* which nothing is delivered.
LEMMA ConnectStep ==
    ASSUME IInv, NEW c \in Conns, Connect(c)
    PROVE  IInv'
  <1> USE DEF Connect, accept_callback
  <1>1. TypeOK'
    BY DEF IInv, TypeOK
  <1>2. ServedClientIsOpen' /\ Parsed' /\ Oversized' /\ Fresh'
    BY ServerAssumption DEF IInv, TypeOK, ServedClientIsOpen, Parsed, Oversized, Fresh
  <1>3. ASSUME ~tainted' PROVE Framed' /\ Counted' /\ Answered'
    <2>1. ~tainted /\ (pcb'[c] = "open" => \A d \in Conns \ {c} : pcb[d] # "open")
      BY <1>3
    <2>2. Framed /\ Counted /\ Answered
      BY <2>1 DEF IInv
    <2>3. Counted' /\ Answered'
      BY <2>2 DEF Counted, Answered, Asks
    <2>4. /\ pcb[c] = "none" /\ \A d \in Conns : d # c => pcb'[d] = pcb[d]
          /\ pcb'[c] \in {"open", "gone"} /\ running' = running
          /\ recv_buffer' = recv_buffer /\ delivered' = delivered
      BY DEF IInv, TypeOK
    <2>5. CASE pcb'[c] = "gone"
      <3>1. \A d \in Conns : (pcb'[d] = "open") <=> (pcb[d] = "open")
        BY <2>4, <2>5
      <3> QED BY <2>2, <2>3, <2>4, <3>1 DEF Framed, Pending
    <2>6. CASE pcb'[c] = "open"
      <3>1. \A d \in Conns : pcb[d] # "open"
        BY <2>1, <2>4, <2>6
      <3>2. \A d \in Conns : pcb'[d] = "open" => d = c
        BY <2>4, <3>1
      <3>3. running \in {"boot", "loop"} => recv_buffer = <<>>
        BY <2>2, <3>1 DEF Framed
      <3>4. delivered[c] = 0
        BY <2>4 DEF IInv, Fresh
      <3>5. Pending(c)' = Segment(c, (0 \div MessageSize) * MessageSize, 0 % MessageSize)
        BY <2>4, <3>4 DEF Pending
      <3>6. 0 % MessageSize = 0
        BY Sizes
      <3>7. Pending(c)' = <<>>
        BY <3>5, <3>6 DEF Segment
      <3> QED BY <2>3, <2>4, <2>6, <3>2, <3>3, <3>7 DEF Framed
    <2> QED BY <2>3, <2>4, <2>5, <2>6
  <1> QED BY <1>1, <1>2, <1>3 DEF IInv

\* The end of a connection, orderly or not.  err_callback keeps the buffer: the
\* part of a message that it holds taints the next stream.
LEMMA EndStep ==
    ASSUME IInv, NEW c \in Conns, Disconnect(c) \/ Abort(c) \/ Closed(c)
    PROVE  IInv'
  <1> USE DEF Disconnect, recv_callback_closed, Abort, err_callback, Closed, server, aux
  <1>0. /\ \A d \in Conns : d # c => pcb'[d] = pcb[d]
        /\ pcb'[c] \in {"closing", "gone"} /\ pcb' \in [Conns -> {"none", "open", "closing", "gone"}]
        /\ delivered' = delivered /\ running = "loop" /\ running' = "loop"
        /\ recv_buffer' \in {recv_buffer, <<>>}
        /\ executed' = executed /\ replies' = replies /\ refused' = refused
        /\ misframed' = misframed /\ unreturned' = unreturned /\ sndbuf' = sndbuf
        /\ listening' = listening /\ devices' = devices
        /\ client_pcb' \in {client_pcb, NULL} /\ tainted' \in BOOLEAN
        /\ overran' = overran
    BY DEF IInv, TypeOK
  <1>1. TypeOK'
    <2> USE DEF IInv, TypeOK
    <2>1. <<>> \in Seq(Byte)
      OBVIOUS
    <2>2. recv_buffer' \in Seq(Byte)
      BY <1>0, <2>1
    <2> HIDE DEF Disconnect, Abort, Closed
    <2> QED BY <1>0, <2>2
  <1>2. ServedClientIsOpen'
    BY <1>0, ServerAssumption DEF IInv, TypeOK, ServedClientIsOpen
  <1>3. Parsed'
    <2>1. Len(<<>>) < MessageSize
      BY Sizes
    <2> QED BY <1>0, <2>1 DEF IInv, Parsed
  <1>4. Fresh' /\ Oversized'
    BY <1>0 DEF IInv, Fresh, Oversized
  <1>5. ASSUME ~tainted' PROVE Framed' /\ Counted' /\ Answered'
    <2>1. ~tainted /\ (Abort(c) => recv_buffer = <<>>)
      <3>1. CASE Abort(c)
        <4>1. ~(tainted \/ recv_buffer # <<>>)
          BY <1>5, <3>1, Zenon
        <4> QED BY <4>1
      <3>2. CASE ~Abort(c)
        <4>1. tainted' = tainted
          BY <3>2
        <4> HIDE DEF Abort
        <4> QED BY <1>5, <3>2, <4>1
      <3> QED BY <3>1, <3>2
    <2>2. Framed /\ Counted /\ Answered
      BY <2>1 DEF IInv
    <2>3. Counted' /\ Answered'
      BY <1>0, <2>2 DEF Counted, Answered, Asks
    <2>4. CASE pcb[c] # "open"
      <3>1. \A d \in Conns : (pcb'[d] = "open") <=> (pcb[d] = "open")
        BY <1>0, <2>4
      <3>2. recv_buffer' = recv_buffer
        BY <2>4
      <3> QED BY <1>0, <2>2, <2>3, <3>1, <3>2 DEF Framed, Pending
    <2>5. CASE pcb[c] = "open"
      <3>1. \A d \in Conns : pcb'[d] # "open"
        BY <1>0, <2>2, <2>5 DEF Framed
      <3>2. recv_buffer' = <<>>
        BY <2>1, <2>5
      <3> QED BY <2>3, <3>1, <3>2 DEF Framed
    <2> QED BY <2>4, <2>5
  <1> QED BY <1>1, <1>2, <1>3, <1>4, <1>5 DEF IInv

-----------------------------------------------------------------------------
(* The invariant holds *)

\* Nothing is accepted, delivered or executed before start_application.
LEMMA InvInit == Init => IInv
  <1> SUFFICES ASSUME Init PROVE IInv
    OBVIOUS
  <1>0. StreamLength \in Nat /\ SndBuf \in Nat /\ MessageSize \in Nat \ {0} /\ Len(<<>>) = 0
    BY Sizes
  <1>1. TypeOK
    <2>1. <<>> \in Seq(Byte) /\ 0 \in 0 .. StreamLength /\ SndBuf \in 0 .. SndBuf
      BY <1>0
    <2>2. /\ delivered \in [Conns -> 0 .. StreamLength] /\ sndbuf \in [Conns -> 0 .. SndBuf]
          /\ pcb \in [Conns -> {"none", "open", "closing", "gone"}]
          /\ executed \in [Conns -> Nat] /\ replies \in [Conns -> Nat]
          /\ refused \in [Conns -> Nat]
      BY <2>1 DEF Init
    <2>3. /\ recv_buffer \in Seq(Byte) /\ client_pcb \in Conns \cup {NULL}
          /\ listening \in BOOLEAN /\ running \in {"boot", "loop", "halted"}
          /\ devices \subseteq Devices /\ misframed \in BOOLEAN /\ tainted \in BOOLEAN
          /\ unreturned \in Nat /\ overran \in Nat
      BY <2>1 DEF Init
    <2> QED BY <2>2, <2>3 DEF TypeOK
  <1>2. ServedClientIsOpen /\ Parsed /\ Oversized /\ Fresh
    BY <1>0 DEF Init, ServedClientIsOpen, Parsed, Oversized, Fresh
  <1>3. Framed
    BY DEF Init, Framed
  <1>4. Counted
    <2>1. 0 \div MessageSize = 0
      BY <1>0
    <2> QED BY <2>1 DEF Init, Counted
  <1>5. Answered
    <2> SUFFICES ASSUME NEW c \in Conns
                 PROVE  /\ executed[c] <= MaxMessages
                        /\ replies[c] + refused[c] = Asks(c)
      BY DEF Answered
    <2>1. executed[c] = 0 /\ replies[c] = 0 /\ refused[c] = 0
      BY DEF Init
    <2>2. {m \in 0 .. executed[c] - 1 : MsgKind[m] \in {"GetCount", "GetVolt"}} = {}
      BY <2>1
    <2>3. Asks(c) = 0
      BY <2>2, FS_EmptySet DEF Asks
    <2> QED BY <2>1, <2>3, Sizes
  <1> QED BY <1>1, <1>2, <1>3, <1>4, <1>5 DEF IInv

\* Every callback keeps the invariant.
LEMMA InvNext == IInv /\ [Next]_vars => IInv'
  <1> SUFFICES ASSUME IInv, [Next]_vars PROVE IInv'
    OBVIOUS
  <1>1. CASE UNCHANGED vars
    BY <1>1 DEF vars, server, lwip, aux, IInv, TypeOK, ServedClientIsOpen, Parsed,
        Oversized, Fresh, Framed, Pending, Counted, Answered, Asks
  <1>2. ASSUME NEW failing \in BootFailures, StartApplication(failing) PROVE IInv'
    <2>1. /\ recv_buffer' = recv_buffer /\ client_pcb' = client_pcb /\ running' = "loop"
          /\ running = "boot" /\ pcb' = pcb /\ delivered' = delivered /\ sndbuf' = sndbuf
          /\ executed' = executed /\ replies' = replies /\ refused' = refused
          /\ misframed' = misframed /\ tainted' = tainted /\ unreturned' = unreturned
          /\ overran' = overran
      BY <1>2 DEF StartApplication, lwip, aux
    <2>2. listening' \in BOOLEAN /\ devices' \subseteq Devices
      BY <1>2 DEF StartApplication, BootFailures, Devices
    <2>3. TypeOK'
      BY <2>1, <2>2 DEF IInv, TypeOK
    <2> QED BY <2>1, <2>3 DEF IInv, ServedClientIsOpen, Parsed, Oversized, Fresh,
                Framed, Pending, Counted, Answered, Asks
  <1>3. ASSUME NEW c \in Conns, Acknowledge(c) PROVE IInv'
    <2>1. sndbuf' \in [Conns -> 0 .. SndBuf]
      BY <1>3, Sizes DEF Acknowledge, IInv, TypeOK
    <2>2. UNCHANGED <<server, pcb, delivered, aux>>
      BY <1>3 DEF Acknowledge
    <2> QED BY <2>1, <2>2 DEF server, aux, IInv, TypeOK, ServedClientIsOpen, Parsed,
                Oversized, Fresh, Framed, Pending, Counted, Answered, Asks
  <1>4. ASSUME NEW c \in Conns, NEW len \in 1 .. MaxSegment, Receive(c, len) PROVE IInv'
    <2>1. 0 \in Nat /\ len \in Nat /\ delivered[c] + len + 0 <= StreamLength
      BY <1>4, Sizes DEF Receive, IInv, TypeOK
    <2>2. running = "loop" /\ pcb[c] = "open" /\ delivered[c] + len <= StreamLength
          /\ (recv_callback(c, len, 0) \/ recv_callback_overruns(c, len))
      BY <1>4 DEF Receive
    <2> QED BY <2>1, <2>2, ReceiveStep, OverrunStep
  <1>5. ASSUME NEW c \in Conns, NEW len \in 1 .. MaxSegment, NEW more \in 1 .. MaxSegment,
               ReceiveChain(c, len, more)
        PROVE  IInv'
    <2>1. len \in Nat /\ more \in Nat
      OBVIOUS
    <2> QED BY <1>5, <2>1, ReceiveStep DEF ReceiveChain
  <1> QED BY <1>1, <1>2, <1>3, <1>4, <1>5, ConnectStep, EndStep DEF Next

\* The inductive invariant holds in every reachable state.
LEMMA InvHolds == Spec => []IInv
  BY InvInit, InvNext, PTL DEF Spec

-----------------------------------------------------------------------------
(* What the server promises *)

\* The parser state, the pcbs and the counts are of their types; tcp_write is
\* never given a reply that the send buffer has no room for.
THEOREM TypeCorrect == Spec => []TypeOK
  <1>1. IInv => TypeOK
    BY DEF IInv
  <1> QED BY <1>1, InvHolds, PTL

\* Of all segments that lwIP may deliver, in whatever order, only one that is
\* longer than the whole of recv_buffer is written past its end, and the buffer
\* holds less than one message between two callbacks.
THEOREM BufferAlwaysFits == Spec => []BufferFits
  <1>1. IInv => BufferFits
    BY DEF IInv, Parsed, Oversized, BufferFits
  <1> QED BY <1>1, InvHolds, PTL

\* client_pcb is never left on a connection that ended: err_callback and the
\* closing branch of recv_callback always free the server for the next client.
THEOREM ServedClientAlwaysOpen == Spec => []ServedClientIsOpen
  <1>1. IInv => ServedClientIsOpen
    BY DEF IInv
  <1> QED BY <1>1, InvHolds, PTL

\* Whatever the segmentation, the parse loop of recv_callback executes every
\* whole message delivered exactly once, while no byte was lost.
THEOREM ExecutedExactlyOnce == Spec => []ExactlyOnce
  <1>1. ASSUME IInv PROVE ExactlyOnce
    BY <1>1 DEF IInv, Counted, ExactlyOnce
  <1> QED BY <1>1, InvHolds, PTL

\* Each GetCount and GetVolt executed is answered once, on the connection that
\* asked, or refused because tcp_sndbuf had no room.
THEOREM RepliesAlwaysAccounted == Spec => []RepliesAccounted
  <1>1. ASSUME IInv PROVE RepliesAccounted
    BY <1>1 DEF IInv, Answered, RepliesAccounted
  <1> QED BY <1>1, InvHolds, PTL
=============================================================================
