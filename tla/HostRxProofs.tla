---------------------------- MODULE HostRxProofs ----------------------------
(***************************************************************************)
(* What main_thread does with what it receives, for any messages, any      *)
(* faults of the line and any leftovers in its locals; and that it is what *)
(* MsgLink promises.                                                       *)
(***************************************************************************)
EXTENDS HostRx, MessagesProofs

\* A round reads exactly len bytes, and the type decides len: the type that
\* parse_message_buf stores too early is never that of a result.
SizeInv ==
  /\ len \in Int
  /\ rpc = "bytes" => Len(buf) < len
  /\ rpc = "parse" => len <= Len(buf) /\ (len > 0 => Len(buf) = len)
  /\ rpc \in {"bytes", "parse"} => /\ buf # <<>>
                                   /\ buf[1] = MSG_COMPUTE_DATA => len = MessageSize(buf[1])
  /\ sized /\ rpc # "dead" => len \in {MessageSize(t) : t \in KnownType}

\* So once a round has begun with a known type, no stray length comes back.
LEMMA SizesArePositive == \A n \in {MessageSize(t) : t \in KnownType} : n > 0
  BY DEF MessageSize, PayloadSize, KnownType, MSG_NBR, STARTUP_MSG_LEN, DoubleSize

LEMMA SizesAreInts == \A t \in Byte : PayloadSize(t) \in Nat /\ MessageSize(t) \in Int
  BY DEF PayloadSize, MessageSize, STARTUP_MSG_LEN, DoubleSize

\* What parse_message_buf leaves in msg is a message, and a result is whole.
IsMsg(m) == /\ m \in [type : Byte, payload : Seq(Byte)]
            /\ m.type = MSG_COMPUTE_DATA => Len(m.payload) = PayloadSize(m.type)

LEMMA ParsedIsMsg ==
  ASSUME NEW b \in Seq(Byte), NEW m, IsMsg(m),
         b # <<>> /\ b[1] = MSG_COMPUTE_DATA => Len(b) = MessageSize(b[1])
  PROVE  IsMsg(Parsed(b, m))
<1>1. CASE Accepts(b)
  <2>1. /\ b[1] \in Byte /\ Len(b) \in Nat /\ b # <<>>
        /\ Len(b) = 2 + PayloadSize(b[1]) /\ PayloadSize(b[1]) \in Nat
    BY <1>1, SizesAreInts DEF Accepts, MessageSize
  <2> DEFINE p == SubSeq(b, 2, Len(b) - 1)
  <2>2. p \in Seq(Byte) /\ Len(p) = Len(b) - 2
    BY <2>1
  <2>3. Parsed(b, m) = [type |-> b[1], payload |-> p]
    BY <1>1 DEF Parsed
  <2>4. QED
    BY <2>1, <2>2, <2>3 DEF IsMsg
<1>2. CASE ~Accepts(b) /\ b # <<>> /\ Sum(b) = 255
  <2>1. Parsed(b, m) = [m EXCEPT !.type = b[1]] /\ b[1] \in Byte
    BY <1>2 DEF Parsed
  <2>2. b[1] # MSG_COMPUTE_DATA
    BY <1>2 DEF Accepts, MSG_COMPUTE_DATA, MSG_NBR
  <2>3. QED
    BY <2>1, <2>2 DEF IsMsg
<1>3. CASE ~Accepts(b) /\ ~(b # <<>> /\ Sum(b) = 255)
  BY <1>3 DEF Parsed
<1>4. QED
  BY <1>1, <1>2, <1>3

RxInv == RxTypeOK /\ SizeInv /\ TableInBounds

LEMMA SlotInBounds ==
  ASSUME NEW p \in Seq(Byte), Len(p) = PayloadSize(MSG_COMPUTE_DATA)
  PROVE  0 <= Slot(p) /\ Slot(p) < matrix_init
<1>1. PayloadSize(MSG_COMPUTE_DATA) = 4
  BY DEF PayloadSize, MSG_COMPUTE_DATA, MSG_STARTUP, MSG_VERSION, MSG_SET_COMPUTE, MSG_COMPUTE
<1>2. p[1] \in Byte /\ p[2] \in Byte
  <2>1. p \in [1 .. 4 -> Byte]
    BY <1>1, LenProperties
  <2>2. 1 \in 1 .. 4 /\ 2 \in 1 .. 4
    OBVIOUS
  <2>3. QED
    BY <2>1, <2>2, Zenon
<1>3. ASSUME NEW x \in Byte, NEW y \in Byte PROVE 0 <= x * 80 + y /\ x * 80 + y < 320 * 240
  BY DEF Byte
<1>4. QED
  BY <1>2, <1>3 DEF Slot, CHUNK_X, matrix_init, SIZE_X_M, SIZE_Y_M

LEMMA InitRxInv == RxInit => RxInv
<1> SUFFICES ASSUME RxInit PROVE RxInv
  OBVIOUS
<1>1. wire \in Seq(Byte) /\ buf \in Seq(Byte) /\ pending \in Seq(Replies)
  BY DEF RxInit
<1>2. IsMsg(msg) /\ type \in Byte
  BY StrayAssumption DEF RxInit, IsMsg
<1>3. DOMAIN table = {}
  BY DEF RxInit
<1>4. SizeInv
  BY DEF RxInit, SizeInv, Unset
<1>5. icrnl \in BOOLEAN /\ sized \in BOOLEAN /\ intact \in BOOLEAN
  BY DEF RxInit
<1>6. QED
  BY <1>1, <1>2, <1>3, <1>4, <1>5, BoundsAssumption
     DEF RxInit, RxInv, RxTypeOK, TableInBounds, IsMsg

\* Begin leaves a length that fits the type.
LEMMA BeginSizes ==
  ASSUME RxInv, NEW first \in Byte, Begin(first), Sizes(first), buf' = <<first>>, rpc = "read"
  PROVE  /\ rpc' \in {"bytes", "parse", "dead"}
         /\ len' \in {Unset} \cup StrayLen \cup {MessageSize(t) : t \in KnownType}
         /\ buf' \in Seq(Byte) /\ sized' \in BOOLEAN
         /\ SizeInv'
<1> USE DEF Begin
<1>1. /\ rpc' \in {"bytes", "parse", "dead"}
      /\ len' \in {Unset} \cup StrayLen \cup {MessageSize(t) : t \in KnownType}
  BY DEF RxInv, RxTypeOK
<1>2. len' \in Int
  <2>1. KnownType \subseteq Byte /\ Unset \in Int /\ StrayLen \subseteq Int
    BY StrayAssumption DEF KnownType, MSG_NBR, Byte, Unset
  <2>2. QED
    BY <1>1, <2>1, SizesAreInts
<1>3. buf' \in Seq(Byte) /\ Len(buf') = 1 /\ buf'[1] = first /\ buf' # <<>>
  OBVIOUS
<1>4. first = MSG_COMPUTE_DATA /\ rpc' # "dead" => len' = MessageSize(first)
  BY DEF KnownType, MSG_COMPUTE_DATA, MSG_NBR
<1>5. sized' \in BOOLEAN /\ (sized' /\ rpc' # "dead" => len' \in {MessageSize(t) : t \in KnownType})
  <2>1. CASE first \in KnownType
    BY <2>1 DEF Sizes, RxInv, RxTypeOK
  <2>2. CASE first \notin KnownType /\ ~sized
    BY <2>2 DEF Sizes
  <2>3. CASE first \notin KnownType /\ sized
    <3>1. len \in {MessageSize(t) : t \in KnownType} /\ sized' = TRUE
      BY <2>3 DEF Sizes, RxInv, SizeInv
    <3>2. len # Unset
      BY <3>1, SizesArePositive DEF Unset
    <3>3. QED
      BY <2>3, <3>1, <3>2
  <2>4. QED
    BY <2>1, <2>2, <2>3 DEF RxInv, RxTypeOK
<1>6. QED
  BY <1>1, <1>2, <1>3, <1>4, <1>5 DEF SizeInv

LEMMA FaultTypes ==
  ASSUME RxTypeOK, Break, Fault \/ faults' = faults
  PROVE  pending' \in Seq(Replies) /\ intact' \in BOOLEAN /\ faults' \in 0 .. MaxFaults
<1>1. pending' \in Seq(Replies)
  BY DEF Break
<1>2. intact' \in BOOLEAN
  BY DEF Break
<1>3. faults' \in 0 .. MaxFaults
  BY BoundsAssumption DEF Fault, RxTypeOK
<1>4. QED
  BY <1>1, <1>2, <1>3

LEMMA DeliveredIsByte == \A b \in Byte, c \in BOOLEAN : Delivered(b, c) \in Byte
  BY DEF Delivered, Byte, NEWLINE

LEMMA GetcTypes ==
  ASSUME RxTypeOK, Getc
  PROVE  /\ type' \in Byte /\ wire' \in Seq(Byte)
         /\ pending' \in Seq(Replies) /\ intact' \in BOOLEAN /\ faults' \in 0 .. MaxFaults
<1>1. CASE Break /\ UNCHANGED <<type, wire>> /\ (Fault \/ faults' = faults)
  BY <1>1, FaultTypes DEF RxTypeOK
<1>2. CASE /\ wire # <<>> /\ type' = Delivered(Head(wire), icrnl) /\ wire' = Tail(wire)
           /\ UNCHANGED <<faults, link>>
  <2>1. Head(wire) \in Byte /\ wire' \in Seq(Byte)
    BY <1>2 DEF RxTypeOK
  <2>2. type' \in Byte
    BY <1>2, <2>1, DeliveredIsByte DEF RxTypeOK
  <2>3. QED
    BY <1>2, <2>1, <2>2 DEF RxTypeOK, link
<1>3. QED
  BY <1>1, <1>2 DEF Getc, Fault

\* What the board sends can be read back.
LEMMA ReplyFacts ==
  ASSUME NEW m \in Replies
  PROVE  /\ Fill(m) \in Seq(Byte) /\ Len(Fill(m)) = MessageSize(m.type) /\ Len(Fill(m)) \in Nat
         /\ Fill(m)[1] = m.type /\ m.type \in KnownType /\ Len(Fill(m)) >= 2
         /\ \A old : Parsed(Fill(m), old) = m
<1>1. m \in Filling /\ Len(m.payload) = PayloadSize(m.type) /\ Len(m.payload) \in Nat
  BY RepliesAssumption DEF Filling
<1>2. Fill(m) \in Seq(Byte) /\ Len(Fill(m)) = Len(m.payload) + 2 /\ Fill(m)[1] = m.type
  BY <1>1, FillFacts
<1>3. \A old : Parsed(Fill(m), old) = m
  BY <1>1, FilledIsAccepted
<1>4. QED
  BY <1>1, <1>2, <1>3 DEF MessageSize, Filling

LEMMA NextRxInv == RxInv /\ [RxNext]_rvars => RxInv'
<1> SUFFICES ASSUME RxInv, [RxNext]_rvars PROVE RxInv'
  OBVIOUS
<1> USE BoundsAssumption DEF RxInv, link
<1>1. CASE UNCHANGED rvars
  BY <1>1 DEF rvars, RxTypeOK, SizeInv, TableInBounds
<1>2. ASSUME NEW m \in Replies, BoardSend(m) PROVE RxInv'
  <2>1. wire' \in Seq(Byte) /\ pending' \in Seq(Replies) /\ intact' \in BOOLEAN
    BY <1>2, ReplyFacts DEF BoardSend, RxTypeOK
  <2>2. QED
    BY <1>2, <2>1 DEF BoardSend, RxTypeOK, SizeInv, TableInBounds
<1>3. CASE Lose
  <2>1. /\ wire' \in Seq(Byte)
        /\ pending' \in Seq(Replies) /\ intact' \in BOOLEAN /\ faults' \in 0 .. MaxFaults
    BY <1>3, FaultTypes DEF Lose, Fault, RxTypeOK
  <2>2. QED
    BY <1>3, <2>1 DEF Lose, RxTypeOK, SizeInv, TableInBounds
<1>4. CASE RxFirst
  <2>1. Head(wire) \in Byte /\ wire' \in Seq(Byte)
    BY <1>4 DEF RxFirst, RxTypeOK
  <2>2. type' \in Byte /\ Begin(type') /\ Sizes(type') /\ buf' = <<type'>> /\ rpc = "read"
    BY <1>4, <2>1, DeliveredIsByte DEF RxFirst, RxTypeOK
  <2>3. QED
    BY <1>4, <2>1, <2>2, BeginSizes DEF RxFirst, RxTypeOK, TableInBounds
<1>5. CASE RxFirstError
  <2>1. /\ type \in Byte
        /\ pending' \in Seq(Replies) /\ intact' \in BOOLEAN /\ faults' \in 0 .. MaxFaults
    BY <1>5, FaultTypes DEF RxFirstError, Fault, RxTypeOK
  <2>2. QED
    BY <1>5, <2>1, BeginSizes DEF RxFirstError, RxTypeOK, TableInBounds
<1>6. CASE RxByte
  <2>1. /\ type' \in Byte /\ wire' \in Seq(Byte)
        /\ pending' \in Seq(Replies) /\ intact' \in BOOLEAN /\ faults' \in 0 .. MaxFaults
    BY <1>6, GetcTypes DEF RxByte
  <2>3. /\ buf' \in Seq(Byte) /\ rpc' \in {"bytes", "parse"}
        /\ buf' # <<>> /\ buf'[1] = buf[1]
        /\ rpc' = "bytes" => Len(buf') < len
        /\ rpc' = "parse" => Len(buf') = len
    <3>1. buf \in Seq(Byte) /\ len \in Int /\ Len(buf) < len /\ buf # <<>>
      BY <1>6 DEF RxByte, RxTypeOK, SizeInv
    <3>2. CASE getc'.ret % 256 > 0
      <4>1. buf' = Append(buf, type') /\ rpc' = IF Len(buf') < len THEN "bytes" ELSE "parse"
        BY <1>6, <3>2 DEF RxByte
      <4>2. /\ buf' \in Seq(Byte) /\ Len(buf') = Len(buf) + 1
            /\ buf' # <<>> /\ buf'[1] = buf[1]
        BY <2>1, <3>1, <4>1
      <4>3. QED
        BY <3>1, <4>1, <4>2
    <3>3. CASE ~(getc'.ret % 256 > 0)
      <4>1. PICK rest \in Rest(len - Len(buf)) : buf' = buf \o rest
        BY <1>6, <3>3 DEF RxByte
      <4>2. rest \in Seq(Byte) /\ Len(rest) = len - Len(buf)
        <5> DEFINE n == len - Len(buf)
        <5>1. n \in Nat /\ n >= 1
          BY <3>1
        <5>2. \A found \in [1 .. n - 1 -> StrayByte] : found \in Seq(Byte) /\ Len(found) = n - 1
          BY <5>1, StrayAssumption
        <5>3. \A found \in Seq(Byte) : 255 - Sum(buf \o found) \in Byte
          <6> SUFFICES ASSUME NEW found \in Seq(Byte) PROVE 255 - Sum(buf \o found) \in Byte
            OBVIOUS
          <6>1. buf \o found \in Seq(Byte)
            BY <3>1
          <6>2. Sum(buf \o found) \in Byte
            BY <6>1, SumIsByte
          <6>3. \A x \in Byte : 255 - x \in Byte
            BY DEF Byte
          <6>4. QED
            BY <6>2, <6>3
        <5>4. \E found \in [1 .. n - 1 -> StrayByte], b \in Byte : rest = Append(found, b)
          <6>1. \/ \E found \in [1 .. n - 1 -> StrayByte], b \in StrayByte : rest = Append(found, b)
                \/ \E found \in [1 .. n - 1 -> StrayByte] : rest = Append(found, 255 - Sum(buf \o found))
            BY <4>1 DEF Rest
          <6>2. QED
            BY <5>2, <5>3, <6>1, StrayAssumption
        <5>5. PICK found \in Seq(Byte), b \in Byte : rest = Append(found, b) /\ Len(found) = n - 1
          BY <5>2, <5>4
        <5>6. rest \in Seq(Byte) /\ Len(rest) = n
          BY <5>1, <5>5
        <5>7. QED
          BY <5>6
      <4>3. QED
        BY <1>6, <3>1, <3>3, <4>1, <4>2 DEF RxByte
    <3>4. QED
      BY <3>2, <3>3
  <2>4. QED
    BY <1>6, <2>1, <2>3 DEF RxByte, RxTypeOK, SizeInv, TableInBounds
<1>7. CASE RxParse
  <2> DEFINE b == SubSeq(buf, 1, len)
  <2>1. /\ b \in Seq(Byte)
        /\ b # <<>> /\ b[1] = MSG_COMPUTE_DATA => Len(b) = MessageSize(b[1])
    BY <1>7 DEF RxParse, RxTypeOK, SizeInv
  <2>2. IsMsg(msg')
    BY <1>7, <2>1, ParsedIsMsg DEF RxParse, RxTypeOK, IsMsg
  <2>3. \A slot \in DOMAIN table' : slot \in DOMAIN table \/ (/\ msg'.type = MSG_COMPUTE_DATA
                                                              /\ slot = Slot(msg'.payload))
    BY <1>7 DEF RxParse, Stored
  <2>4. TableInBounds'
    BY <2>2, <2>3, SlotInBounds DEF TableInBounds, IsMsg
  <2>5. pending' \in Seq(Replies)
    BY <1>7 DEF RxParse, RxTypeOK
  <2>6. buf' \in Seq(Byte)
    BY <1>7 DEF RxParse
  <2>7. QED
    BY <1>7, <2>2, <2>4, <2>5, <2>6 DEF RxParse, RxTypeOK, SizeInv, IsMsg
<1>8. QED
  BY <1>1, <1>2, <1>3, <1>4, <1>5, <1>6, <1>7 DEF RxNext, RxStep

LEMMA RxInvariance == RxSpec => []RxInv
  BY InitRxInv, NextRxInv, PTL DEF RxSpec

\* The locals of main_thread keep their types whatever the line brings.
THEOREM RxTypeCorrect == RxSpec => []RxTypeOK
<1>1. RxInv => RxTypeOK
  BY DEF RxInv
<1>2. QED
  BY <1>1, RxInvariance, PTL

\* For any bytes and any leftovers, what main_thread takes for a result goes
\* into results.table, never outside it.
THEOREM ResultsStayInTable == RxSpec => []TableInBounds
<1>1. RxInv => TableInBounds
  BY DEF RxInv
<1>2. QED
  BY <1>1, RxInvariance, PTL

\* From the first round that begins with a known type on, main_thread writes no
\* byte past the end of msg_buf.  (Before, a stray len of 0 or less has even the
\* first byte written outside it.)
THEOREM BufferIsLargeEnough == RxSpec => []BufferHolds
<1>1. RxInv => BufferHolds
  <2> SUFFICES ASSUME RxInv, sized, rpc \in {"bytes", "parse"} PROVE Len(buf) <= len
    BY DEF BufferHolds
  <2>1. len > 0
    BY SizesArePositive DEF RxInv, SizeInv
  <2>2. len \in Int /\ Len(buf) \in Nat
    BY DEF RxInv, RxTypeOK, SizeInv
  <2>3. QED
    BY <2>1, <2>2 DEF RxInv, SizeInv
<1>2. QED
  BY <1>1, RxInvariance, PTL

-----------------------------------------------------------------------------
(* The refinement.  While the link is intact, what is read of the round    *)
(* and what is still to be read are together the bytes of the messages     *)
(* pending, as the port delivers them.                                     *)

Frame(m, c)     == DeliveredAll(Fill(m), c)
Frames(msgs, c) == [k \in 1 .. Len(msgs) |-> Frame(msgs[k], c)]
Filled(c)       == {Frame(m, c) : m \in Replies}

\* A message that the port changes is refused, any other is what was sent.
LEMMA FrameFacts ==
  ASSUME NEW m \in Replies, NEW c \in BOOLEAN
  PROVE  /\ Frame(m, c) \in Seq(Byte) /\ Len(Frame(m, c)) = Len(Fill(m)) /\ Len(Fill(m)) \in Nat
         /\ Len(Fill(m)) = MessageSize(m.type) /\ Len(Fill(m)) >= 2
         /\ Frame(m, c)[1] = m.type /\ m.type \in KnownType
         /\ \A old : Parsed(Frame(m, c), old) = IF c /\ m \in WithReturn THEN old ELSE m
<1> DEFINE f == Fill(m)
           d == Frame(m, c)
<1>1. /\ f \in Seq(Byte) /\ Len(f) = MessageSize(m.type) /\ Len(f) \in Nat
      /\ f[1] = m.type /\ m.type \in KnownType /\ Len(f) >= 2
      /\ \A old : Parsed(f, old) = m
  BY ReplyFacts
<1>2. /\ d \in Seq(Byte) /\ Len(d) = Len(f)
      /\ \A i \in 1 .. Len(f) : d[i] = Delivered(f[i], c)
  BY <1>1, DeliveredFacts DEF Frame
<1>3. Sum(f) = 255 /\ Len(f) <= Short
  <2>1. m \in Filling
    BY RepliesAssumption DEF Filling
  <2>2. MessageSize(m.type) \in 2 .. Short
    BY <1>1, MessagesAreShort
  <2>3. Sum(f) = 255
    BY <2>1, FillFacts
  <2>4. \A n \in 2 .. Short : n <= Short
    BY DEF Short
  <2>5. QED
    BY <1>1, <2>2, <2>3, <2>4
<1>4. m \in WithReturn <=> \E i \in 1 .. Len(f) : f[i] = CARRIAGE_RETURN
  BY DEF WithReturn
<1>5. d[1] = m.type
  <2>1. Delivered(m.type, c) = m.type
    BY <1>1 DEF Delivered, CARRIAGE_RETURN, KnownType, MSG_NBR
  <2>2. QED
    BY <1>1, <1>2, <2>1
<1>6. ASSUME c, m \in WithReturn, NEW old PROVE Parsed(d, old) = old
  <2>1. PICK i \in 1 .. Len(f) : f[i] = CARRIAGE_RETURN
    BY <1>4, <1>6
  <2>2. d[i] = NEWLINE
    BY <1>2, <1>6, <2>1 DEF Delivered
  <2>3. d # f
    BY <2>1, <2>2 DEF NEWLINE, CARRIAGE_RETURN
  <2>4. Sum(d) # 255
    <3> HIDE DEF f
    <3>1. d = DeliveredAll(f, c)
      BY DEF Frame, f
    <3>2. QED
      BY <1>1, <1>3, <2>3, <3>1, DeliveryIsNoticed
  <2>5. QED
    BY <2>4 DEF Parsed, Accepts
<1>7. ASSUME ~(c /\ m \in WithReturn) PROVE d = f
  <2>1. \A i \in 1 .. Len(f) : d[i] = f[i]
    BY <1>2, <1>4, <1>7 DEF Delivered
  <2>2. QED
    BY <1>1, <1>2, <2>1, SeqEqual
<1>8. QED
  BY <1>1, <1>2, <1>5, <1>6, <1>7

ToRead == buf \o DeliveredAll(wire, icrnl)

\* A round that has begun on an intact link is reading the oldest message.
LinkInv ==
  /\ ~intact => pending = <<>>
  /\ rpc = "read" => buf = <<>>
  /\ intact => Spelt(ToRead, Frames(pending, icrnl))
  /\ intact /\ rpc \in {"bytes", "parse"} => pending # <<>> /\ len = Len(Fill(Head(pending)))

LEMMA SeqIsFunction ==
  ASSUME NEW S, NEW s \in Seq(S)
  PROVE  s = [k \in 1 .. Len(s) |-> s[k]]
  OBVIOUS

LEMMA FramesFacts ==
  ASSUME NEW p \in Seq(Replies), NEW c \in BOOLEAN
  PROVE  /\ Filled(c) \subseteq Seq(Byte) /\ Frames(p, c) \in Seq(Filled(c))
         /\ \A m \in Replies : Frames(Append(p, m), c) = Append(Frames(p, c), Frame(m, c))
         /\ Frames(p, c) = <<>> <=> p = <<>>
         /\ p # <<>> => Head(Frames(p, c)) = Frame(Head(p), c) /\ Frames(Tail(p), c) = Tail(Frames(p, c))
<1>1. Filled(c) \subseteq Seq(Byte)
  BY FrameFacts DEF Filled
<1>2. Len(p) \in Nat /\ \A k \in 1 .. Len(p) : p[k] \in Replies
  OBVIOUS
<1>3. Frames(p, c) \in Seq(Filled(c)) /\ Len(Frames(p, c)) = Len(p)
      /\ \A k \in 1 .. Len(p) : Frames(p, c)[k] = Frame(p[k], c)
  <2>1. \A k \in 1 .. Len(p) : Frame(p[k], c) \in Filled(c)
    BY <1>2 DEF Filled
  <2>2. QED
    BY <1>2, <2>1, IsASeq DEF Frames
<1>4. ASSUME NEW m \in Replies PROVE Frames(Append(p, m), c) = Append(Frames(p, c), Frame(m, c))
  <2> DEFINE a == Append(p, m)
             f == Append(Frames(p, c), Frame(m, c))
  <2>1. Len(a) = Len(p) + 1 /\ a[Len(p) + 1] = m /\ \A k \in 1 .. Len(p) : a[k] = p[k]
    OBVIOUS
  <2>2. Frame(m, c) \in Filled(c)
    BY DEF Filled
  <2>3. f \in Seq(Filled(c)) /\ Len(f) = Len(p) + 1 /\ f[Len(p) + 1] = Frame(m, c)
        /\ \A k \in 1 .. Len(p) : f[k] = Frames(p, c)[k]
    BY <1>3, <2>2, AppendProperties
  <2>4. f = [k \in 1 .. Len(p) + 1 |-> f[k]]
    <3> HIDE DEF f
    <3>1. QED
      BY <2>3, SeqIsFunction
  <2>5. \A k \in 1 .. Len(p) + 1 : f[k] = Frame(a[k], c)
    BY <1>2, <1>3, <2>1, <2>3
  <2>6. Frames(a, c) = [k \in 1 .. Len(p) + 1 |-> Frame(a[k], c)]
    BY <2>1 DEF Frames
  <2> HIDE DEF a, f
  <2>7. Frames(a, c) = f
    BY <2>4, <2>5, <2>6
  <2>8. QED
    BY <2>7 DEF a, f
<1>5. Frames(p, c) = <<>> <=> p = <<>>
  BY <1>2, <1>3
<1>6. ASSUME p # <<>> PROVE Head(Frames(p, c)) = Frame(Head(p), c) /\ Frames(Tail(p), c) = Tail(Frames(p, c))
  <2>1. Head(p) = p[1] /\ 1 \in 1 .. Len(p)
        /\ Len(Tail(p)) = Len(p) - 1 /\ \A k \in 1 .. Len(p) - 1 : Tail(p)[k] = p[k + 1]
    BY <1>2, <1>6
  <2>2. Frames(p, c) # <<>>
    BY <1>5, <1>6
  <2> DEFINE f == Frames(p, c)
  <2>3. Head(f) = f[1] /\ Tail(f) \in Seq(Filled(c))
        /\ Len(Tail(f)) = Len(p) - 1 /\ \A k \in 1 .. Len(p) - 1 : Tail(f)[k] = f[k + 1]
    BY <1>3, <2>2, HeadTailProperties
  <2>4. Tail(f) = [k \in 1 .. Len(p) - 1 |-> Tail(f)[k]]
    <3> DEFINE q == Tail(f)
    <3> HIDE DEF q
    <3>1. q \in Seq(Filled(c)) /\ Len(q) = Len(p) - 1
      BY <2>3 DEF q
    <3>2. q = [k \in 1 .. Len(p) - 1 |-> q[k]]
      BY <3>1, SeqIsFunction
    <3>3. QED
      BY <3>2 DEF q
  <2>5. \A k \in 1 .. Len(p) - 1 : Tail(f)[k] = Frame(Tail(p)[k], c)
    <3>1. \A k \in 1 .. Len(p) - 1 : k + 1 \in 1 .. Len(p)
      BY <1>2
    <3>2. QED
      BY <1>3, <2>1, <2>3, <3>1
  <2>6. Frames(Tail(p), c) = [k \in 1 .. Len(p) - 1 |-> Frame(Tail(p)[k], c)]
    BY <2>1 DEF Frames
  <2>7. Frames(Tail(p), c) = Tail(f)
    <3> HIDE DEF f
    <3>1. QED
      BY <2>4, <2>5, <2>6
  <2>8. QED
    BY <1>3, <2>1, <2>3, <2>7
<1>7. QED
  BY <1>1, <1>3, <1>4, <1>5, <1>6

LEMMA NoFrames == ASSUME NEW c PROVE Frames(<<>>, c) = <<>>
  BY DEF Frames

\* The bytes begin with those of the oldest message.
LEMMA PendingFirst ==
  ASSUME NEW s \in Seq(Byte), NEW p \in Seq(Replies), p # <<>>, NEW c \in BOOLEAN,
         Spelt(s, Frames(p, c))
  PROVE  /\ Head(p) \in Replies
         /\ \A i \in 1 .. Len(Frame(Head(p), c)) : s[i] = Frame(Head(p), c)[i]
<1>1. Head(p) \in Replies
  OBVIOUS
<1>2. /\ Filled(c) \subseteq Seq(Byte) /\ Frames(p, c) \in Seq(Filled(c)) /\ Frames(p, c) # <<>>
      /\ Head(Frames(p, c)) = Frame(Head(p), c)
  BY FramesFacts
<1>3. \A i \in 1 .. Len(Head(Frames(p, c))) : s[i] = Head(Frames(p, c))[i]
  BY <1>2, SpeltFirst
<1>4. QED
  BY <1>1, <1>2, <1>3

LEMMA InitLinkInv == RxInit => LinkInv
<1> SUFFICES ASSUME RxInit PROVE LinkInv
  OBVIOUS
<1>1. ToRead = <<>> /\ pending = <<>>
  BY NothingDelivered DEF RxInit, ToRead
<1>2. QED
  BY <1>1, NothingSpelt, NoFrames DEF RxInit, LinkInv

LinkVars == <<pending, msg, Refused, intact>>
LinkStep == Link!Next \/ UNCHANGED LinkVars

LEMMA RefusedStays == icrnl' = icrnl => Refused' = Refused
  BY DEF Refused, WithReturn

LEMMA LinkBreaks ==
  ASSUME Break, rpc' = "read" => buf' = <<>>, icrnl' = icrnl
  PROVE  LinkInv' /\ LinkStep
<1>1. Refused' = Refused
  BY RefusedStays
<1>2. QED
  BY <1>1 DEF Break, LinkInv, LinkStep, Link!Next, Link!Broken

LEMMA BoardSendLink ==
  ASSUME RxInv, LinkInv, NEW m \in Replies, BoardSend(m)
  PROVE  LinkInv' /\ LinkStep
<1> USE DEF BoardSend
<1>1. CASE ~intact'
  BY <1>1, LinkBreaks DEF Break, LinkInv, link
<1>2. CASE intact'
  <2>1. pending' = Append(pending, m) /\ pending \in Seq(Replies) /\ icrnl \in BOOLEAN /\ icrnl' = icrnl
    BY <1>2 DEF RxInv, RxTypeOK
  <2>2. Spelt(ToRead, Frames(pending, icrnl))
    <3>1. CASE intact
      BY <3>1 DEF LinkInv
    <3>2. CASE ~intact
      <4>1. NothingUnderWay
        BY <1>2, <3>2
      <4>2. buf = <<>> /\ wire = <<>> /\ pending = <<>>
        BY <3>2, <4>1 DEF LinkInv, NothingUnderWay
      <4>3. ToRead = <<>>
        BY <4>2, NothingDelivered DEF ToRead
      <4>4. QED
        BY <4>2, <4>3, NothingSpelt, NoFrames
    <3>3. QED
      BY <3>1, <3>2
  <2>3. Spelt(ToRead', Frames(pending', icrnl))
    <3> DEFINE w == DeliveredAll(wire, icrnl)
               f == Frame(m, icrnl)
    <3>1. buf \in Seq(Byte) /\ wire \in Seq(Byte) /\ Fill(m) \in Seq(Byte) /\ f \in Seq(Byte)
      BY <2>1, ReplyFacts, FrameFacts DEF RxInv, RxTypeOK
    <3>2. w \in Seq(Byte) /\ buf \o w \in Seq(Byte) /\ ToRead = buf \o w
      BY <2>1, <3>1, DeliveredFacts DEF ToRead
    <3>3. ToRead' = buf \o (w \o f)
      <4>1. DeliveredAll(wire \o Fill(m), icrnl) = w \o f
        BY <2>1, <3>1, DeliveredConcat DEF Frame
      <4>2. QED
        BY <2>1, <4>1 DEF ToRead
    <3> HIDE DEF w, f
    <3>4. (buf \o w) \o f = buf \o (w \o f)
      BY <3>1, <3>2, ConcatIsAssociative
    <3>5. /\ Filled(icrnl) \subseteq Seq(Byte) /\ Frames(pending, icrnl) \in Seq(Filled(icrnl))
          /\ f \in Filled(icrnl)
          /\ Frames(pending', icrnl) = Append(Frames(pending, icrnl), f)
      BY <2>1, FramesFacts DEF Filled, f
    <3>6. Spelt((buf \o w) \o f, Append(Frames(pending, icrnl), f))
      BY <2>2, <3>2, <3>5, SpeltMore
    <3>7. QED
      BY <3>3, <3>4, <3>5, <3>6
  <2>4. rpc' \in {"bytes", "parse"} => pending' # <<>> /\ len' = Len(Fill(Head(pending')))
    <3>1. SUFFICES ASSUME rpc \in {"bytes", "parse"}
                   PROVE  pending' # <<>> /\ Head(pending') = Head(pending)
                          /\ len = Len(Fill(Head(pending)))
      OBVIOUS
    <3>2. intact /\ pending # <<>> /\ len = Len(Fill(Head(pending)))
      BY <1>2, <3>1 DEF LinkInv, NothingUnderWay
    <3>3. QED
      BY <2>1, <3>2, HeadTailAppend, AppendProperties
  <2>5. Link!Send
    BY <1>2, <2>1 DEF Link!Send
  <2>6. LinkInv'
    BY <1>2, <2>1, <2>3, <2>4 DEF LinkInv
  <2>7. LinkStep
    BY <2>1, <2>5, RefusedStays DEF LinkStep, Link!Next
  <2>8. QED
    BY <2>6, <2>7
<1>3. QED
  BY <1>1, <1>2

\* Reading a byte leaves as it is what is read and still to be read.
LEMMA ByteIsRead ==
  ASSUME RxInv, wire # <<>>, wire' = Tail(wire), icrnl' = icrnl,
         buf' = Append(buf, Delivered(Head(wire), icrnl))
  PROVE  ToRead' = ToRead
<1> DEFINE w == DeliveredAll(wire, icrnl)
<1>1. wire \in Seq(Byte) /\ buf \in Seq(Byte) /\ icrnl \in BOOLEAN
  BY DEF RxInv, RxTypeOK
<1>2. w \in Seq(Byte) /\ w # <<>> /\ Head(w) = Delivered(Head(wire), icrnl)
      /\ Tail(w) = DeliveredAll(Tail(wire), icrnl)
  BY <1>1, DeliveredFacts, DeliveredHeadTail
<1>3. ToRead = buf \o w /\ ToRead' = Append(buf, Head(w)) \o Tail(w)
  BY <1>2 DEF ToRead
<1> HIDE DEF w
<1>4. QED
  BY <1>1, <1>2, <1>3, ByteMoves

LEMMA RxFirstLink ==
  ASSUME RxInv, LinkInv, RxFirst
  PROVE  LinkInv' /\ LinkStep
<1> USE DEF RxFirst, link
<1>1. /\ wire \in Seq(Byte) /\ wire # <<>> /\ pending \in Seq(Replies) /\ buf = <<>>
      /\ icrnl \in BOOLEAN /\ icrnl' = icrnl
  BY DEF RxInv, RxTypeOK, LinkInv
<1>2. ToRead' = ToRead
  <2>1. buf' = Append(buf, Delivered(Head(wire), icrnl))
    BY <1>1
  <2>2. QED
    BY <1>1, <2>1, ByteIsRead
<1>3. ASSUME intact PROVE pending # <<>> /\ len' = Len(Fill(Head(pending)))
  <2> DEFINE w == DeliveredAll(wire, icrnl)
             h == Head(pending)
  <2>1. w \in Seq(Byte) /\ w # <<>> /\ Head(w) = type'
    BY <1>1, DeliveredFacts, DeliveredHeadTail
  <2>2. Spelt(w, Frames(pending, icrnl))
    <3>1. ToRead = <<>> \o w
      BY <1>1 DEF ToRead
    <3>2. <<>> \o w = w
      <4> HIDE DEF w
      <4>1. QED
        BY <2>1
    <3>3. QED
      BY <1>3, <3>1, <3>2 DEF LinkInv
  <2> HIDE DEF w
  <2>3. pending # <<>>
    BY <2>1, <2>2, OnlyNothingSpelt, NoFrames
  <2>4. h \in Replies /\ \A i \in 1 .. Len(Frame(h, icrnl)) : w[i] = Frame(h, icrnl)[i]
    BY <1>1, <2>1, <2>2, <2>3, PendingFirst
  <2>5. /\ Frame(h, icrnl)[1] = h.type /\ h.type \in KnownType
        /\ Len(Fill(h)) = MessageSize(h.type) /\ Len(Frame(h, icrnl)) = Len(Fill(h))
        /\ Len(Fill(h)) \in Nat /\ Len(Fill(h)) >= 2
    BY <1>1, <2>4, FrameFacts
  <2>6. type' = h.type
    BY <2>1, <2>4, <2>5
  <2>7. QED
    BY <2>3, <2>5, <2>6 DEF Begin
<1>4. rpc' # "read"
  BY DEF Begin
<1>5. LinkInv'
  BY <1>1, <1>2, <1>3, <1>4 DEF LinkInv
<1>6. LinkStep
  BY <1>1, RefusedStays DEF LinkStep, LinkVars
<1>7. QED
  BY <1>5, <1>6

LEMMA RxByteLink ==
  ASSUME RxInv, LinkInv, RxByte
  PROVE  LinkInv' /\ LinkStep
<1>1. rpc = "bytes" /\ rpc' \in {"bytes", "parse"} /\ UNCHANGED <<len, msg, icrnl>>
  BY DEF RxByte
<1>2. CASE Break
  BY <1>1, <1>2, LinkBreaks
<1>3. CASE ~Break
  <2>1. /\ wire # <<>> /\ type' = Delivered(Head(wire), icrnl) /\ wire' = Tail(wire)
        /\ getc'.ret = 1
        /\ UNCHANGED <<pending, intact>>
    <3>1. Getc
      BY DEF RxByte
    <3>2. QED
      BY <1>3, <3>1 DEF Getc, Fault, link
  <2>2. buf' = Append(buf, type')
    <3>1. getc'.ret % 256 > 0
      BY <2>1
    <3>2. QED
      BY <2>1, <3>1 DEF RxByte
  <2>3. ToRead' = ToRead
    BY <1>1, <2>1, <2>2, ByteIsRead
  <2>4. LinkInv'
    BY <1>1, <2>1, <2>3 DEF LinkInv
  <2>5. LinkStep
    BY <1>1, <2>1, RefusedStays DEF LinkStep, LinkVars
  <2>6. QED
    BY <2>4, <2>5
<1>4. QED
  BY <1>2, <1>3

\* What is parsed in a round on an intact link is the oldest message, as the
\* port delivered it.
LEMMA RxParseLink ==
  ASSUME RxInv, LinkInv, RxParse
  PROVE  LinkInv' /\ LinkStep
<1>1. /\ rpc = "parse" /\ rpc' = "read" /\ buf' = <<>> /\ UNCHANGED <<wire, len, icrnl, intact>>
      /\ msg' = Parsed(SubSeq(buf, 1, len), msg)
      /\ pending' = IF pending = <<>> THEN <<>> ELSE Tail(pending)
  BY DEF RxParse
<1>2. CASE ~intact
  <2>1. pending = <<>> /\ pending' = <<>> /\ intact' = FALSE
    BY <1>1, <1>2 DEF LinkInv, RxInv, RxTypeOK
  <2>2. QED
    BY <1>1, <2>1, LinkBreaks DEF Break
<1>3. CASE intact
  <2> DEFINE h == Head(pending)
             f == Frame(h, icrnl)
             w == DeliveredAll(wire, icrnl)
  <2>1. /\ buf \in Seq(Byte) /\ wire \in Seq(Byte) /\ pending \in Seq(Replies) /\ icrnl \in BOOLEAN
        /\ pending # <<>> /\ len = Len(Fill(h)) /\ Spelt(ToRead, Frames(pending, icrnl))
    BY <1>1, <1>3 DEF RxInv, RxTypeOK, LinkInv
  <2>2. w \in Seq(Byte) /\ buf \o w \in Seq(Byte) /\ ToRead = buf \o w
    BY <2>1, DeliveredFacts DEF ToRead
  <2>3. h \in Replies /\ \A i \in 1 .. Len(f) : ToRead[i] = f[i]
    BY <2>1, <2>2, PendingFirst
  <2>4. /\ f \in Seq(Byte) /\ Len(f) = Len(Fill(h)) /\ Len(Fill(h)) \in Nat /\ Len(Fill(h)) >= 2
        /\ \A old : Parsed(f, old) = IF icrnl /\ h \in WithReturn THEN old ELSE h
    BY <2>1, <2>3, FrameFacts
  <2> HIDE DEF h, f, w
  <2>5. Len(buf) = len
    BY <1>1, <2>1, <2>4 DEF RxInv, SizeInv
  <2>6. buf = f
    <3>1. \A i \in 1 .. Len(buf) : buf[i] = f[i]
      BY <2>1, <2>2, <2>3, <2>4, <2>5
    <3>2. QED
      BY <2>1, <2>4, <2>5, <3>1, SeqEqual
  <2>7. SubSeq(buf, 1, len) = buf
    BY <2>1, <2>5
  <2>8. msg' = IF h \in Refused THEN msg ELSE h
    <3>1. h \in Refused <=> icrnl /\ h \in WithReturn
      BY DEF Refused
    <3>2. QED
      BY <1>1, <2>4, <2>6, <2>7, <3>1
  <2>9. Spelt(w, Frames(Tail(pending), icrnl))
    <3>1. /\ Filled(icrnl) \subseteq Seq(Byte) /\ Frames(pending, icrnl) \in Seq(Filled(icrnl))
          /\ Frames(pending, icrnl) # <<>> /\ Len(buf) = Len(Head(Frames(pending, icrnl)))
          /\ Frames(Tail(pending), icrnl) = Tail(Frames(pending, icrnl))
      BY <2>1, <2>6, FramesFacts DEF h, f
    <3>2. QED
      BY <2>1, <2>2, <3>1, SpeltRest
  <2>10. ToRead' = w
    <3>1. ToRead' = <<>> \o w
      BY <1>1 DEF ToRead, w
    <3>2. QED
      BY <2>2, <3>1
  <2>11. LinkInv'
    BY <1>1, <1>3, <2>1, <2>9, <2>10 DEF LinkInv
  <2>12. Link!Handle
    BY <1>1, <1>3, <2>1, <2>8 DEF Link!Handle, h
  <2>13. LinkStep
    BY <1>1, <2>12, RefusedStays DEF LinkStep, Link!Next
  <2>14. QED
    BY <2>11, <2>13
<1>4. QED
  BY <1>2, <1>3

LEMMA NextLink == RxInv /\ LinkInv /\ [RxNext]_rvars => LinkInv' /\ LinkStep
<1> SUFFICES ASSUME RxInv, LinkInv, [RxNext]_rvars PROVE LinkInv' /\ LinkStep
  OBVIOUS
<1>1. CASE UNCHANGED rvars
  <2>1. ToRead' = ToRead /\ UNCHANGED <<icrnl, buf, rpc, len, msg, pending, intact>>
    BY <1>1 DEF rvars, link, ToRead
  <2>2. QED
    BY <2>1, RefusedStays DEF LinkInv, LinkStep, LinkVars
<1>2. ASSUME NEW m \in Replies, BoardSend(m) PROVE LinkInv' /\ LinkStep
  BY <1>2, BoardSendLink
<1>3. CASE Lose
  BY <1>3, LinkBreaks DEF Lose, Fault, LinkInv
<1>4. CASE RxFirst
  BY <1>4, RxFirstLink
<1>5. CASE RxFirstError
  <2>1. rpc' # "read"
    BY <1>5 DEF RxFirstError, Begin
  <2>2. QED
    BY <1>5, <2>1, LinkBreaks DEF RxFirstError, Fault
<1>6. CASE RxByte
  BY <1>6, RxByteLink
<1>7. CASE RxParse
  BY <1>7, RxParseLink
<1>8. QED
  BY <1>1, <1>2, <1>3, <1>4, <1>5, <1>6, <1>7 DEF RxNext, RxStep

\* Whatever messages the board sends and whatever befalls the line, main_thread
\* takes the messages of an intact link one by one and in order; and after a fault
\* again, from the first that is sent on a quiet line.  Each is handled as it was
\* sent, but for one that holds a carriage return and comes through a port with
\* ICRNL: of these every single one is refused, the message before it is handled
\* again, and those after it are not disturbed.
THEOREM EveryMessageArrives == RxSpec => MessagesArrive
<1>1. RxInit => Link!Init
  BY DEF RxInit, Link!Init, Refused, WithReturn
<1>2. LinkStep => [Link!Next]_LinkVars
  BY DEF LinkStep
<1>3. QED
  BY <1>1, <1>2, InitRxInv, NextRxInv, InitLinkInv, NextLink, PTL
     DEF RxSpec, MessagesArrive, Link!Spec, LinkVars
=============================================================================
