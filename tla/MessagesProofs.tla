--------------------------- MODULE MessagesProofs ---------------------------
(***************************************************************************)
(* The codec of messages.c: what fill_message_buf makes of a message, and  *)
(* that parse_message_buf takes that, and nothing else, for the message;   *)
(* and the stream of bytes in which messages follow each other.            *)
(***************************************************************************)
EXTENDS Messages, SequenceTheorems, WellFoundedInduction, TLAPS

-----------------------------------------------------------------------------
(* The sum of a buffer, as a function of how much of it is summed.  What a *)
(* recursive function computes is proved by looking at the least place     *)
(* where it would compute something else.                                  *)

LEMMA LeastNat ==
  ASSUME NEW T, T \subseteq Nat, T # {}
  PROVE  \E x \in T : \A y \in T : x <= y
<1> DEFINE R == {ss \in Nat \X Nat : ss[1] < ss[2]}
<1>1. IsWellFoundedOn(R, Nat)
  BY NatLessThanWellFounded DEF OpToRel
<1> HIDE DEF R
<1>2. PICK x \in T : \A y \in T : ~(<<y, x>> \in R)
  BY <1>1, WFMin
<1>3. \A y \in T : ~(y < x)
  BY <1>2 DEF R
<1>4. QED
  BY <1>3

Sums(bs) == LET s[i \in 0 .. Len(bs)] == IF i = 0 THEN 0 ELSE (s[i - 1] + bs[i]) % 256
             IN  s

LEMMA SumIsLast == ASSUME NEW bs PROVE Sum(bs) = Sums(bs)[Len(bs)]
  BY DEF Sum, Sums

\* There is such a function: the least n up to which there is none cannot be.
LEMMA SumsExist ==
  ASSUME NEW bs \in Seq(Byte)
  PROVE  \E s : s = [i \in 0 .. Len(bs) |-> IF i = 0 THEN 0 ELSE (s[i - 1] + bs[i]) % 256]
<1> DEFINE Good(n) == \E s : s = [i \in 0 .. n |-> IF i = 0 THEN 0 ELSE (s[i - 1] + bs[i]) % 256]
           T == {n \in Nat : ~Good(n)}
<1>1. T = {}
  <2>1. SUFFICES ASSUME T # {} PROVE FALSE
    OBVIOUS
  <2>2. PICK n \in T : \A y \in T : n <= y
    BY <2>1, LeastNat
  <2>3. n \in Nat /\ ~Good(n)
    OBVIOUS
  <2>4. n # 0
    <3>1. Good(0)
      <4> DEFINE z == [i \in 0 .. 0 |-> 0]
      <4>1. z = [i \in 0 .. 0 |-> IF i = 0 THEN 0 ELSE (z[i - 1] + bs[i]) % 256]
        OBVIOUS
      <4>2. QED
        BY <4>1
    <3>2. QED
      BY <2>3, <3>1
  <2>5. n - 1 \in Nat /\ ~(n <= n - 1)
    BY <2>3, <2>4
  <2>6. Good(n - 1)
    <3> HIDE DEF Good
    <3>1. n - 1 \notin T
      <4> HIDE DEF T
      <4> QED
        BY <2>2, <2>5
    <3>2. QED
      BY <2>5, <3>1
  <2>7. PICK s : s = [i \in 0 .. n - 1 |-> IF i = 0 THEN 0 ELSE (s[i - 1] + bs[i]) % 256]
    BY <2>6
  <2> DEFINE t == [i \in 0 .. n |-> IF i = n THEN (s[n - 1] + bs[n]) % 256 ELSE s[i]]
  <2>8. \A i \in 0 .. n : t[i] = IF i = 0 THEN 0 ELSE (t[i - 1] + bs[i]) % 256
    <3>1. ASSUME NEW i \in 0 .. n PROVE t[i] = IF i = 0 THEN 0 ELSE (t[i - 1] + bs[i]) % 256
      <4>1. CASE i = n
        <5>1. t[i] = (s[n - 1] + bs[n]) % 256 /\ n - 1 \in 0 .. n /\ n - 1 # n
          BY <2>3, <2>4, <4>1
        <5>2. t[n - 1] = s[n - 1]
          BY <5>1
        <5>3. QED
          BY <2>4, <4>1, <5>1, <5>2
      <4>2. CASE i # n
        <5>1. i \in 0 .. n - 1 /\ t[i] = s[i] /\ (i # 0 => i - 1 \in 0 .. n /\ i - 1 # n)
          BY <2>3, <4>2
        <5>2. i # 0 => t[i - 1] = s[i - 1]
          BY <5>1
        <5>3. s[i] = IF i = 0 THEN 0 ELSE (s[i - 1] + bs[i]) % 256
          BY <2>7, <5>1
        <5>4. QED
          BY <5>1, <5>2, <5>3
      <4>3. QED
        BY <4>1, <4>2
    <3>2. QED
      BY <3>1
  <2>9. t = [i \in 0 .. n |-> IF i = 0 THEN 0 ELSE (t[i - 1] + bs[i]) % 256]
    BY <2>8
  <2>10. Good(n)
    BY <2>9
  <2>11. QED
    BY <2>3, <2>10
<1>2. Len(bs) \in Nat
  OBVIOUS
<1>3. Good(Len(bs))
  BY <1>1, <1>2
<1>4. QED
  BY <1>3

LEMMA SumsSteps ==
  ASSUME NEW bs \in Seq(Byte)
  PROVE  /\ Sums(bs)[0] = 0
         /\ \A i \in 1 .. Len(bs) : Sums(bs)[i] = (Sums(bs)[i - 1] + bs[i]) % 256
<1>1. Sums(bs) = [i \in 0 .. Len(bs) |-> IF i = 0 THEN 0 ELSE (Sums(bs)[i - 1] + bs[i]) % 256]
  BY SumsExist DEF Sums
<1>2. Len(bs) \in Nat
  OBVIOUS
<1>3. QED
  BY <1>1, <1>2

LEMMA SumWraps ==
  ASSUME NEW x \in Byte, NEW y \in Byte
  PROVE  /\ (x + y) % 256 = IF x + y < 256 THEN x + y ELSE x + y - 256
         /\ (x + y) % 256 \in Byte
         /\ \A z \in Byte : (x + z) % 256 = (x + y) % 256 => z = y
         /\ \A z \in Byte : (z + y) % 256 = (x + y) % 256 => z = x
<1>1. \A u, v \in Byte : (u + v) % 256 = IF u + v < 256 THEN u + v ELSE u + v - 256
  BY DEF Byte
<1>2. (x + y) % 256 \in Byte
  BY <1>1 DEF Byte
<1>3. \A z \in Byte : (x + z) % 256 = (x + y) % 256 => z = y
  BY <1>1 DEF Byte
<1>4. ASSUME NEW z \in Byte, (z + y) % 256 = (x + y) % 256 PROVE z = x
  <2>1. /\ (z + y) % 256 = IF z + y < 256 THEN z + y ELSE z + y - 256
        /\ (x + y) % 256 = IF x + y < 256 THEN x + y ELSE x + y - 256
    BY <1>1
  <2>2. QED
    BY <1>4, <2>1 DEF Byte
<1>5. QED
  BY <1>1, <1>2, <1>3, <1>4

LEMMA SumsAreBytes ==
  ASSUME NEW bs \in Seq(Byte)
  PROVE  \A i \in 0 .. Len(bs) : Sums(bs)[i] \in Byte
<1> DEFINE T == {i \in 0 .. Len(bs) : Sums(bs)[i] \notin Byte}
<1>1. T = {}
  <2>1. SUFFICES ASSUME T # {} PROVE FALSE
    OBVIOUS
  <2>2. PICK n \in T : \A y \in T : n <= y
    <3>1. T \subseteq Nat
      OBVIOUS
    <3>2. QED
      BY <2>1, <3>1, LeastNat
  <2>3. n \in 0 .. Len(bs) /\ Sums(bs)[n] \notin Byte /\ Len(bs) \in Nat
    OBVIOUS
  <2>4. n # 0
    <3>1. Sums(bs)[0] = 0 /\ 0 \in Byte
      BY SumsSteps DEF Byte
    <3>2. QED
      BY <2>3, <3>1
  <2>5. n - 1 \in 0 .. Len(bs) /\ n \in 1 .. Len(bs) /\ ~(n <= n - 1)
    BY <2>3, <2>4
  <2>6. Sums(bs)[n - 1] \in Byte
    BY <2>2, <2>5
  <2>7. bs[n] \in Byte /\ Sums(bs)[n] = (Sums(bs)[n - 1] + bs[n]) % 256
    BY <2>5, SumsSteps
  <2>8. QED
    BY <2>3, <2>6, <2>7, SumWraps
<1>2. QED
  BY <1>1

\* Buffers that begin alike have the same sums that far.
LEMMA SumsOfPrefix ==
  ASSUME NEW a \in Seq(Byte), NEW b \in Seq(Byte), NEW m \in Nat, m <= Len(a), m <= Len(b),
         \A i \in 1 .. m : a[i] = b[i]
  PROVE  \A i \in 0 .. m : Sums(a)[i] = Sums(b)[i]
<1> DEFINE T == {i \in 0 .. m : Sums(a)[i] # Sums(b)[i]}
<1>1. T = {}
  <2>1. SUFFICES ASSUME T # {} PROVE FALSE
    OBVIOUS
  <2>2. PICK n \in T : \A y \in T : n <= y
    <3>1. T \subseteq Nat
      OBVIOUS
    <3>2. QED
      BY <2>1, <3>1, LeastNat
  <2>3. n \in 0 .. m /\ Sums(a)[n] # Sums(b)[n] /\ Len(a) \in Nat /\ Len(b) \in Nat
    OBVIOUS
  <2>4. n # 0
    BY <2>3, SumsSteps
  <2>5. n - 1 \in 0 .. m /\ n \in 1 .. m /\ n \in 1 .. Len(a) /\ n \in 1 .. Len(b) /\ ~(n <= n - 1)
    BY <2>3, <2>4
  <2>6. Sums(a)[n - 1] = Sums(b)[n - 1]
    BY <2>2, <2>5
  <2>7. /\ Sums(a)[n] = (Sums(a)[n - 1] + a[n]) % 256
        /\ Sums(b)[n] = (Sums(b)[n - 1] + b[n]) % 256
    BY <2>5, SumsSteps
  <2>8. QED
    BY <2>3, <2>5, <2>6, <2>7
<1>2. QED
  BY <1>1

LEMMA SumIsByte == ASSUME NEW bs \in Seq(Byte) PROVE Sum(bs) \in Byte
<1>1. Len(bs) \in 0 .. Len(bs)
  OBVIOUS
<1>2. QED
  BY <1>1, SumIsLast, SumsAreBytes

LEMMA SumOfAppend ==
  ASSUME NEW bs \in Seq(Byte), NEW b \in Byte
  PROVE  Sum(Append(bs, b)) = (Sum(bs) + b) % 256
<1> DEFINE c == Append(bs, b)
           n == Len(bs)
<1>1. /\ c \in Seq(Byte) /\ n \in Nat /\ Len(c) = n + 1 /\ c[n + 1] = b
      /\ \A i \in 1 .. n : c[i] = bs[i]
  OBVIOUS
<1> HIDE DEF c, n
<1>2. Sums(c)[n] = Sums(bs)[n]
  <2>1. n <= Len(bs) /\ n <= Len(c) /\ n \in 0 .. n
    BY <1>1 DEF n
  <2>2. QED
    BY <1>1, <2>1, SumsOfPrefix
<1>3. Sums(c)[n + 1] = (Sums(c)[n] + b) % 256
  <2>1. n + 1 \in 1 .. Len(c) /\ (n + 1) - 1 = n
    BY <1>1
  <2>2. Sums(c)[n + 1] = (Sums(c)[(n + 1) - 1] + c[n + 1]) % 256
    BY <1>1, <2>1, SumsSteps
  <2>3. QED
    BY <1>1, <2>1, <2>2
<1>4. QED
  BY <1>1, <1>2, <1>3, SumIsLast DEF c, n

\* A sum is the last one of its kind: a single byte decides it.
LEMMA OneByteMatters ==
  ASSUME NEW a \in Seq(Byte), NEW b \in Seq(Byte), Len(a) = Len(b),
         NEW d \in 1 .. Len(a), a[d] # b[d], \A i \in 1 .. Len(a) : i # d => a[i] = b[i]
  PROVE  Sum(a) # Sum(b)
<1> DEFINE T == {i \in d .. Len(a) : Sums(a)[i] = Sums(b)[i]}
<1>0. Len(a) \in Nat /\ d \in Nat
  OBVIOUS
<1>1. T = {}
  <2>1. SUFFICES ASSUME T # {} PROVE FALSE
    OBVIOUS
  <2>2. T \subseteq Nat
    BY <1>0
  <2>3. PICK n \in T : \A y \in T : n <= y
    BY <2>1, <2>2, LeastNat
  <2>4. n \in d .. Len(a) /\ Sums(a)[n] = Sums(b)[n]
    OBVIOUS
  <2>5. n \in 1 .. Len(a) /\ n \in 1 .. Len(b) /\ n - 1 \in 0 .. Len(a) /\ n - 1 \in 0 .. Len(b) /\ ~(n <= n - 1)
    BY <1>0, <2>4
  <2>6. /\ Sums(a)[n] = (Sums(a)[n - 1] + a[n]) % 256 /\ Sums(a)[n - 1] \in Byte
        /\ Sums(b)[n] = (Sums(b)[n - 1] + b[n]) % 256 /\ Sums(b)[n - 1] \in Byte
        /\ a[n] \in Byte /\ b[n] \in Byte
    BY <2>5, SumsSteps, SumsAreBytes
  <2>7. CASE n = d
    <3>1. Sums(a)[n - 1] = Sums(b)[n - 1]
      <4>1. d - 1 \in Nat /\ d - 1 <= Len(a) /\ d - 1 <= Len(b) /\ d - 1 \in 0 .. d - 1
        BY <1>0
      <4>2. \A i \in 1 .. d - 1 : a[i] = b[i]
        BY <1>0
      <4>3. QED
        BY <2>7, <4>1, <4>2, SumsOfPrefix
    <3>2. QED
      BY <2>4, <2>6, <2>7, <3>1, SumWraps
  <2>8. CASE n # d
    <3>1. n - 1 \in d .. Len(a)
      BY <1>0, <2>4, <2>8
    <3>2. Sums(a)[n - 1] # Sums(b)[n - 1]
      BY <2>3, <2>5, <3>1
    <3>3. a[n] = b[n]
      BY <2>5, <2>8
    <3>4. QED
      BY <2>4, <2>6, <3>2, <3>3, SumWraps
  <2>9. QED
    BY <2>7, <2>8
<1>2. Len(a) \in d .. Len(a)
  BY <1>0
<1>3. Sums(a)[Len(a)] # Sums(b)[Len(a)]
  BY <1>1, <1>2
<1>4. QED
  BY <1>3, SumIsLast

-----------------------------------------------------------------------------
(* Filling and parsing.                                                    *)

Filling == [type : KnownType, payload : Seq(Byte)]
Body(m) == <<m.type>> \o m.payload

LEMMA FillFacts ==
  ASSUME NEW m \in Filling
  PROVE  /\ Fill(m) \in Seq(Byte) /\ Len(Fill(m)) = Len(m.payload) + 2
         /\ Fill(m)[1] = m.type /\ SubSeq(Fill(m), 2, Len(Fill(m)) - 1) = m.payload
         /\ Sum(Fill(m)) = 255
<1> DEFINE body == Body(m)
           b == 255 - Sum(body)
<1>1. m.type \in Byte /\ m.payload \in Seq(Byte) /\ <<m.type>> \in Seq(Byte) /\ Len(m.payload) \in Nat
  BY DEF Filling, KnownType, Byte, MSG_NBR
<1>2. body \in Seq(Byte) /\ Len(body) = 1 + Len(m.payload)
  BY <1>1, ConcatProperties DEF Body
<1>3. body[1] = m.type /\ \A i \in 1 .. Len(m.payload) : body[i + 1] = m.payload[i]
  BY <1>1, ConcatProperties DEF Body
<1>4. b \in Byte /\ Sum(body) \in Byte /\ Sum(body) + b = 255 /\ 255 % 256 = 255
  <2>1. Sum(body) \in Byte
    BY <1>2, SumIsByte
  <2>2. \A t \in Byte : 255 - t \in Byte /\ t + (255 - t) = 255
    BY DEF Byte
  <2>3. QED
    BY <2>1, <2>2
<1>5. Fill(m) = Append(body, b)
  BY DEF Fill, Body
<1> HIDE DEF body, b
<1>6. Fill(m) \in Seq(Byte) /\ Len(Fill(m)) = Len(m.payload) + 2
  BY <1>1, <1>2, <1>4, <1>5
<1>7. \A i \in 1 .. Len(m.payload) + 1 : Fill(m)[i] = body[i]
  BY <1>1, <1>2, <1>4, <1>5
<1>8. Fill(m)[1] = m.type
  BY <1>1, <1>3, <1>7
<1>9. Sum(Fill(m)) = 255
  BY <1>2, <1>4, <1>5, SumOfAppend
<1>10. SubSeq(Fill(m), 2, Len(Fill(m)) - 1) = m.payload
  <2> DEFINE t == SubSeq(Fill(m), 2, Len(Fill(m)) - 1)
  <2>1. t = [i \in 1 .. Len(m.payload) |-> Fill(m)[i + 1]]
    <3>1. 1 .. (Len(Fill(m)) - 1 - 2 + 1) = 1 .. Len(m.payload)
      BY <1>1, <1>6
    <3>2. t = [i \in 1 .. (Len(Fill(m)) - 1 - 2 + 1) |-> Fill(m)[2 + i - 1]]
      BY <1>1, <1>6
    <3>3. \A i \in 1 .. Len(m.payload) : 2 + i - 1 = i + 1
      BY <1>1
    <3>4. QED
      BY <3>1, <3>2, <3>3
  <2>2. \A i \in 1 .. Len(m.payload) : Fill(m)[i + 1] = m.payload[i]
    BY <1>1, <1>3, <1>7
  <2>3. m.payload = [i \in 1 .. Len(m.payload) |-> m.payload[i]]
    BY <1>1
  <2>4. QED
    BY <2>1, <2>2, <2>3
<1>11. QED
  BY <1>6, <1>8, <1>9, <1>10

\* parse_message_buf accepts what fill_message_buf makes, and makes the same
\* message of it.
LEMMA FilledIsAccepted ==
  ASSUME NEW m \in Filling, Len(m.payload) = PayloadSize(m.type), NEW old
  PROVE  Accepts(Fill(m)) /\ Parsed(Fill(m), old) = m /\ Len(Fill(m)) = MessageSize(m.type)
<1>1. m.type \in KnownType /\ m = [type |-> m.type, payload |-> m.payload] /\ Len(m.payload) \in Nat
  BY DEF Filling
<1>2. Fill(m) # <<>> /\ Fill(m)[1] < MSG_NBR /\ Len(Fill(m)) = MessageSize(Fill(m)[1])
  BY <1>1, FillFacts DEF MessageSize, KnownType, MSG_NBR
<1>3. Accepts(Fill(m))
  BY <1>2, FillFacts DEF Accepts
<1>4. QED
  BY <1>1, <1>2, <1>3, FillFacts DEF Parsed

\* It accepts nothing else.
LEMMA AcceptedIsFilled ==
  ASSUME NEW bs \in Seq(Byte), Accepts(bs)
  PROVE  bs = Fill([type |-> bs[1], payload |-> SubSeq(bs, 2, Len(bs) - 1)])
<1> DEFINE p == SubSeq(bs, 2, Len(bs) - 1)
           m == [type |-> bs[1], payload |-> p]
           n == Len(bs) - 1
           body == SubSeq(bs, 1, n)
<1>1. /\ bs[1] \in KnownType /\ Len(bs) \in Nat /\ Len(bs) >= 2 /\ Sum(bs) = 255
      /\ bs[Len(bs)] \in Byte
  <2>1. bs # <<>> /\ Len(bs) = MessageSize(bs[1]) /\ bs[1] < MSG_NBR /\ Sum(bs) = 255
    BY DEF Accepts
  <2>2. Len(bs) \in Nat /\ Len(bs) >= 1 /\ bs[1] \in Byte /\ bs[Len(bs)] \in Byte
    BY <2>1
  <2>3. bs[1] \in KnownType
    <3>1. \A t \in Byte : t < MSG_NBR => t \in KnownType
      BY DEF KnownType, MSG_NBR, Byte
    <3>2. QED
      BY <2>1, <2>2, <3>1
  <2>4. MessageSize(bs[1]) >= 2
    BY DEF MessageSize, PayloadSize, STARTUP_MSG_LEN, DoubleSize
  <2>5. QED
    BY <2>1, <2>2, <2>3, <2>4
<1>2. /\ p \in Seq(Byte) /\ Len(p) = Len(bs) - 2
      /\ \A i \in 1 .. Len(bs) - 2 : p[i] = bs[i + 1]
  <2>1. \A i \in 2 .. Len(bs) - 1 : bs[i] \in Byte
    BY <1>1
  <2>2. /\ SubSeq(bs, 2, n) \in Seq(Byte)
        /\ Len(SubSeq(bs, 2, n)) = IF 2 <= n THEN n - 2 + 1 ELSE 0
        /\ \A i \in 1 .. n - 2 + 1 : SubSeq(bs, 2, n)[i] = bs[2 + i - 1]
    <3>1. 2 \in Int /\ n \in Int
      BY <1>1
    <3> HIDE DEF n
    <3>2. QED
      BY <2>1, <3>1, SubSeqProperties DEF n
  <2>3. n - 2 + 1 = Len(bs) - 2 /\ \A i \in 1 .. Len(bs) - 2 : 2 + i - 1 = i + 1
    BY <1>1
  <2>4. QED
    BY <1>1, <2>2, <2>3
<1>3. m \in Filling
  BY <1>1, <1>2 DEF Filling
<1>4. /\ body \in Seq(Byte) /\ Len(body) = n
      /\ \A i \in 1 .. n : body[i] = bs[i]
  <2>1. \A i \in 1 .. n : bs[i] \in Byte
    BY <1>1
  <2>2. QED
    BY <1>1, <2>1, SubSeqProperties
<1> HIDE DEF p, body
<1>5. Body(m) = body
  <2>1. <<bs[1]>> \in Seq(Byte)
    BY <1>1
  <2>2. Body(m) \in Seq(Byte) /\ Len(Body(m)) = n /\ Body(m)[1] = bs[1]
        /\ \A i \in 1 .. Len(bs) - 2 : Body(m)[i + 1] = bs[i + 1]
    BY <1>1, <1>2, <2>1, ConcatProperties DEF Body
  <2>3. \A i \in 1 .. n : Body(m)[i] = body[i]
    <3>1. ASSUME NEW i \in 1 .. n PROVE Body(m)[i] = body[i]
      <4>1. CASE i = 1
        BY <1>4, <2>2, <4>1
      <4>2. CASE i # 1
        <5>1. i - 1 \in 1 .. Len(bs) - 2 /\ (i - 1) + 1 = i
          BY <1>1, <4>2
        <5>2. QED
          BY <1>4, <2>2, <5>1
      <4>3. QED
        BY <4>1, <4>2
    <3>2. QED
      BY <3>1
  <2>4. QED
    BY <1>4, <2>2, <2>3, SeqEqual
<1>6. bs = Append(body, bs[Len(bs)])
  <2> DEFINE c == Append(body, bs[Len(bs)])
  <2>1. c \in Seq(Byte) /\ Len(c) = Len(bs) /\ \A i \in 1 .. Len(bs) : c[i] = bs[i]
    BY <1>1, <1>4
  <2>2. QED
    BY <2>1, SeqEqual
<1>7. bs[Len(bs)] = 255 - Sum(body)
  <2>1. (Sum(body) + bs[Len(bs)]) % 256 = 255 /\ Sum(body) \in Byte
    <3>1. Sum(Append(body, bs[Len(bs)])) = (Sum(body) + bs[Len(bs)]) % 256
      BY <1>1, <1>4, SumOfAppend
    <3>2. Sum(Append(body, bs[Len(bs)])) = 255
      BY <1>1, <1>6
    <3>3. QED
      BY <1>4, <3>1, <3>2, SumIsByte
  <2>2. QED
    <3>1. \A x, y \in Byte : (x + y) % 256 = 255 => y = 255 - x
      <4>1. \A x, y \in Byte : (x + y) % 256 = IF x + y < 256 THEN x + y ELSE x + y - 256
        BY SumWraps
      <4>2. ASSUME NEW x \in Byte, NEW y \in Byte, (x + y) % 256 = 255 PROVE y = 255 - x
        <5>1. 255 = IF x + y < 256 THEN x + y ELSE x + y - 256
          BY <4>1, <4>2
        <5>2. QED
          BY <5>1 DEF Byte
      <4>3. QED
        BY <4>2
    <3>2. QED
      BY <1>1, <2>1, <3>1
<1>8. QED
  <2>1. Fill(m) = Append(Body(m), 255 - Sum(Body(m)))
    BY DEF Fill, Body
  <2>2. QED
    BY <1>5, <1>6, <1>7, <2>1 DEF p

-----------------------------------------------------------------------------
(* A stream of bytes in which frames follow each other.                    *)

\* The bytes s are those of the frames p: off says where each begins.
Spells(s, p, off) ==
  /\ off \in [1 .. Len(p) + 1 -> Nat]
  /\ off[1] = 1 /\ off[Len(p) + 1] = Len(s) + 1
  /\ \A j, k \in 1 .. Len(p) + 1 : j <= k => off[j] <= off[k]
  /\ \A k \in 1 .. Len(p) : /\ off[k + 1] = off[k] + Len(p[k])
                            /\ \A i \in 1 .. Len(p[k]) : s[off[k] + i - 1] = p[k][i]

Spelt(s, p) == \E off : Spells(s, p, off)

LEMMA NothingSpelt == Spelt(<<>>, <<>>)
<1> DEFINE off == [k \in 1 .. 1 |-> 1]
<1>1. Spells(<<>>, <<>>, off)
  BY DEF Spells
<1>2. QED
  BY <1>1 DEF Spelt

LEMMA OnlyNothingSpelt ==
  ASSUME NEW s \in Seq(Byte), Spelt(s, <<>>)
  PROVE  s = <<>>
<1>1. PICK off : Spells(s, <<>>, off)
  BY DEF Spelt
<1>2. Len(s) = 0
  BY <1>1 DEF Spells
<1>3. QED
  BY <1>2

LEMMA SpeltMore ==
  ASSUME NEW F, F \subseteq Seq(Byte), NEW s \in Seq(Byte), NEW p \in Seq(F), NEW f \in F,
         Spelt(s, p)
  PROVE  Spelt(s \o f, Append(p, f))
<1>1. PICK off : Spells(s, p, off)
  BY DEF Spelt
<1> DEFINE n == Len(p)
           t == s \o f
           q == Append(p, f)
           on == [k \in 1 .. n + 2 |-> IF k = n + 2 THEN Len(s) + Len(f) + 1 ELSE off[k]]
<1>2. n \in Nat /\ f \in Seq(Byte) /\ Len(f) \in Nat /\ Len(s) \in Nat
  OBVIOUS
<1>3. /\ Len(t) = Len(s) + Len(f)
      /\ \A i \in 1 .. Len(s) : t[i] = s[i]
      /\ \A i \in 1 .. Len(f) : t[Len(s) + i] = f[i]
  BY <1>2
<1>4. Len(q) = n + 1 /\ q[n + 1] = f /\ \A k \in 1 .. n : q[k] = p[k]
  OBVIOUS
<1>5. /\ off \in [1 .. n + 1 -> Nat] /\ off[1] = 1 /\ off[n + 1] = Len(s) + 1
      /\ \A j, k \in 1 .. n + 1 : j <= k => off[j] <= off[k]
      /\ \A k \in 1 .. n : off[k + 1] = off[k] + Len(p[k])
      /\ \A k \in 1 .. n : \A i \in 1 .. Len(p[k]) : s[off[k] + i - 1] = p[k][i]
  BY <1>1 DEF Spells
<1>6. /\ \A k \in 1 .. n + 1 : k # n + 2 /\ on[k] = off[k]
      /\ on[n + 2] = Len(s) + Len(f) + 1
  BY <1>2
<1>7. \A k \in 1 .. n : p[k] \in F
  OBVIOUS
<1> HIDE DEF n, t, q
<1>8. on \in [1 .. n + 2 -> Nat]
  BY <1>2, <1>5
<1> HIDE DEF on
<1>9. \A j, k \in 1 .. n + 2 : j <= k => on[j] <= on[k]
  <2>1. ASSUME NEW j \in 1 .. n + 2, NEW k \in 1 .. n + 2, j <= k PROVE on[j] <= on[k]
    <3>1. CASE k # n + 2
      <4>1. j \in 1 .. n + 1 /\ k \in 1 .. n + 1
        BY <1>2, <2>1, <3>1
      <4>2. QED
        BY <1>5, <1>6, <2>1, <4>1
    <3>2. CASE k = n + 2 /\ j # n + 2
      <4>1. j \in 1 .. n + 1 /\ n + 1 \in 1 .. n + 1 /\ j <= n + 1
        BY <1>2, <3>2
      <4>2. off[j] <= off[n + 1] /\ off[j] \in Nat
        BY <1>5, <4>1
      <4>3. QED
        BY <1>2, <1>5, <1>6, <3>2, <4>1, <4>2
    <3>3. CASE k = n + 2 /\ j = n + 2
      BY <1>2, <1>6, <3>3
    <3>4. QED
      BY <3>1, <3>2, <3>3
  <2>2. QED
    BY <2>1
<1>10. ASSUME NEW k \in 1 .. n + 1
       PROVE  /\ on[k + 1] = on[k] + Len(q[k])
              /\ \A i \in 1 .. Len(q[k]) : t[on[k] + i - 1] = q[k][i]
  <2>1. CASE k = n + 1
    <3>1. q[k] = f /\ on[k] = Len(s) + 1 /\ on[k + 1] = Len(s) + Len(f) + 1 
      BY <1>2, <1>4, <1>5, <1>6, <2>1
    <3>2. \A i \in 1 .. Len(f) : on[k] + i - 1 = Len(s) + i
      BY <1>2, <3>1
    <3>3. ASSUME NEW i \in 1 .. Len(f) PROVE t[on[k] + i - 1] = f[i]
      BY <1>3, <3>2
    <3>4. on[k + 1] = on[k] + Len(f)
      BY <1>2, <3>1
    <3>5. QED
      BY <3>1, <3>3, <3>4
  <2>2. CASE k # n + 1
    <3>1. k \in 1 .. n /\ k \in 1 .. n + 1 /\ k + 1 \in 1 .. n + 1
      BY <1>2, <2>2
    <3>2. /\ on[k] = off[k] /\ on[k + 1] = off[k + 1] /\ q[k] = p[k]
          /\ off[k] \in Nat /\ off[k] >= 1 /\ off[k + 1] <= Len(s) + 1
      <4>1. 1 \in 1 .. n + 1 /\ n + 1 \in 1 .. n + 1 /\ 1 <= k /\ k + 1 <= n + 1
        BY <1>2, <3>1
      <4>2. off[1] <= off[k] /\ off[k + 1] <= off[n + 1]
        BY <1>5, <3>1, <4>1
      <4>3. QED
        BY <1>4, <1>5, <1>6, <3>1, <4>2
    <3>3. Len(p[k]) \in Nat
      <4>1. p[k] \in Seq(Byte)
        BY <1>7, <3>1
      <4>2. QED
        BY <4>1
    <3>4. off[k + 1] = off[k] + Len(p[k])
      BY <1>5, <3>1
    <3>5. ASSUME NEW i \in 1 .. Len(p[k]) PROVE t[off[k] + i - 1] = p[k][i]
      <4>1. Len(s) \in Nat /\ off[k] + Len(p[k]) <= Len(s) + 1
        BY <1>2, <3>2, <3>4
      <4>2. off[k] + i - 1 \in 1 .. Len(s)
        BY <3>2, <3>3, <4>1
      <4>3. QED
        BY <1>3, <1>5, <3>1, <4>2
    <3>6. QED
      BY <3>2, <3>4, <3>5
  <2>3. QED
    BY <2>1, <2>2
<1>11. /\ on[1] = 1 /\ on[Len(q) + 1] = Len(t) + 1
       /\ Len(q) = n + 1 /\ (n + 1) + 1 = n + 2
  <2>1. 1 \in 1 .. n + 1 /\ (n + 1) + 1 = n + 2
    BY <1>2
  <2>2. QED
    BY <1>3, <1>4, <1>5, <1>6, <2>1
<1>12. Spells(t, q, on)
  BY <1>8, <1>9, <1>10, <1>11 DEF Spells
<1>13. QED
  BY <1>12 DEF Spelt, t, q

\* The bytes begin with those of the first frame.
LEMMA SpeltFirst ==
  ASSUME NEW F, F \subseteq Seq(Byte), NEW s \in Seq(Byte), NEW p \in Seq(F), p # <<>>,
         Spelt(s, p)
  PROVE  /\ Head(p) \in F
         /\ Len(Head(p)) <= Len(s)
         /\ \A i \in 1 .. Len(Head(p)) : s[i] = Head(p)[i]
<1>1. PICK off : Spells(s, p, off)
  BY DEF Spelt
<1>2. Len(p) \in Nat /\ Len(p) >= 1 /\ Head(p) = p[1] /\ p[1] \in Seq(Byte)
  OBVIOUS
<1>3. Len(p[1]) \in Nat /\ Len(s) \in Nat
  BY <1>2
<1>4. /\ off[1 + 1] = 1 + Len(p[1]) /\ off[2] <= Len(s) + 1
      /\ \A i \in 1 .. Len(p[1]) : s[1 + i - 1] = p[1][i]
  <2>1. 1 \in 1 .. Len(p) /\ 2 \in 1 .. Len(p) + 1 /\ Len(p) + 1 \in 1 .. Len(p) + 1 /\ 2 <= Len(p) + 1
    BY <1>2
  <2>2. QED
    BY <1>1, <2>1 DEF Spells
<1>5. \A i \in 1 .. Len(p[1]) : 1 + i - 1 = i
  BY <1>3
<1>6. QED
  BY <1>2, <1>3, <1>4, <1>5

LEMMA NonEmpty ==
  ASSUME NEW S, NEW s \in Seq(S), s # <<>>
  PROVE  Len(s) \in Nat /\ Len(s) >= 1
  OBVIOUS

LEMMA ConcatFacts ==
  ASSUME NEW b \in Seq(Byte), NEW w \in Seq(Byte)
  PROVE  /\ Len(b) \in Nat /\ Len(w) \in Nat /\ Len(b \o w) = Len(b) + Len(w)
         /\ \A i \in 1 .. Len(w) : (b \o w)[Len(b) + i] = w[i]
  OBVIOUS

LEMMA PlaceInRest ==
  ASSUME NEW o \in Nat, NEW l \in Nat, NEW f \in Nat, NEW n \in Nat, NEW i \in 1 .. f,
         o >= l + 1, o + f <= l + n + 1
  PROVE  (o - l) + i - 1 \in 1 .. n /\ o + i - 1 = l + ((o - l) + i - 1)
  OBVIOUS

\* The bytes that follow them are those of the other frames.
LEMMA SpeltRest ==
  ASSUME NEW F, F \subseteq Seq(Byte), NEW p \in Seq(F), p # <<>>,
         NEW b \in Seq(Byte), NEW w \in Seq(Byte),
         Spelt(b \o w, p), Len(b) = Len(Head(p))
  PROVE  Spelt(w, Tail(p))
<1> DEFINE s == b \o w
           n == Len(p) - 1
           l == Len(b)
           q == Tail(p)
<1>1. PICK off : Spells(s, p, off)
  BY DEF Spelt
<1>2. n \in Nat /\ Len(p) = n + 1 /\ l \in Nat /\ Len(w) \in Nat /\ Len(s) = l + Len(w)
  <2>1. Len(p) \in Nat /\ Len(p) >= 1
    BY NonEmpty
  <2>2. l \in Nat /\ Len(w) \in Nat /\ Len(s) = l + Len(w)
    BY ConcatFacts, Zenon
  <2>3. QED
    BY <2>1, <2>2
<1>0. Len(q) = n /\ \A k \in 1 .. n : q[k] = p[k + 1] /\ p[k + 1] \in F
  OBVIOUS
<1>3. \A i \in 1 .. Len(w) : s[l + i] = w[i]
  BY ConcatFacts, Zenon
<1>4. Head(p) = p[1]
  OBVIOUS
<1>13. l = Len(Head(p))
  OBVIOUS
<1> HIDE DEF s, n, q, l
<1>5. /\ off \in [1 .. n + 2 -> Nat] /\ off[1] = 1 /\ off[n + 2] = Len(s) + 1
      /\ \A j, k \in 1 .. n + 2 : j <= k => off[j] <= off[k]
      /\ \A k \in 1 .. n + 1 : off[k + 1] = off[k] + Len(p[k])
      /\ \A k \in 1 .. n + 1 : \A i \in 1 .. Len(p[k]) : s[off[k] + i - 1] = p[k][i]
  <2>1. Len(p) + 1 = n + 2
    BY <1>2
  <2>2. QED
    BY <1>1, <1>2, <2>1 DEF Spells
<1> DEFINE on == [k \in 1 .. n + 1 |-> off[k + 1] - l]
<1>6. off[2] = l + 1
  <2>1. 1 \in 1 .. n + 1 /\ 1 + 1 = 2
    BY <1>2
  <2>2. off[1 + 1] = off[1] + Len(p[1])
    BY <1>5, <2>1
  <2>3. QED
    BY <1>2, <1>13, <1>4, <1>5, <2>2
<1>7. \A k \in 1 .. n + 1 : on[k] = off[k + 1] - l /\ off[k + 1] \in Nat /\ off[k + 1] >= l + 1
  <2>1. ASSUME NEW k \in 1 .. n + 1 PROVE off[k + 1] \in Nat /\ off[k + 1] >= l + 1
    <3>1. k + 1 \in 1 .. n + 2 /\ 2 \in 1 .. n + 2 /\ 2 <= k + 1
      BY <1>2
    <3>2. off[2] <= off[k + 1] /\ off[k + 1] \in Nat
      BY <1>5, <3>1
    <3>3. QED
      BY <1>2, <1>6, <3>2
  <2>2. QED
    BY <2>1
<1>8. on \in [1 .. n + 1 -> Nat]
  BY <1>2, <1>7
<1> HIDE DEF on
<1>9. \A j, k \in 1 .. n + 1 : j <= k => on[j] <= on[k]
  <2>1. ASSUME NEW j \in 1 .. n + 1, NEW k \in 1 .. n + 1, j <= k PROVE on[j] <= on[k]
    <3>1. j + 1 \in 1 .. n + 2 /\ k + 1 \in 1 .. n + 2 /\ j + 1 <= k + 1
      BY <1>2, <2>1
    <3>2. off[j + 1] <= off[k + 1]
      BY <1>5, <3>1
    <3>3. /\ on[j] = off[j + 1] - l /\ off[j + 1] \in Nat
          /\ on[k] = off[k + 1] - l /\ off[k + 1] \in Nat
      BY <1>7
    <3>4. QED
      BY <1>2, <3>2, <3>3
  <2>2. QED
    BY <2>1
<1>10. on[1] = 1 /\ on[n + 1] = Len(w) + 1
  <2>1. 1 \in 1 .. n + 1 /\ n + 1 \in 1 .. n + 1 /\ 1 + 1 = 2 /\ (n + 1) + 1 = n + 2
    BY <1>2
  <2>2. on[1] = off[2] - l /\ on[n + 1] = off[n + 2] - l
    BY <1>7, <2>1
  <2>3. QED
    BY <1>2, <1>5, <1>6, <2>2
<1>11. ASSUME NEW k \in 1 .. n
       PROVE  /\ on[k + 1] = on[k] + Len(q[k])
              /\ \A i \in 1 .. Len(q[k]) : w[on[k] + i - 1] = q[k][i]
  <2>1. /\ k \in 1 .. n + 1 /\ k + 1 \in 1 .. n + 1 /\ q[k] = p[k + 1]
        /\ Len(q[k]) \in Nat
    <3>1. /\ k \in 1 .. n + 1 /\ k + 1 \in 1 .. n + 1 /\ q[k] = p[k + 1] /\ q[k] \in Seq(Byte)
      BY <1>0, <1>2
    <3>2. QED
      BY <3>1
  <2>2. on[k] = off[k + 1] - l /\ on[k + 1] = off[(k + 1) + 1] - l
        /\ off[(k + 1) + 1] = off[k + 1] + Len(q[k])
    BY <1>5, <1>7, <2>1
  <2>3. /\ off[k + 1] \in Nat /\ off[k + 1] >= l + 1 /\ off[(k + 1) + 1] <= Len(s) + 1
    <3>1. (k + 1) + 1 \in 1 .. n + 2 /\ n + 2 \in 1 .. n + 2 /\ (k + 1) + 1 <= n + 2
      BY <1>2
    <3>2. QED
      BY <1>5, <1>7, <2>1, <3>1
  <2>4. ASSUME NEW i \in 1 .. Len(q[k]) PROVE w[on[k] + i - 1] = q[k][i]
    <3>1. on[k] + i - 1 \in 1 .. Len(w) /\ off[k + 1] + i - 1 = l + (on[k] + i - 1)
      <4> DEFINE o == off[k + 1]
                 f == Len(q[k])
                 m == Len(w)
      <4>1. o \in Nat /\ l \in Nat /\ f \in Nat /\ m \in Nat /\ i \in 1 .. f
        BY <1>2, <2>1, <2>3
      <4>2. o >= l + 1 /\ o + f <= l + m + 1
        BY <1>2, <2>2, <2>3
      <4>3. on[k] = o - l
        BY <2>2
      <4> HIDE DEF o, f, m
      <4>4. (o - l) + i - 1 \in 1 .. m /\ o + i - 1 = l + ((o - l) + i - 1)
        BY <4>1, <4>2, PlaceInRest
      <4>5. QED
        BY <4>3, <4>4 DEF o, m
    <3>2. s[off[k + 1] + i - 1] = q[k][i]
      BY <1>5, <2>1
    <3>3. QED
      BY <1>3, <3>1, <3>2
  <2>5. on[k + 1] = on[k] + Len(q[k])
    BY <1>2, <2>1, <2>2, <2>3
  <2>6. QED
    BY <2>4, <2>5
<1>12. Spells(w, q, on)
  BY <1>0, <1>8, <1>9, <1>10, <1>11 DEF Spells
<1>14. QED
  BY <1>12 DEF Spelt, q

\* A byte that moves from the line into the buffer changes neither.
LEMMA ByteMoves ==
  ASSUME NEW b \in Seq(Byte), NEW w \in Seq(Byte), w # <<>>
  PROVE  Append(b, Head(w)) \o Tail(w) = b \o w
<1> DEFINE l == Append(b, Head(w)) \o Tail(w)
           r == b \o w
<1>1. Head(w) \in Byte /\ Tail(w) \in Seq(Byte) /\ Len(Tail(w)) = Len(w) - 1
      /\ w[1] = Head(w) /\ \A i \in 1 .. Len(Tail(w)) : Tail(w)[i] = w[i + 1]
  BY HeadTailProperties
<1>2. Len(b) \in Nat /\ Len(w) \in Nat /\ Len(w) >= 1
  OBVIOUS
<1>3. /\ Append(b, Head(w)) \in Seq(Byte) /\ Len(Append(b, Head(w))) = Len(b) + 1
      /\ \A i \in 1 .. Len(b) : Append(b, Head(w))[i] = b[i]
      /\ Append(b, Head(w))[Len(b) + 1] = Head(w)
  BY <1>1
<1>4. l \in Seq(Byte) /\ r \in Seq(Byte) /\ Len(l) = Len(b) + Len(w) /\ Len(r) = Len(b) + Len(w)
  BY <1>1, <1>2, <1>3
<1>5. ASSUME NEW i \in 1 .. Len(b) + Len(w) PROVE l[i] = r[i]
  <2>1. CASE i <= Len(b)
    BY <1>1, <1>2, <1>3, <2>1
  <2>2. CASE i = Len(b) + 1
    BY <1>1, <1>2, <1>3, <2>2
  <2>3. CASE i > Len(b) + 1
    <3>1. /\ l[i] = Tail(w)[i - (Len(b) + 1)] /\ r[i] = w[i - Len(b)]
          /\ i - (Len(b) + 1) \in 1 .. Len(Tail(w)) /\ (i - (Len(b) + 1)) + 1 = i - Len(b)
      BY <1>1, <1>2, <1>3, <2>3
    <3>2. QED
      BY <1>1, <3>1
  <2>4. QED
    BY <1>2, <2>1, <2>2, <2>3
<1>6. QED
  BY <1>4, <1>5, SeqEqual

LEMMA ConcatIsAssociative ==
  ASSUME NEW s \in Seq(Byte), NEW t \in Seq(Byte), NEW u \in Seq(Byte)
  PROVE  (s \o t) \o u = s \o (t \o u)
  BY ConcatAssociative

-----------------------------------------------------------------------------
(* A port that reads a carriage return as a newline.                       *)

Short == 85   \* so many carriage returns do not make the sum come round

LEMMA MessagesAreShort == \A t \in KnownType : MessageSize(t) \in 2 .. Short
  BY DEF MessageSize, PayloadSize, STARTUP_MSG_LEN, DoubleSize, Short

LEMMA DeliveredFacts ==
  ASSUME NEW bs \in Seq(Byte), NEW c \in BOOLEAN
  PROVE  /\ DeliveredAll(bs, c) \in Seq(Byte) /\ Len(DeliveredAll(bs, c)) = Len(bs)
         /\ \A i \in 1 .. Len(bs) : DeliveredAll(bs, c)[i] = Delivered(bs[i], c)
         /\ \A b \in Byte : Delivered(b, c) \in Byte /\ (Delivered(b, c) = b \/ Delivered(b, c) = b - 3)
<1>1. \A b \in Byte : Delivered(b, c) \in Byte /\ (Delivered(b, c) = b \/ Delivered(b, c) = b - 3)
  BY DEF Delivered, Byte, NEWLINE, CARRIAGE_RETURN
<1>2. Len(bs) \in Nat /\ \A i \in 1 .. Len(bs) : Delivered(bs[i], c) \in Byte
  <2>1. \A i \in 1 .. Len(bs) : bs[i] \in Byte
    OBVIOUS
  <2>2. QED
    BY <1>1, <2>1
<1>3. QED
  BY <1>1, <1>2, IsASeq DEF DeliveredAll

LEMMA NothingDelivered == ASSUME NEW c PROVE DeliveredAll(<<>>, c) = <<>>
  BY DEF DeliveredAll

LEMMA DeliveredHeadTail ==
  ASSUME NEW w \in Seq(Byte), w # <<>>, NEW c \in BOOLEAN
  PROVE  /\ DeliveredAll(w, c) # <<>>
         /\ Head(DeliveredAll(w, c)) = Delivered(Head(w), c)
         /\ Tail(DeliveredAll(w, c)) = DeliveredAll(Tail(w), c)
<1> DEFINE d == DeliveredAll(w, c)
           l == Tail(d)
           r == DeliveredAll(Tail(w), c)
<1>1. /\ Tail(w) \in Seq(Byte) /\ Len(w) \in Nat /\ Len(w) >= 1 /\ Len(Tail(w)) = Len(w) - 1
      /\ Head(w) = w[1] /\ \A i \in 1 .. Len(w) - 1 : Tail(w)[i] = w[i + 1]
  OBVIOUS
<1>2. d \in Seq(Byte) /\ Len(d) = Len(w) /\ \A i \in 1 .. Len(w) : d[i] = Delivered(w[i], c)
  BY DeliveredFacts
<1>3. r \in Seq(Byte) /\ Len(r) = Len(w) - 1 /\ \A i \in 1 .. Len(w) - 1 : r[i] = Delivered(w[i + 1], c)
  <2> DEFINE t == Tail(w)
  <2>1. t \in Seq(Byte) /\ Len(t) = Len(w) - 1 /\ \A i \in 1 .. Len(w) - 1 : t[i] = w[i + 1]
    BY <1>1
  <2> HIDE DEF t
  <2>2. /\ DeliveredAll(t, c) \in Seq(Byte) /\ Len(DeliveredAll(t, c)) = Len(t)
        /\ \A i \in 1 .. Len(t) : DeliveredAll(t, c)[i] = Delivered(t[i], c)
    BY <2>1, DeliveredFacts
  <2>3. r = DeliveredAll(t, c)
    BY DEF t
  <2> HIDE DEF r
  <2>4. QED
    BY <2>1, <2>2, <2>3
<1> HIDE DEF d, r
<1>4. d # <<>> /\ Head(d) = d[1] /\ 1 \in 1 .. Len(w)
  BY <1>1, <1>2
<1>5. l \in Seq(Byte) /\ Len(l) = Len(w) - 1 /\ \A i \in 1 .. Len(w) - 1 : l[i] = d[i + 1]
  BY <1>1, <1>2, <1>4
<1>6. \A i \in 1 .. Len(w) - 1 : i + 1 \in 1 .. Len(w)
  BY <1>1
<1>7. \A i \in 1 .. Len(l) : l[i] = r[i]
  BY <1>2, <1>3, <1>5, <1>6
<1> HIDE DEF l
<1>8. l = r
  BY <1>3, <1>5, <1>7, SeqEqual
<1>9. QED
  BY <1>1, <1>2, <1>4, <1>8 DEF d, l, r

LEMMA DeliveredConcat ==
  ASSUME NEW v \in Seq(Byte), NEW w \in Seq(Byte), NEW c \in BOOLEAN
  PROVE  DeliveredAll(v \o w, c) = DeliveredAll(v, c) \o DeliveredAll(w, c)
<1> DEFINE x == DeliveredAll(v, c)
           y == DeliveredAll(w, c)
           l == DeliveredAll(v \o w, c)
           r == x \o y
<1>1. /\ v \o w \in Seq(Byte) /\ Len(v) \in Nat /\ Len(w) \in Nat /\ Len(v \o w) = Len(v) + Len(w)
      /\ \A i \in 1 .. Len(v) + Len(w) : (v \o w)[i] = IF i <= Len(v) THEN v[i] ELSE w[i - Len(v)]
  OBVIOUS
<1>2. /\ x \in Seq(Byte) /\ Len(x) = Len(v) /\ \A i \in 1 .. Len(v) : x[i] = Delivered(v[i], c)
      /\ y \in Seq(Byte) /\ Len(y) = Len(w) /\ \A i \in 1 .. Len(w) : y[i] = Delivered(w[i], c)
  BY DeliveredFacts
<1>3. l \in Seq(Byte) /\ Len(l) = Len(v) + Len(w)
      /\ \A i \in 1 .. Len(v) + Len(w) : l[i] = Delivered((v \o w)[i], c)
  <2> DEFINE z == v \o w
  <2>1. z \in Seq(Byte) /\ Len(z) = Len(v) + Len(w)
    BY <1>1
  <2> HIDE DEF z
  <2>2. /\ DeliveredAll(z, c) \in Seq(Byte) /\ Len(DeliveredAll(z, c)) = Len(z)
        /\ \A i \in 1 .. Len(z) : DeliveredAll(z, c)[i] = Delivered(z[i], c)
    BY <2>1, DeliveredFacts
  <2>3. QED
    BY <2>1, <2>2 DEF z
<1> HIDE DEF x, y, l
<1>4. r \in Seq(Byte) /\ Len(r) = Len(v) + Len(w)
      /\ \A i \in 1 .. Len(v) + Len(w) : r[i] = IF i <= Len(v) THEN x[i] ELSE y[i - Len(v)]
  <2>1. /\ x \in Seq(Byte) /\ y \in Seq(Byte) /\ Len(x) = Len(v) /\ Len(y) = Len(w)
    BY <1>2
  <2>2. /\ r \in Seq(Byte) /\ Len(r) = Len(x) + Len(y)
        /\ \A i \in 1 .. Len(x) + Len(y) : r[i] = IF i <= Len(x) THEN x[i] ELSE y[i - Len(x)]
    BY <2>1
  <2> HIDE DEF r
  <2>3. QED
    BY <2>1, <2>2
<1> HIDE DEF r
<1>5. ASSUME NEW i \in 1 .. Len(v) + Len(w) PROVE l[i] = r[i]
  <2>1. CASE i <= Len(v)
    BY <1>1, <1>2, <1>3, <1>4, <2>1
  <2>2. CASE ~(i <= Len(v))
    <3>1. i - Len(v) \in 1 .. Len(w)
      BY <1>1, <2>2
    <3>2. QED
      BY <1>1, <1>2, <1>3, <1>4, <2>2, <3>1
  <2>3. QED
    BY <2>1, <2>2
<1>6. l = r
  BY <1>3, <1>4, <1>5, SeqEqual
<1>7. QED
  BY <1>6 DEF l, r, x, y

LEMMA SumWrapsBy ==
  ASSUME NEW x \in Byte, NEW y \in Byte
  PROVE  \E u \in Int : (x + y) % 256 = x + y + 256 * u
<1>0. x + y \in Int /\ x + y + 256 * 0 = x + y /\ x + y + 256 * (-1) = x + y - 256 /\ -1 \in Int
  BY DEF Byte
<1>1. CASE x + y < 256
  <2>1. (x + y) % 256 = x + y + 256 * 0
    BY <1>0, <1>1, SumWraps
  <2>2. QED
    BY <2>1
<1>2. CASE ~(x + y < 256)
  <2>1. (x + y) % 256 = x + y + 256 * (-1)
    BY <1>0, <1>2, SumWraps
  <2>2. QED
    BY <1>0, <2>1
<1>3. QED
  BY <1>1, <1>2

LEMMA Telescopes ==
  ASSUME NEW s \in Int, NEW s1 \in Int, NEW t \in Int, NEW t1 \in Int, NEW x \in Int, NEW y \in Int,
         NEW k \in Int, NEW u \in Int, NEW v \in Int, NEW w \in Int,
         s = s1 + x + 256 * u, t = t1 + y + 256 * v, s1 = t1 + 3 * k + 256 * w
  PROVE  /\ y = x => s = t + 3 * k + 256 * (w + u - v)
         /\ y = x - 3 => s = t + 3 * (k + 1) + 256 * (w + u - v)
  OBVIOUS

Plus(x, y) == (x + y) % 256
Off(s, t, k, w) == s = t + 3 * k + 256 * w

LEMMA SumStep ==
  ASSUME NEW s \in Byte, NEW t \in Byte, NEW x \in Byte, NEW y \in Byte, NEW k \in Nat, NEW w \in Int,
         Off(s, t, k, w)
  PROVE  /\ y = x => \E w1 \in Int : Off(Plus(s, x), Plus(t, y), k, w1)
         /\ y = x - 3 => \E w1 \in Int : Off(Plus(s, x), Plus(t, y), k + 1, w1)
<1>1. PICK u \in Int : (s + x) % 256 = s + x + 256 * u
  BY SumWrapsBy
<1>2. PICK v \in Int : (t + y) % 256 = t + y + 256 * v
  BY SumWrapsBy
<1>3. s \in Int /\ t \in Int /\ x \in Int /\ y \in Int /\ (s + x) % 256 \in Int /\ (t + y) % 256 \in Int
  BY <1>1, <1>2 DEF Byte
<1>4. s = t + 3 * k + 256 * w
  BY DEF Off
<1>5. y = x => Off(Plus(s, x), Plus(t, y), k, w + u - v)
  BY <1>1, <1>2, <1>3, <1>4, Telescopes DEF Off, Plus
<1>6. y = x - 3 => Off(Plus(s, x), Plus(t, y), k + 1, w + u - v)
  BY <1>1, <1>2, <1>3, <1>4, Telescopes DEF Off, Plus
<1>7. w + u - v \in Int
  OBVIOUS
<1>8. QED
  BY <1>5, <1>6, <1>7

\* Each of the k bytes changed makes the sum 3 smaller.
LEMMA ChangedSums ==
  ASSUME NEW a \in Seq(Byte), NEW b \in Seq(Byte), Len(a) = Len(b),
         \A i \in 1 .. Len(a) : b[i] = a[i] \/ b[i] = a[i] - 3
  PROVE  \A i \in 0 .. Len(a) : \E k \in 0 .. i, w \in Int :
           /\ Sums(a)[i] = Sums(b)[i] + 3 * k + 256 * w
           /\ k = 0 => \A j \in 1 .. i : b[j] = a[j]
<1> DEFINE Good(i) == \E k \in 0 .. i, w \in Int :
                        /\ Sums(a)[i] = Sums(b)[i] + 3 * k + 256 * w
                        /\ k = 0 => \A j \in 1 .. i : b[j] = a[j]
           T == {i \in 0 .. Len(a) : ~Good(i)}
<1>0. Len(a) \in Nat
  OBVIOUS
<1>1. T = {}
  <2>1. SUFFICES ASSUME T # {} PROVE FALSE
    OBVIOUS
  <2>2. PICK n \in T : \A y \in T : n <= y
    <3>1. T \subseteq Nat
      OBVIOUS
    <3> HIDE DEF T
    <3>2. QED
      BY <2>1, <3>1, LeastNat
  <2>3. n \in 0 .. Len(a) /\ ~Good(n)
    OBVIOUS
  <2>4. n # 0
    <3>1. Sums(a)[0] = 0 /\ Sums(b)[0] = 0
      BY SumsSteps
    <3>2. 0 \in 0 .. 0 /\ 0 \in Int /\ 0 = 0 + 3 * 0 + 256 * 0 /\ \A j \in 1 .. 0 : b[j] = a[j]
      OBVIOUS
    <3>3. Good(0)
      BY <3>1, <3>2
    <3> HIDE DEF Good
    <3>4. QED
      BY <2>3, <3>3
  <2>5. /\ n \in Nat /\ n \in 1 .. Len(a) /\ n \in 1 .. Len(b) /\ n - 1 \in 0 .. Len(a) /\ n - 1 \in 0 .. Len(b)
        /\ ~(n <= n - 1)
    BY <1>0, <2>3, <2>4
  <2>6. Good(n - 1)
    <3> HIDE DEF Good
    <3>1. n - 1 \notin T
      <4> HIDE DEF T
      <4> QED
        BY <2>2, <2>5
    <3>2. QED
      BY <2>5, <3>1
  <2>7. PICK k \in 0 .. n - 1, w \in Int :
          /\ Sums(a)[n - 1] = Sums(b)[n - 1] + 3 * k + 256 * w
          /\ k = 0 => \A j \in 1 .. n - 1 : b[j] = a[j]
    BY <2>6
  <2>8. /\ Sums(a)[n] = (Sums(a)[n - 1] + a[n]) % 256 /\ Sums(a)[n - 1] \in Byte
        /\ Sums(b)[n] = (Sums(b)[n - 1] + b[n]) % 256 /\ Sums(b)[n - 1] \in Byte
        /\ a[n] \in Byte /\ b[n] \in Byte /\ Sums(a)[n] \in Byte /\ Sums(b)[n] \in Byte
    BY <1>0, <2>3, <2>5, SumsSteps, SumsAreBytes
  <2>9. b[n] = a[n] \/ b[n] = a[n] - 3
    BY <2>5
  <2>10. /\ b[n] = a[n] => \E w1 \in Int : Off(Sums(a)[n], Sums(b)[n], k, w1)
         /\ b[n] = a[n] - 3 => \E w1 \in Int : Off(Sums(a)[n], Sums(b)[n], k + 1, w1)
    <3>1. k \in Nat
      BY <2>5
    <3>2. Off(Sums(a)[n - 1], Sums(b)[n - 1], k, w)
      BY <2>7 DEF Off
    <3>3. Sums(a)[n] = Plus(Sums(a)[n - 1], a[n]) /\ Sums(b)[n] = Plus(Sums(b)[n - 1], b[n])
      BY <2>8 DEF Plus
    <3>4. /\ b[n] = a[n] => \E w1 \in Int : Off(Plus(Sums(a)[n - 1], a[n]), Plus(Sums(b)[n - 1], b[n]), k, w1)
          /\ b[n] = a[n] - 3 =>
               \E w1 \in Int : Off(Plus(Sums(a)[n - 1], a[n]), Plus(Sums(b)[n - 1], b[n]), k + 1, w1)
      BY <2>8, <3>1, <3>2, SumStep
    <3>5. QED
      BY <3>3, <3>4
  <2>11. k \in 0 .. n /\ k + 1 \in 0 .. n /\ k + 1 # 0
    BY <2>5
  <2>12. CASE b[n] = a[n]
    <3>1. k = 0 => \A j \in 1 .. n : b[j] = a[j]
      <4>1. \A j \in 1 .. n : j \in 1 .. n - 1 \/ j = n
        BY <2>5
      <4>2. QED
        BY <2>7, <2>12, <4>1
    <3>2. PICK w1 \in Int : Sums(a)[n] = Sums(b)[n] + 3 * k + 256 * w1
      BY <2>10, <2>12 DEF Off
    <3>3. Good(n)
      BY <2>11, <3>1, <3>2
    <3>4. QED
      BY <2>3, <3>3
  <2>13. CASE b[n] = a[n] - 3
    <3>1. PICK w1 \in Int : Sums(a)[n] = Sums(b)[n] + 3 * (k + 1) + 256 * w1
      BY <2>10, <2>13 DEF Off
    <3>2. Good(n)
      BY <2>11, <3>1
    <3>3. QED
      BY <2>3, <3>2
  <2>14. QED
    BY <2>9, <2>12, <2>13
<1>2. QED
  BY <1>1

\* So a message that is read with other bytes than were sent is refused.
LEMMA DeliveryIsNoticed ==
  ASSUME NEW bs \in Seq(Byte), NEW c \in BOOLEAN, Len(bs) <= Short,
         Sum(DeliveredAll(bs, c)) = Sum(bs)
  PROVE  DeliveredAll(bs, c) = bs
<1>1. /\ DeliveredAll(bs, c) \in Seq(Byte) /\ Len(DeliveredAll(bs, c)) = Len(bs) /\ Len(bs) \in 0 .. Len(bs)
  BY DeliveredFacts
<1> DEFINE n == Len(bs)
<1>2. PICK k \in 0 .. n, w \in Int :
        /\ Sums(bs)[n] = Sums(DeliveredAll(bs, c))[n] + 3 * k + 256 * w
        /\ k = 0 => \A j \in 1 .. n : DeliveredAll(bs, c)[j] = bs[j]
  <2> DEFINE r == DeliveredAll(bs, c)
  <2>1. \A i \in 1 .. Len(bs) : r[i] = bs[i] \/ r[i] = bs[i] - 3
    <3>1. \A i \in 1 .. Len(bs) : bs[i] \in Byte
      OBVIOUS
    <3>2. QED
      BY <3>1, DeliveredFacts
  <2>2. r \in Seq(Byte) /\ Len(bs) = Len(r)
    BY <1>1
  <2> HIDE DEF r
  <2>3. \A i \in 0 .. Len(bs) : \E k \in 0 .. i, w \in Int :
           /\ Sums(bs)[i] = Sums(r)[i] + 3 * k + 256 * w
           /\ k = 0 => \A j \in 1 .. i : r[j] = bs[j]
    BY <2>1, <2>2, ChangedSums
  <2>4. QED
    BY <1>1, <2>3 DEF r
<1>3. Sums(bs)[n] = Sums(DeliveredAll(bs, c))[n] /\ Sums(bs)[n] \in Int
  <2>1. Sums(bs)[n] = Sum(bs) /\ Sum(bs) \in Byte
    BY SumIsLast, SumIsByte
  <2>2. Sums(DeliveredAll(bs, c))[Len(DeliveredAll(bs, c))] = Sum(DeliveredAll(bs, c))
    BY SumIsLast
  <2>3. Sum(bs) \in Int
    <3>1. \A x \in Byte : x \in Int
      BY DEF Byte
    <3>2. QED
      BY <2>1, <3>1
  <2>4. QED
    BY <1>1, <2>1, <2>2, <2>3
<1>4. k = 0
  <2>1. 3 * k + 256 * w = 0 /\ 0 <= k /\ k <= 85
    BY <1>2, <1>3 DEF Short
  <2>2. QED
    BY <2>1
<1>5. QED
  BY <1>1, <1>2, <1>4, SeqEqual
=============================================================================
