---------------------------- MODULE TxRingProofs ----------------------------
(***************************************************************************)
(* What holds of the transmit ring for any size of it, any messages that   *)
(* fit, and any interleaving of send_buffer and its interrupt.             *)
(***************************************************************************)
EXTENDS TxRing, SequenceTheorems, TLAPS

LEMMA SuccIs ==
  ASSUME NEW k \in Index
  PROVE  /\ Succ(k) = IF k = BUF_SIZE - 1 THEN 0 ELSE k + 1
         /\ Succ(k) \in Index
<1>1. BUF_SIZE \in Nat /\ BUF_SIZE > 1 /\ k \in Nat /\ k < BUF_SIZE
  BY RingAssumption DEF Index
<1>2. CASE k = BUF_SIZE - 1
  BY <1>1, <1>2 DEF Succ, Index
<1>3. CASE k # BUF_SIZE - 1
  BY <1>1, <1>3 DEF Succ, Index
<1>4. QED
  BY <1>2, <1>3

\* Where send_buffer is in its message.
PlaceInv == spc \in {"put", "wait", "room"} => i < Len(msg)

TxInv == TxTypeOK /\ PlaceInv

LEMMA InitTxInv == TxInit => TxInv
<1> SUFFICES ASSUME TxInit PROVE TxInv
  OBVIOUS
<1>1. 0 \in Index /\ MaxSends \in Nat /\ 0 \in Bytes
  BY RingAssumption, MaxSendsAssumption, BytesAssumption DEF Index
<1>2. QED
  BY <1>1 DEF TxInit, TxInv, TxTypeOK, PlaceInv

LEMMA NextTxInv == TxInv /\ [TxNext]_tvars => TxInv'
<1> SUFFICES ASSUME TxInv, [TxNext]_tvars PROVE TxInv'
  OBVIOUS
<1> USE DEF TxInv, TxTypeOK, PlaceInv
<1>1. ASSUME NEW m \in Msgs, SendStart(m) PROVE TxInv'
  <2>1. m \in Seq(Bytes) /\ 0 < Len(m) /\ MaxSends \in Nat
    BY MsgsAssumption, MaxSendsAssumption
  <2>2. 0 \in 0 .. Len(m) /\ sends' \in 0 .. MaxSends
    BY <1>1, <2>1 DEF SendStart
  <2>3. msg' \in Seq(Bytes) /\ i' \in 0 .. Len(msg') /\ PlaceInv'
    BY <1>1, <2>1, <2>2 DEF SendStart
  <2>4. QED
    BY <1>1, <2>2, <2>3 DEF SendStart, ring, uart
<1>2. CASE SendPut
  <2>1. i + 1 \in 1 .. Len(msg) /\ Len(msg) \in Nat
    BY <1>2 DEF SendPut
  <2>2. msg[i + 1] \in Bytes
    BY <2>1
  <2>3. tx_buffer' \in [Index -> Bytes] /\ tx_in' \in Index
    BY <1>2, <2>2, SuccIs DEF SendPut
  <2>4. i' \in 0 .. Len(msg) /\ PlaceInv' /\ spc' \in {"put", "end"}
    BY <1>2, <2>1 DEF SendPut
  <2>5. QED
    BY <1>2, <2>3, <2>4 DEF SendPut, uart
<1>3. CASE SendWait
  BY <1>3 DEF SendWait, ring, uart
<1>4. CASE SendRoom
  BY <1>4 DEF SendRoom, ring, uart
<1>5. CASE SendResume
  BY <1>5 DEF SendResume, ring, uart
<1>6. CASE SendEnd
  BY <1>6 DEF SendEnd, ring, uart
<1>7. CASE TxInterrupt
  BY <1>7, SuccIs DEF TxInterrupt, send
<1>8. CASE Transmit
  BY <1>8 DEF Transmit, ring, send
<1>9. CASE UNCHANGED tvars
  BY <1>9 DEF tvars, ring, uart, send
<1>10. QED
  BY <1>1, <1>2, <1>3, <1>4, <1>5, <1>6, <1>7, <1>8, <1>9 DEF TxNext, SendStep

\* The indices stay inside the ring and send_buffer inside its message, for any
\* ring and any messages.
THEOREM RingTypeCorrect == TxSpec => []TxTypeOK
<1>1. TxSpec => []TxInv
  BY InitTxInv, NextTxInv, PTL DEF TxSpec
<1>2. TxInv => TxTypeOK
  BY DEF TxInv
<1>3. QED
  BY <1>1, <1>2, PTL

-----------------------------------------------------------------------------
(* The interrupt that has switched itself off found the ring empty; from   *)
(* then on the rest of the message fits, so that send_buffer does not wait *)
(* again before it switches the interrupt on.                              *)

LEMMA UsedIs ==
  ASSUME TxTypeOK
  PROVE  /\ Used \in 0 .. BUF_SIZE - 1
         /\ Used = 0 <=> tx_in = tx_out
         /\ Full => Used = BUF_SIZE - 1
<1>1. BUF_SIZE \in Nat /\ BUF_SIZE > 1 /\ tx_in \in 0 .. BUF_SIZE - 1 /\ tx_out \in 0 .. BUF_SIZE - 1
  BY RingAssumption DEF TxTypeOK, Index
<1>2. Succ(tx_in) = IF tx_in = BUF_SIZE - 1 THEN 0 ELSE tx_in + 1
  BY SuccIs DEF TxTypeOK
<1>3. QED
  BY <1>1, <1>2 DEF Used, Full

LEMMA UsedAfterPut ==
  ASSUME TxTypeOK, ~Full, tx_in' = Succ(tx_in), tx_out' = tx_out
  PROVE  Used' = Used + 1
<1>1. BUF_SIZE \in Nat /\ BUF_SIZE > 1 /\ tx_in \in 0 .. BUF_SIZE - 1 /\ tx_out \in 0 .. BUF_SIZE - 1
  BY RingAssumption DEF TxTypeOK, Index
<1>2. Succ(tx_in) = IF tx_in = BUF_SIZE - 1 THEN 0 ELSE tx_in + 1
  BY SuccIs DEF TxTypeOK
<1>3. QED
  BY <1>1, <1>2 DEF Used, Full

StallInv ==
  /\ irq <=> spc \notin {"put", "end"}
  /\ spc # "idle" => Len(msg) < BUF_SIZE
  /\ ~txeie /\ spc \in {"put", "wait", "room"} => Used + (Len(msg) - i) < BUF_SIZE
  /\ ~txeie /\ spc \in {"idle", "wait", "room"} => tx_in = tx_out

LEMMA InitStallInv == TxInit => StallInv
  BY DEF TxInit, StallInv

LEMMA NextStallInv == TxInv /\ StallInv /\ [TxNext]_tvars => StallInv'
<1> SUFFICES ASSUME TxInv, StallInv, [TxNext]_tvars PROVE StallInv'
  OBVIOUS
<1>0. /\ BUF_SIZE \in Nat /\ Len(msg) \in Nat /\ i \in Nat /\ Used \in Nat
      /\ Used = 0 <=> tx_in = tx_out
      /\ TxTypeOK /\ PlaceInv
  BY RingAssumption, UsedIs DEF TxInv, TxTypeOK
<1>1. ASSUME NEW m \in Msgs, SendStart(m) PROVE StallInv'
  <2>1. Len(m) \in Nat /\ Len(m) < BUF_SIZE
    BY <1>0, MsgsAssumption
  <2>2. QED
    BY <1>1, <2>1 DEF SendStart, StallInv
<1>2. CASE SendPut
  <2>1. Used' = Used + 1
    BY <1>0, <1>2, UsedAfterPut DEF SendPut
  <2>2. QED
    BY <1>0, <1>2, <2>1 DEF SendPut, StallInv
<1>3. CASE SendWait
  <2>1. txeie
    <3>1. SUFFICES ASSUME ~txeie PROVE FALSE
      OBVIOUS
    <3>2. Used = BUF_SIZE - 1 /\ i < Len(msg) /\ Used + (Len(msg) - i) < BUF_SIZE
      BY <1>0, <1>3, <3>1, UsedIs DEF SendWait, PlaceInv, StallInv
    <3>3. QED
      BY <1>0, <3>2
  <2>2. QED
    BY <1>3, <2>1 DEF SendWait, StallInv
<1>4. CASE SendRoom
  BY <1>4 DEF SendRoom, StallInv, ring, Used
<1>5. CASE SendResume
  BY <1>5 DEF SendResume, StallInv, ring, Used
<1>6. CASE SendEnd
  BY <1>6 DEF SendEnd, StallInv, ring, Used
<1>7. CASE TxInterrupt
  <2>1. UNCHANGED <<irq, spc, msg, i>> /\ irq
    BY <1>7 DEF TxInterrupt, send
  <2>2. CASE tx_in # tx_out
    <3>1. txeie /\ txeie' = txeie
      BY <1>7, <2>2 DEF TxInterrupt
    <3>2. QED
      BY <2>1, <3>1 DEF StallInv
  <2>3. CASE tx_in = tx_out
    <3>1. UNCHANGED <<tx_in, tx_out>> /\ Used' = Used /\ Used = 0
      BY <1>0, <1>7, <2>3 DEF TxInterrupt, Used
    <3>2. QED
      BY <1>0, <2>1, <2>3, <3>1 DEF StallInv
  <2>4. QED
    BY <2>2, <2>3
<1>8. CASE Transmit
  BY <1>8 DEF Transmit, StallInv, ring, send, Used
<1>9. CASE UNCHANGED tvars
  BY <1>9 DEF tvars, StallInv, ring, send, Used
<1>10. QED
  BY <1>1, <1>2, <1>3, <1>4, <1>5, <1>6, <1>7, <1>8, <1>9 DEF TxNext, SendStep

\* No byte is left in the ring with the interrupt switched off, for any ring
\* and any messages that are shorter than it.
THEOREM InterruptStaysOn == TxSpec => []NeverStalls
<1>1. TxSpec => [](TxInv /\ StallInv)
  BY InitTxInv, NextTxInv, InitStallInv, NextStallInv, PTL DEF TxSpec
<1>2. TxInv /\ StallInv => NeverStalls
  BY DEF TxInv, TxTypeOK, StallInv, NeverStalls
<1>3. QED
  BY <1>1, <1>2, PTL

-----------------------------------------------------------------------------
(* The ring hides the handing over of bytes from the line: what is still   *)
(* to leave is the byte in the transmitter, those in the ring and those    *)
(* send_buffer has not come to.                                            *)

Held == IF txe THEN <<>> ELSE <<dr>>
Rest == SubSeq(msg, i + 1, Len(msg))

LEMMA Wrap ==
  ASSUME NEW a \in Index, NEW b \in 0 .. BUF_SIZE
  PROVE  (a + b) % BUF_SIZE = IF a + b < BUF_SIZE THEN a + b ELSE a + b - BUF_SIZE
<1>1. BUF_SIZE \in Nat /\ BUF_SIZE > 1 /\ a \in 0 .. BUF_SIZE - 1
  BY RingAssumption DEF Index
<1>2. CASE a + b < BUF_SIZE
  BY <1>1, <1>2
<1>3. CASE a + b >= BUF_SIZE /\ a + b < 2 * BUF_SIZE
  <2>1. a + b - BUF_SIZE \in 0 .. BUF_SIZE - 1 /\ a + b = 1 * BUF_SIZE + (a + b - BUF_SIZE)
    BY <1>1, <1>3
  <2>2. QED
    BY <1>1, <1>3, <2>1
<1>4. QED
  BY <1>1, <1>2, <1>3

LEMMA QueueIsSeq == TxTypeOK => Queue \in Seq(Bytes) /\ Len(Queue) = Used
<1> SUFFICES ASSUME TxTypeOK PROVE Queue \in Seq(Bytes) /\ Len(Queue) = Used
  OBVIOUS
<1>1. Used \in Nat /\ Used < BUF_SIZE /\ BUF_SIZE \in Nat /\ tx_out \in Index
  BY UsedIs, RingAssumption DEF TxTypeOK
<1>2. ASSUME NEW k \in 1 .. Used PROVE tx_buffer[(tx_out + (k - 1)) % BUF_SIZE] \in Bytes
  <2>1. k - 1 \in 0 .. BUF_SIZE
    BY <1>1, <1>2
  <2>2. (tx_out + (k - 1)) % BUF_SIZE \in Index
    BY <1>1, <1>2, <2>1, Wrap DEF Index
  <2>3. QED
    BY <2>2 DEF TxTypeOK
<1>3. Queue \in [1 .. Used -> Bytes]
  BY <1>2 DEF Queue
<1>4. QED
  BY <1>1, <1>3

LEMMA QueueAfterPut ==
  ASSUME TxInv, TxInv', SendPut
  PROVE  Queue' = Append(Queue, msg[i + 1])
<1>1. /\ TxTypeOK /\ TxTypeOK' /\ Used \in Nat /\ Used < BUF_SIZE /\ BUF_SIZE \in Nat
      /\ tx_in \in 0 .. BUF_SIZE - 1 /\ tx_out \in 0 .. BUF_SIZE - 1 /\ Used' = Used + 1
  BY UsedIs, UsedAfterPut, RingAssumption DEF TxInv, TxTypeOK, Index, SendPut
<1>2. /\ Queue \in Seq(Bytes) /\ Len(Queue) = Used
      /\ Queue' \in Seq(Bytes) /\ Len(Queue') = Used + 1
  <2>1. Queue \in Seq(Bytes) /\ Len(Queue) = Used
    BY <1>1, QueueIsSeq
  <2>2. Queue' \in Seq(Bytes) /\ Len(Queue') = Used'
    <3>1. (TxTypeOK => Queue \in Seq(Bytes) /\ Len(Queue) = Used)'
      BY QueueIsSeq, PTL
    <3>2. QED
      BY <1>1, <3>1
  <2>3. QED
    BY <1>1, <2>1, <2>2
<1>3. msg[i + 1] \in Bytes
  <2>1. i + 1 \in 1 .. Len(msg) /\ msg \in Seq(Bytes)
    BY DEF SendPut, TxInv, TxTypeOK, PlaceInv
  <2>2. QED
    BY <2>1
<1>4. ASSUME NEW k \in 1 .. Used + 1 PROVE Queue'[k] = Append(Queue, msg[i + 1])[k]
  <2> DEFINE slot == (tx_out + (k - 1)) % BUF_SIZE
  <2>1. slot = IF tx_out + (k - 1) < BUF_SIZE THEN tx_out + (k - 1) ELSE tx_out + (k - 1) - BUF_SIZE
    <3>1. tx_out \in Index /\ k - 1 \in 0 .. BUF_SIZE
      BY <1>1, <1>4 DEF Index
    <3>2. QED
      BY <3>1, Wrap
  <2>2. Queue'[k] = tx_buffer'[slot]
    BY <1>1, <1>4 DEF Queue, SendPut
  <2>3. CASE k = Used + 1
    <3>1. slot = tx_in
      BY <1>1, <1>4, <2>1, <2>3 DEF Used
    <3>2. tx_buffer'[slot] = msg[i + 1]
      BY <3>1 DEF SendPut, TxInv, TxTypeOK
    <3>3. QED
      BY <1>2, <1>3, <2>2, <2>3, <3>2, AppendProperties
  <2>4. CASE k \in 1 .. Used
    <3>1. slot # tx_in
      BY <1>1, <2>1, <2>4 DEF Used
    <3>2. tx_buffer'[slot] = tx_buffer[slot]
      BY <3>1 DEF SendPut, TxInv, TxTypeOK
    <3>3. Queue[k] = tx_buffer[slot]
      BY <2>4 DEF Queue
    <3>4. QED
      BY <1>2, <1>3, <2>2, <2>4, <3>2, <3>3, AppendProperties
  <2>5. k = Used + 1 \/ k \in 1 .. Used
    BY <1>1, <1>4
  <2>6. QED
    BY <2>3, <2>4, <2>5
<1>5. Append(Queue, msg[i + 1]) \in Seq(Bytes) /\ Len(Append(Queue, msg[i + 1])) = Used + 1
  BY <1>2, <1>3, AppendProperties
<1>6. QED
  BY <1>2, <1>4, <1>5, SeqEqual

LEMMA QueueAfterTake ==
  ASSUME TxInv, TxInv', TxInterrupt, tx_in # tx_out
  PROVE  Queue = <<tx_buffer[tx_out]>> \o Queue'
<1>1. /\ TxTypeOK /\ TxTypeOK' /\ Used \in Nat /\ Used < BUF_SIZE /\ BUF_SIZE \in Nat /\ BUF_SIZE > 1
      /\ tx_in \in 0 .. BUF_SIZE - 1 /\ tx_out \in 0 .. BUF_SIZE - 1 /\ Used # 0
  <2>1. TxTypeOK /\ TxTypeOK' /\ BUF_SIZE \in Nat /\ BUF_SIZE > 1
    BY RingAssumption DEF TxInv
  <2>2. Used \in 0 .. BUF_SIZE - 1 /\ Used # 0
    BY <2>1, UsedIs
  <2>3. QED
    BY <2>1, <2>2 DEF TxTypeOK, Index
<1>2. tx_out' = IF tx_out = BUF_SIZE - 1 THEN 0 ELSE tx_out + 1
  <2>1. tx_out' = Succ(tx_out) /\ tx_out \in Index
    BY <1>1 DEF TxInterrupt, Index
  <2>2. QED
    BY <2>1, SuccIs
<1>3. tx_in' = tx_in /\ tx_buffer' = tx_buffer
  BY DEF TxInterrupt
<1>4. Used' = Used - 1
  BY <1>1, <1>2, <1>3 DEF Used
<1>5. /\ Queue \in Seq(Bytes) /\ Len(Queue) = Used
      /\ Queue' \in Seq(Bytes) /\ Len(Queue') = Used - 1
  <2>1. Queue \in Seq(Bytes) /\ Len(Queue) = Used
    BY <1>1, QueueIsSeq
  <2>2. Queue' \in Seq(Bytes) /\ Len(Queue') = Used'
    <3>1. (TxTypeOK => Queue \in Seq(Bytes) /\ Len(Queue) = Used)'
      BY QueueIsSeq, PTL
    <3>2. QED
      BY <1>1, <3>1
  <2>3. QED
    BY <1>4, <2>1, <2>2
<1> DEFINE first == <<tx_buffer[tx_out]>>
<1>6. first \in Seq(Bytes) /\ Len(first) = 1 /\ first[1] = tx_buffer[tx_out]
  BY <1>1 DEF TxTypeOK
<1>7. ASSUME NEW k \in 1 .. Used PROVE Queue[k] = (first \o Queue')[k]
  <2>1. CASE k = 1
    <3>1. (tx_out + (1 - 1)) % BUF_SIZE = tx_out
      <4>1. tx_out \in Index /\ 1 - 1 \in 0 .. BUF_SIZE
        BY <1>1 DEF Index
      <4>2. QED
        BY <1>1, <4>1, Wrap
    <3>2. Queue[1] = tx_buffer[tx_out]
      BY <1>7, <2>1, <3>1 DEF Queue
    <3>3. QED
      BY <1>1, <1>5, <1>6, <2>1, <3>2, ConcatProperties
  <2>2. CASE k \in 2 .. Used
    <3>1. (tx_out + (k - 1)) % BUF_SIZE
            = IF tx_out + (k - 1) < BUF_SIZE THEN tx_out + (k - 1) ELSE tx_out + (k - 1) - BUF_SIZE
      <4>1. tx_out \in Index /\ k - 1 \in 0 .. BUF_SIZE
        BY <1>1, <2>2 DEF Index
      <4>2. QED
        BY <4>1, Wrap
    <3>2. k - 1 \in 1 .. Used' /\ k - 1 - 1 \in 0 .. BUF_SIZE /\ tx_out' \in Index
      BY <1>1, <1>2, <1>4, <2>2 DEF Index
    <3>3. (tx_out' + (k - 1 - 1)) % BUF_SIZE
            = IF tx_out' + (k - 1 - 1) < BUF_SIZE THEN tx_out' + (k - 1 - 1) ELSE tx_out' + (k - 1 - 1) - BUF_SIZE
      BY <3>2, Wrap
    <3>4. (tx_out + (k - 1)) % BUF_SIZE = (tx_out' + (k - 1 - 1)) % BUF_SIZE
      BY <1>1, <1>2, <2>2, <3>1, <3>3
    <3>5. Queue'[k - 1] = tx_buffer[(tx_out' + (k - 1 - 1)) % BUF_SIZE]
      BY <1>3, <3>2 DEF Queue
    <3>6. Queue[k] = tx_buffer[(tx_out + (k - 1)) % BUF_SIZE]
      BY <2>2 DEF Queue
    <3>7. QED
      BY <1>5, <1>6, <2>2, <3>4, <3>5, <3>6, ConcatProperties
  <2>3. k = 1 \/ k \in 2 .. Used
    BY <1>1, <1>7
  <2>4. QED
    BY <2>1, <2>2, <2>3
<1>8. first \o Queue' \in Seq(Bytes) /\ Len(first \o Queue') = Used
  BY <1>1, <1>5, <1>6, ConcatProperties
<1>9. QED
  BY <1>5, <1>7, <1>8, SeqEqual

EndInv == spc \in {"idle", "end"} => i = Len(msg)

LEMMA InitEndInv == TxInit => EndInv
  BY DEF TxInit, EndInv

LEMMA NextEndInv == TxInv /\ EndInv /\ [TxNext]_tvars => EndInv'
<1> SUFFICES ASSUME TxInv, EndInv, [TxNext]_tvars PROVE EndInv'
  OBVIOUS
<1>1. CASE \E m \in Msgs : SendStart(m)
  BY <1>1 DEF SendStart, EndInv
<1>2. CASE SendPut
  <2>1. i \in Nat /\ Len(msg) \in Nat /\ i < Len(msg)
    BY <1>2 DEF TxInv, TxTypeOK, PlaceInv, SendPut
  <2>2. QED
    BY <1>2, <2>1 DEF SendPut, EndInv
<1>3. CASE SendWait \/ SendRoom \/ SendResume \/ SendEnd
  BY <1>3 DEF SendWait, SendRoom, SendResume, SendEnd, EndInv
<1>4. CASE TxInterrupt \/ Transmit \/ UNCHANGED tvars
  BY <1>4 DEF TxInterrupt, Transmit, tvars, send, EndInv
<1>5. QED
  BY <1>1, <1>2, <1>3, <1>4 DEF TxNext, SendStep

LEMMA PartsAreSeqs ==
  TxInv => Held \in Seq(Bytes) /\ Queue \in Seq(Bytes) /\ Rest \in Seq(Bytes) /\ Unsent = (Held \o Queue) \o Rest
<1> SUFFICES ASSUME TxInv
             PROVE Held \in Seq(Bytes) /\ Queue \in Seq(Bytes) /\ Rest \in Seq(Bytes) /\ Unsent = (Held \o Queue) \o Rest
  OBVIOUS
<1>1. Held \in Seq(Bytes)
  BY DEF TxInv, TxTypeOK, Held
<1>2. Queue \in Seq(Bytes)
  BY QueueIsSeq DEF TxInv
<1>3. Rest \in Seq(Bytes)
  <2>1. msg \in Seq(Bytes) /\ i + 1 \in Int /\ Len(msg) \in Int /\ i + 1 >= 1
    BY DEF TxInv, TxTypeOK
  <2>2. \A k \in i + 1 .. Len(msg) : msg[k] \in Bytes
    BY <2>1
  <2>3. QED
    BY <2>1, <2>2, SubSeqProperties DEF Rest
<1>4. QED
  BY <1>1, <1>2, <1>3 DEF Unsent, Held, Rest

LEMMA SlotsUnchanged ==
  ASSUME TxInv, TxInv', UNCHANGED ring
  PROVE  Queue' = Queue
  BY DEF ring, Queue, Used

LEMMA InitHandsNothing == TxInit => Unsent = <<>> /\ line = <<>>
<1> SUFFICES ASSUME TxInit PROVE Unsent = <<>> /\ line = <<>>
  OBVIOUS
<1>1. TxInv
  BY InitTxInv
<1>2. Held = <<>> /\ Rest = <<>>
  BY SubSeqEmpty DEF TxInit, Held, Rest
<1>3. Queue = <<>>
  <2>1. Used = 0
    BY DEF TxInit, Used
  <2>2. Queue \in Seq(Bytes) /\ Len(Queue) = 0
    BY <1>1, <2>1, QueueIsSeq DEF TxInv
  <2>3. QED
    BY <2>2, EmptySeq
<1>4. Unsent = (<<>> \o <<>>) \o <<>>
  BY <1>1, <1>2, <1>3, PartsAreSeqs
<1>5. QED
  BY <1>4 DEF TxInit

LEMMA StepOnLine ==
  ASSUME TxInv, TxInv', EndInv, [TxNext]_tvars
  PROVE  Out!Next \/ UNCHANGED <<Unsent, line>>
<1>0. /\ Held \in Seq(Bytes) /\ Queue \in Seq(Bytes) /\ Rest \in Seq(Bytes)
      /\ Unsent = (Held \o Queue) \o Rest
  BY PartsAreSeqs
<1>1. /\ Held' \in Seq(Bytes) /\ Queue' \in Seq(Bytes) /\ Rest' \in Seq(Bytes)
      /\ Unsent' = (Held' \o Queue') \o Rest'
  <2>1. (TxInv => Held \in Seq(Bytes) /\ Queue \in Seq(Bytes) /\ Rest \in Seq(Bytes) /\ Unsent = (Held \o Queue) \o Rest)'
    BY PartsAreSeqs, PTL
  <2>2. QED
    BY <2>1
<1>2. ASSUME NEW m \in Msgs, SendStart(m) PROVE Out!Hand
  <2>1. Held' = Held /\ line' = line
    BY <1>2 DEF SendStart, uart, Held
  <2>2. Queue' = Queue
    BY <1>2, SlotsUnchanged DEF SendStart
  <2>3. Rest = <<>>
    <3>1. i = Len(msg) /\ Len(msg) \in Int /\ Len(msg) + 1 \in Int
      BY <1>2 DEF SendStart, EndInv, TxInv, TxTypeOK
    <3>2. QED
      BY <3>1, SubSeqEmpty DEF Rest
  <2>4. Rest' = m
    <3>1. m \in Seq(Bytes) /\ msg' = m /\ i' = 0
      BY <1>2, MsgsAssumption DEF SendStart
    <3>2. QED
      BY <3>1, SubSeqFull DEF Rest
  <2>5. Held \o Queue \in Seq(Bytes)
    BY <1>0, ConcatProperties
  <2>6. Unsent = Held \o Queue
    BY <1>0, <2>3, <2>5, ConcatEmptySeq
  <2>7. Unsent' = Unsent \o m
    BY <1>1, <2>1, <2>2, <2>4, <2>6
  <2>8. QED
    BY <2>1, <2>7 DEF Out!Hand
<1>3. CASE SendPut
  <2> DEFINE b == msg[i + 1]
  <2>1. Held' = Held /\ line' = line
    BY <1>3 DEF SendPut, uart, Held
  <2>2. i + 1 \in 1 .. Len(msg) /\ Len(msg) \in i + 1 .. Len(msg) /\ msg \in Seq(Bytes) /\ b \in Bytes
    BY <1>3 DEF SendPut, TxInv, TxTypeOK, PlaceInv
  <2>3. <<b>> \in Seq(Bytes)
    BY <2>2
  <2>4. Queue' = Queue \o <<b>>
    <3>1. Queue' = Append(Queue, b)
      BY <1>3, QueueAfterPut
    <3>2. QED
      BY <1>0, <2>2, <3>1, AppendIsConcat
  <2>5. Rest = <<b>> \o Rest'
    <3>1. Rest = <<b>> \o SubSeq(msg, (i + 1) + 1, Len(msg))
      BY <2>2, SubSeqRecursiveFirst DEF Rest
    <3>2. msg' = msg /\ i' = i + 1
      BY <1>3 DEF SendPut
    <3>3. QED
      BY <3>1, <3>2 DEF Rest
  <2>6. Held \o (Queue \o <<b>>) = (Held \o Queue) \o <<b>>
    BY <1>0, <2>3, ConcatAssociative
  <2>7. ((Held \o Queue) \o <<b>>) \o Rest' = (Held \o Queue) \o (<<b>> \o Rest')
    <3>1. Held \o Queue \in Seq(Bytes)
      BY <1>0, ConcatProperties
    <3>2. Rest' \in Seq(Bytes)
      BY <1>1
    <3>3. QED
      BY <2>3, <3>1, <3>2, ConcatAssociative
  <2>8. Unsent' = Unsent
    BY <1>0, <1>1, <2>1, <2>4, <2>5, <2>6, <2>7
  <2>9. QED
    BY <2>1, <2>8
<1>4. CASE SendWait \/ SendRoom \/ SendResume \/ SendEnd \/ UNCHANGED tvars
  <2>1. UNCHANGED ring /\ UNCHANGED uart /\ UNCHANGED <<msg, i>>
    BY <1>4 DEF SendWait, SendRoom, SendResume, SendEnd, tvars, ring, uart, send
  <2>2. Queue' = Queue
    BY <2>1, SlotsUnchanged
  <2>3. Held' = Held /\ Rest' = Rest /\ line' = line
    BY <2>1 DEF Held, Rest, uart
  <2>4. QED
    BY <1>0, <1>1, <2>2, <2>3
<1>5. CASE TxInterrupt /\ tx_in # tx_out
  <2> DEFINE b == tx_buffer[tx_out]
  <2>1. Held = <<>> /\ Held' = <<b>> /\ line' = line /\ Rest' = Rest
    BY <1>5 DEF TxInterrupt, send, Held, Rest
  <2>2. Queue = <<b>> \o Queue'
    BY <1>5, QueueAfterTake
  <2>3. Held \o Queue = Queue
    BY <1>0, <2>1, ConcatEmptySeq
  <2>4. QED
    BY <1>0, <1>1, <2>1, <2>2, <2>3
<1>6. CASE TxInterrupt /\ tx_in = tx_out
  <2>1. UNCHANGED ring /\ UNCHANGED uart /\ UNCHANGED <<msg, i>>
    BY <1>6 DEF TxInterrupt, ring, uart, send
  <2>2. Queue' = Queue
    BY <2>1, SlotsUnchanged
  <2>3. Held' = Held /\ Rest' = Rest /\ line' = line
    BY <2>1 DEF Held, Rest, uart
  <2>4. QED
    BY <1>0, <1>1, <2>2, <2>3
<1>7. CASE Transmit
  <2>1. Held = <<dr>> /\ Held' = <<>> /\ line' = Append(line, dr) /\ Rest' = Rest
    BY <1>7 DEF Transmit, send, Held, Rest
  <2>2. Queue' = Queue
    BY <1>7, SlotsUnchanged DEF Transmit
  <2>3. Unsent' = Queue \o Rest
    BY <1>0, <1>1, <2>1, <2>2, ConcatEmptySeq
  <2>4. Unsent = <<dr>> \o (Queue \o Rest)
    BY <1>0, <2>1, ConcatAssociative
  <2>5. dr \in Bytes /\ Queue \o Rest \in Seq(Bytes)
    BY <1>0, ConcatProperties DEF TxInv, TxTypeOK
  <2>6. Unsent # <<>> /\ Head(Unsent) = dr /\ Tail(Unsent) = Queue \o Rest
    BY <2>4, <2>5
  <2>7. QED
    BY <2>1, <2>3, <2>6 DEF Out!Next, Out!Emit
<1>8. QED
  BY <1>2, <1>3, <1>4, <1>5, <1>6, <1>7 DEF TxNext, SendStep, Out!Next

\* The bytes leave in the order in which they were handed over, each once, for
\* any ring, any messages and any moment at which the interrupt comes.
THEOREM RingIsALine == TxSpec => BytesLeaveInOrder
<1>1. TxInit => Out!Init
  BY InitHandsNothing DEF Out!Init
<1>2. TxInv /\ TxInv' /\ EndInv /\ [TxNext]_tvars => [Out!Next]_<<Unsent, line>>
  BY StepOnLine
<1>3. TxSpec => [](TxInv /\ EndInv)
  BY InitTxInv, NextTxInv, InitEndInv, NextEndInv, PTL DEF TxSpec
<1>4. QED
  BY <1>1, <1>2, <1>3, PTL DEF TxSpec, BytesLeaveInOrder, Out!Spec
=============================================================================
