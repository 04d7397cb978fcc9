---------------------------- MODULE BoardProofs ----------------------------
(***************************************************************************)
(* What holds of the firmware's main loop for any bytes the host may send, *)
(* any losses and any moments at which interrupts and the button come.     *)
(***************************************************************************)
EXTENDS Board, SequenceTheorems, FiniteSetTheorems, TLAPS

\* A COMPUTE that parse_message_buf accepts holds two words.
LEMMA ComputeFields ==
  ASSUME NEW b \in Seq(Byte), Accepts(b), b[1] = MSG_COMPUTE
  PROVE  Fields(b)[1] \in Word16 /\ Fields(b)[2] \in Word16
<1>1. Len(b) = 6
  <2>1. MessageSize(MSG_COMPUTE) = 6
    BY DEF MessageSize, MSG_COMPUTE, MSG_COMPUTE_DATA, MSG_STARTUP, MSG_VERSION
  <2>2. QED
    BY <2>1 DEF Accepts
<1>2. b[2] \in Byte /\ b[3] \in Byte /\ b[4] \in Byte /\ b[5] \in Byte
  <2>1. b \in [1 .. Len(b) -> Byte]
    BY LenProperties
  <2>2. 2 \in 1 .. Len(b) /\ 3 \in 1 .. Len(b) /\ 4 \in 1 .. Len(b) /\ 5 \in 1 .. Len(b)
    BY <1>1
  <2>3. QED
    BY <2>1, <2>2
<1>3. ASSUME NEW hi \in Byte, NEW lo \in Byte PROVE Word(hi, lo) \in Word16
  <2>1. hi \in 0 .. 255 /\ lo \in 0 .. 255
    BY DEF Byte
  <2>2. hi * 256 + lo \in Nat /\ hi * 256 + lo <= 65535
    BY <2>1
  <2>3. Word(hi, lo) \in Nat /\ Word(hi, lo) <= UINT16_MAX /\ UINT16_MAX \in Nat
    BY <2>2 DEF Word, UINT16_MAX
  <2>4. QED
    BY <2>3 DEF Word16
<1> DEFINE p == SubSeq(b, 2, Len(b) - 1)
<1>4. p[1] = b[2] /\ p[2] = b[3] /\ p[3] = b[4] /\ p[4] = b[5]
  BY <1>1
<1>5. Fields(b) = <<Word(p[1], p[2]), Word(p[3], p[4])>>
  <2>1. MSG_COMPUTE # MSG_COMPUTE_DATA
    BY DEF MSG_COMPUTE, MSG_COMPUTE_DATA
  <2>2. QED
    BY <2>1 DEF Fields
<1>6. Word(p[1], p[2]) \in Word16 /\ Word(p[3], p[4]) \in Word16
  BY <1>2, <1>3, <1>4
<1>7. Fields(b)[1] = Word(p[1], p[2]) /\ Fields(b)[2] = Word(p[3], p[4])
  <2> HIDE DEF p
  <2>1. QED
    BY <1>5
<1>8. QED
  BY <1>6, <1>7

\* A task is computed only where there is one left.
LoopInv == bpc = "wait" => task_id < nbr_tasks

LEMMA InitBoardInv == BoardInit => BoardTypeOK /\ LoopInv
<1> SUFFICES ASSUME BoardInit PROVE BoardTypeOK /\ LoopInv
  OBVIOUS
<1>1. 0 \in Byte /\ 0 \in Word16 /\ 0 < BUF_SIZE
  BY BoardAssumption DEF Byte, Word16, UINT16_MAX
<1>2. <<>> \in Seq(Byte) /\ Len(<<>>) = 0
  OBVIOUS
<1>3. /\ wire \in Seq(Byte) /\ rx \in Seq(Byte) /\ Len(rx) < BUF_SIZE /\ buf \in Seq(Byte)
      /\ rdr \in Byte /\ chunk_id \in Word16 /\ nbr_tasks \in Word16 /\ task_id \in 0 .. nbr_tasks
  BY <1>1, <1>2 DEF BoardInit
<1>4. QED
  BY <1>3 DEF BoardInit, BoardTypeOK, LoopInv

LEMMA NextBoardInv == BoardTypeOK /\ LoopInv /\ [BoardNext]_bvars => (BoardTypeOK /\ LoopInv)'
<1> SUFFICES ASSUME BoardTypeOK, LoopInv, [BoardNext]_bvars PROVE BoardTypeOK' /\ LoopInv'
  OBVIOUS
<1> USE DEF BoardTypeOK, LoopInv
<1>1. ASSUME NEW c \in Commands, HostWrites(c) PROVE BoardTypeOK' /\ LoopInv'
  <2>1. wire \o c \in Seq(Byte)
    BY BoardAssumption, ConcatProperties
  <2>2. QED
    BY <1>1, <2>1 DEF HostWrites, computation
<1>2. CASE Arrive
  <2>1. Head(wire) \in Byte /\ Tail(wire) \in Seq(Byte)
    BY <1>2, HeadTailProperties DEF Arrive
  <2>2. QED
    BY <1>2, <2>1 DEF Arrive, computation, counts
<1>3. CASE Lose
  <2>1. Tail(wire) \in Seq(Byte)
    BY <1>3, HeadTailProperties DEF Lose
  <2>2. QED
    BY <1>3, <2>1 DEF Lose, computation
<1>4. CASE pressed
  BY <1>4 DEF pressed, computation
<1>5. CASE Awake
  BY <1>5 DEF Awake, computation, counts
<1>6. CASE Rx_interrupt
  <2>1. Append(rx, rdr) \in Seq(Byte) /\ Len(Append(rx, rdr)) = Len(rx) + 1
    BY AppendProperties
  <2>2. Len(rx) + 1 < BUF_SIZE
    BY <1>6, BoardAssumption DEF Rx_interrupt, RxFull
  <2>3. bpc' = Woken /\ (Woken = bpc \/ Woken \in {"loop", "late"})
    BY <1>6 DEF Rx_interrupt, Woken
  <2>4. QED
    BY <1>6, <2>1, <2>2, <2>3 DEF Rx_interrupt, computation, counts
<1>7. CASE Boot
  BY <1>7 DEF Boot, Flush, FlushGetc, StartUp, Quiet, line, counts, computation
<1>8. CASE Receives
  <2>1. CASE Receive
    BY <2>1, EmptySeq DEF Receive, Quiet, line, counts, computation
  <2>2. CASE ReceiveType \/ ReceiveByte
    <3>1. /\ Head(rx) \in Byte /\ Tail(rx) \in Seq(Byte) /\ Len(Tail(rx)) < BUF_SIZE
          /\ Append(buf, Head(rx)) \in Seq(Byte) /\ <<Head(rx)>> \in Seq(Byte)
      <4>1. Head(rx) \in Byte /\ Tail(rx) \in Seq(Byte) /\ Len(Tail(rx)) = Len(rx) - 1
        BY <2>2, HeadTailProperties DEF ReceiveType, ReceiveByte
      <4>2. Len(rx) - 1 < BUF_SIZE
        BY BoardAssumption
      <4>3. QED
        BY <4>1, <4>2, AppendProperties
    <3>2. CASE ReceiveType
      BY <3>1, <3>2 DEF ReceiveType, Quiet, line, counts, computation
    <3>3. CASE ReceiveByte
      BY <3>1, <3>3 DEF ReceiveByte, Quiet, line, counts, computation
    <3>4. QED
      BY <2>2, <3>2, <3>3
  <2>3. CASE ReceiveWait \/ ReceiveMore
    BY <2>3 DEF ReceiveWait, ReceiveMore, Quiet, line, counts, computation
  <2>4. QED
    BY <1>8, <2>1, <2>2, <2>3 DEF Receives
<1>9. CASE Handles
  <2>1. CASE HandleGetVersion \/ HandleOther \/ HandleError
    BY <2>1 DEF HandleGetVersion, HandleOther, HandleError, Handle, Quiet, line, counts, computation
  <2>2. CASE HandleAbort
    BY <2>2 DEF HandleAbort, Handle, Quiet, line, counts
  <2>3. CASE HandleCompute
    <3>1. chunk_id' \in Word16 /\ nbr_tasks' \in Word16
      BY <2>3, ComputeFields DEF HandleCompute, Handle
    <3>2. task_id' \in 0 .. nbr_tasks'
      <4>1. task_id' = 0 /\ nbr_tasks' \in Nat
        BY <2>3, <3>1 DEF HandleCompute, Word16
      <4>2. QED
        BY <4>1
    <3>3. QED
      BY <2>3, <3>1, <3>2 DEF HandleCompute, Handle, line, counts
  <2>4. QED
    BY <1>9, <2>1, <2>2, <2>3 DEF Handles
<1>10. CASE Computes
  <2>1. CASE Compute
    BY <2>1 DEF Compute, Quiet, line, counts, computation
  <2>2. CASE ComputeTask
    <3>1. task_id < nbr_tasks /\ task_id \in 0 .. nbr_tasks
      BY <2>2 DEF ComputeTask
    <3>2. nbr_tasks \in Nat /\ nbr_tasks <= UINT16_MAX /\ UINT16_MAX = 65535
      <4>1. UINT16_MAX = 65535
        BY DEF UINT16_MAX
      <4>2. UINT16_MAX \in Nat
        BY <4>1
      <4>3. nbr_tasks \in Nat /\ nbr_tasks <= UINT16_MAX
        BY <4>2 DEF Word16
      <4>4. QED
        BY <4>1, <4>3
    <3>3. (task_id + 1) % (UINT16_MAX + 1) = task_id + 1
      BY <3>1, <3>2
    <3>4. task_id' = task_id + 1 /\ nbr_tasks' = nbr_tasks
      BY <2>2, <3>3 DEF ComputeTask
    <3>5. task_id' \in 0 .. nbr_tasks'
      BY <3>1, <3>2, <3>4
    <3>6. QED
      BY <2>2, <3>5 DEF ComputeTask, Quiet, line, counts
  <2>3. CASE ComputeStop
    BY <2>3 DEF ComputeStop, Quiet, line, counts
  <2>4. CASE Idle \/ Sleep
    BY <2>4 DEF Idle, Sleep, Quiet, line, counts, computation
  <2>5. QED
    BY <1>10, <2>1, <2>2, <2>3, <2>4 DEF Computes
<1>11. CASE UNCHANGED bvars
  BY <1>11 DEF bvars, counts, computation
<1>12. QED
  BY <1>1, <1>2, <1>3, <1>4, <1>5, <1>6, <1>7, <1>8, <1>9, <1>10, <1>11 DEF BoardNext, MainRuns

\* The receive ring never overflows and no task is computed that was not asked
\* for, whatever commands, damaged or not, the board receives.
THEOREM BoardTypeCorrect == BoardSpec => []BoardTypeOK
<1>1. BoardSpec => [](BoardTypeOK /\ LoopInv)
  BY InitBoardInv, NextBoardInv, PTL DEF BoardSpec
<1>2. QED
  BY <1>1, PTL

LEMMA NextStolenInv ==
  ASSUME BoardTypeOK, OnlyStolenByteBlocks, [BoardNext]_bvars
  PROVE  OnlyStolenByteBlocks'
<1> USE DEF OnlyStolenByteBlocks
<1>1. CASE Rx_interrupt
  <2>1. Append(rx, rdr) # <<>>
    BY AppendProperties DEF BoardTypeOK
  <2>2. QED
    BY <1>1, <2>1 DEF Rx_interrupt
<1>2. CASE (\E c \in Commands : HostWrites(c)) \/ Arrive \/ Lose \/ pressed \/ Awake
  BY <1>2 DEF HostWrites, Arrive, Lose, pressed, Awake
<1>3. CASE Boot
  BY <1>3 DEF Boot, Flush, FlushGetc, StartUp, Quiet, line
<1>4. CASE Receives
  BY <1>4 DEF Receives, Receive, ReceiveType, ReceiveByte, ReceiveWait, ReceiveMore
<1>5. CASE Handles
  BY <1>5 DEF Handles, HandleGetVersion, HandleAbort, HandleCompute, HandleOther, HandleError, Handle
<1>6. CASE Computes
  BY <1>6 DEF Computes, Compute, ComputeTask, ComputeStop, Idle, Sleep
<1>7. CASE UNCHANGED bvars
  BY <1>7 DEF bvars
<1>8. QED
  BY <1>1, <1>2, <1>3, <1>4, <1>5, <1>6, <1>7 DEF BoardNext, MainRuns

\* The start of the board waits for a byte only when the one it was promised is
\* in the ring.
THEOREM StartWaitsForStolenByte == BoardSpec => []OnlyStolenByteBlocks
<1>1. BoardInit => OnlyStolenByteBlocks
  BY DEF BoardInit, OnlyStolenByteBlocks
<1>2. QED
  BY <1>1, BoardTypeCorrect, NextStolenInv, PTL DEF BoardSpec

-----------------------------------------------------------------------------
(* The main loop.                                                          *)

\* The interrupt is masked only while receive_message takes bytes; main() does
\* not fall asleep on a computation, nor on more than the one byte that came
\* between its test and the sleep, which the next byte then wakes it for.
Attentive ==
  /\ ~irq => bpc = "receive"
  /\ bpc = "doze" => rx = <<>>
  /\ bpc = "late" => Len(rx) = 1 /\ ~rxne
  /\ bpc = "asleep" => Len(rx) <= 1
  /\ bpc \in {"doze", "late", "asleep"} => ~computing

LEMMA NextAttentive ==
  ASSUME BoardTypeOK, Attentive, [BoardNext]_bvars
  PROVE  Attentive'
<1> USE DEF Attentive
<1>1. CASE Rx_interrupt
  <2>1. Len(Append(rx, rdr)) = Len(rx) + 1 /\ Len(rx) \in Nat
    BY AppendProperties DEF BoardTypeOK
  <2>2. bpc = "asleep" => bpc' = "loop"
    BY <1>1 DEF Rx_interrupt, Woken
  <2>3. bpc = "doze" => bpc' = "late" /\ Len(rx') = 1 /\ ~rxne'
    BY <1>1, <2>1 DEF Rx_interrupt, Woken
  <2>4. bpc # "late"
    BY <1>1 DEF Rx_interrupt
  <2>5. bpc \notin {"doze", "asleep"} => bpc' = bpc
    BY <1>1 DEF Rx_interrupt, Woken
  <2>6. UNCHANGED <<irq, computing>>
    BY <1>1 DEF Rx_interrupt, computation
  <2>7. CASE bpc = "asleep"
    BY <2>2, <2>6, <2>7
  <2>8. CASE bpc = "doze"
    BY <2>3, <2>6, <2>8
  <2>9. CASE bpc \notin {"doze", "asleep"}
    BY <2>4, <2>5, <2>6, <2>9
  <2>10. QED
    BY <2>7, <2>8, <2>9
<1>2. CASE (\E c \in Commands : HostWrites(c)) \/ Arrive \/ Lose \/ pressed \/ Awake
  BY <1>2 DEF HostWrites, Arrive, Lose, pressed, Awake, computation
<1>3. CASE Boot
  BY <1>3 DEF Boot, Flush, FlushGetc, StartUp, computation
<1>4. CASE Receives
  BY <1>4 DEF Receives, Receive, ReceiveType, ReceiveByte, ReceiveWait, ReceiveMore, computation
<1>5. CASE Handles
  BY <1>5 DEF Handles, HandleGetVersion, HandleAbort, HandleCompute, HandleOther, HandleError, Handle
<1>6. CASE Compute \/ ComputeTask \/ ComputeStop \/ Idle
  BY <1>6 DEF Compute, ComputeTask, ComputeStop, Idle, computation
<1>7. CASE Sleep
  BY <1>7 DEF Sleep, computation
<1>8. CASE UNCHANGED bvars
  BY <1>8 DEF bvars, computation
<1>9. QED
  BY <1>1, <1>2, <1>3, <1>4, <1>5, <1>6, <1>7, <1>8 DEF BoardNext, MainRuns, Computes

\* Whatever comes and whenever, main() sleeps on no whole command and on no
\* computation, and no wait of it keeps the interrupt out: what is safe of
\* EveryCommandAnswered and ComputationEnds.
THEOREM BoardAttends == BoardSpec => []Attentive
<1>1. BoardInit => Attentive
  BY DEF BoardInit, Attentive
<1>2. QED
  BY <1>1, BoardTypeCorrect, NextAttentive, PTL DEF BoardSpec

\* receive_message hands over whole messages of a known type.
WholeMessages ==
  /\ bpc \in {"receive", "await"} /\ buf # <<>> =>
       buf[1] \in KnownType /\ Len(buf) < MessageSize(buf[1])
  /\ bpc = "handle" => buf # <<>> /\ buf[1] \in KnownType /\ Len(buf) = MessageSize(buf[1])

LEMMA SizesAtLeastTwo ==
  ASSUME NEW type
  PROVE  MessageSize(type) \in Nat /\ MessageSize(type) >= 2
  BY DEF MessageSize, STARTUP_MSG_LEN, VersionLen

LEMMA NextWhole ==
  ASSUME BoardTypeOK, WholeMessages, [BoardNext]_bvars
  PROVE  WholeMessages'
<1> USE DEF WholeMessages
<1>1. CASE Rx_interrupt
  <2>1. UNCHANGED buf /\ (bpc' = bpc \/ bpc' \in {"loop", "late"})
    BY <1>1 DEF Rx_interrupt, Woken
  <2>2. QED
    BY <2>1
<1>2. CASE (\E c \in Commands : HostWrites(c)) \/ Arrive \/ Lose \/ pressed \/ Awake
  BY <1>2 DEF HostWrites, Arrive, Lose, pressed, Awake
<1>3. CASE Boot
  BY <1>3 DEF Boot, Flush, FlushGetc, StartUp
<1>4. CASE Receive \/ ReceiveWait \/ ReceiveMore
  BY <1>4 DEF Receive, ReceiveWait, ReceiveMore
<1>5. CASE ReceiveType
  <2>1. CASE Head(rx) \in KnownType
    <3>1. buf' = <<Head(rx)>> /\ bpc' = "receive"
      BY <1>5, <2>1 DEF ReceiveType
    <3>2. Len(buf') = 1 /\ buf'[1] = Head(rx)
      BY <3>1
    <3>3. QED
      BY <2>1, <3>1, <3>2, SizesAtLeastTwo
  <2>2. CASE Head(rx) \notin KnownType
    BY <1>5, <2>2 DEF ReceiveType
  <2>3. QED
    BY <2>1, <2>2
<1>6. CASE ReceiveByte
  <2>1. Head(rx) \in Byte
    BY <1>6 DEF ReceiveByte, BoardTypeOK
  <2>2. buf' = Append(buf, Head(rx)) /\ buf # <<>> /\ bpc = "receive"
    BY <1>6 DEF ReceiveByte
  <2>3. buf' # <<>> /\ buf'[1] = buf[1]
    BY <2>1, <2>2, AppendProperties DEF BoardTypeOK
  <2>4. \/ bpc' = "receive" /\ Len(buf') < MessageSize(buf[1])
        \/ bpc' = "handle" /\ Len(buf') = MessageSize(buf[1])
    BY <1>6 DEF ReceiveByte
  <2>5. QED
    BY <2>2, <2>3, <2>4
<1>7. CASE Handles
  BY <1>7 DEF Handles, HandleGetVersion, HandleAbort, HandleCompute, HandleOther, HandleError, Handle
<1>8. CASE Computes
  BY <1>8 DEF Computes, Compute, ComputeTask, ComputeStop, Idle, Sleep
<1>9. CASE UNCHANGED bvars
  BY <1>9 DEF bvars
<1>10. QED
  BY <1>1, <1>2, <1>3, <1>4, <1>5, <1>6, <1>7, <1>8, <1>9 DEF BoardNext, MainRuns, Receives

\* However the bytes come in, damaged or out of step, what receive_message
\* hands over has a known type and the length of that type: the board answers
\* MSG_ERROR for a wrong sum only.
THEOREM ReceivesWholeMessages == BoardSpec => []WholeMessages
<1>1. BoardInit => WholeMessages
  BY DEF BoardInit, WholeMessages
<1>2. QED
  BY <1>1, BoardTypeCorrect, NextWhole, PTL DEF BoardSpec

-----------------------------------------------------------------------------
(* The conversation.                                                       *)

\* What send_message is given.
Said == [type : KnownType, answers : Byte, fields : Seq(Word16), late : BOOLEAN]

Begins == {MSG_STARTUP, MSG_OK, MSG_DONE, MSG_ABORT}

\* The b-th of the messages s is the last before the k-th to begin or end something.
LastBegin(s, b, k) == /\ b \in 1 .. k - 1 /\ s[b].type \in Begins
                      /\ \A l \in b + 1 .. k - 1 : s[l].type \notin Begins
DataIn(s, b, k) == {l \in b .. k : s[l].type = MSG_COMPUTE_DATA}
LateData(s, k)  == s[k].type = MSG_COMPUTE_DATA /\ s[k].late

\* The k-th message fits the b-th, which began what it belongs to.
Fits(s, b, k) ==
  /\ s[k].type \in {MSG_COMPUTE_DATA, MSG_DONE, MSG_ABORT} => s[b].answers = MSG_COMPUTE
  /\ s[k].type = MSG_COMPUTE_DATA =>
       /\ s[k].fields = <<s[b].fields[1], Cardinality(DataIn(s, b, k))>>
       /\ Cardinality(DataIn(s, b, k)) <= s[b].fields[2]
  /\ s[k].type = MSG_DONE => Cardinality(DataIn(s, b, k)) = s[b].fields[2]

MakesSense(s) ==
  /\ s # <<>> => s[1].type = MSG_STARTUP
  /\ \A k \in 2 .. Len(s) : \E b \in 1 .. Len(s) : LastBegin(s, b, k) /\ Fits(s, b, k)

LatesApart(s) ==
  \A k, l \in 1 .. Len(s) : k < l /\ LateData(s, k) /\ LateData(s, l)
                              => \E b \in k + 1 .. l - 1 : s[b].type \in Begins

\* What the messages since the last that began something say of the computation.
InStep(b) ==
  /\ computing => /\ sent[b].answers = MSG_COMPUTE
                  /\ sent[b].fields = <<chunk_id, nbr_tasks>>
                  /\ Cardinality(DataIn(sent, b, Len(sent))) = task_id
  /\ (\E k \in b .. Len(sent) : LateData(sent, k)) => message_abort /\ bpc # "wait"

Current == \E b \in 1 .. Len(sent) : LastBegin(sent, b, Len(sent) + 1) /\ InStep(b)

TalkInv ==
  /\ sent \in Seq(Said)
  /\ bpc = "handle" => buf # <<>>
  /\ bpc \in {"wait", "stop"} => computing
  /\ bpc = "stop" => message_abort \/ task_id = nbr_tasks
  /\ Booting => sent = <<>> /\ ~computing
  /\ ~Booting => Current
  /\ MakesSense(sent) /\ LatesApart(sent)

LEMMA OneLastBegin ==
  ASSUME NEW s, NEW k \in Nat, NEW b, NEW c, LastBegin(s, b, k), LastBegin(s, c, k)
  PROVE  b = c
<1>1. b \in 1 .. k - 1 /\ c \in 1 .. k - 1
  BY DEF LastBegin
<1>2. ~(b < c)
  <2>1. b < c => c \in b + 1 .. k - 1
    BY <1>1
  <2>2. QED
    BY <2>1 DEF LastBegin
<1>3. ~(c < b)
  <2>1. c < b => b \in c + 1 .. k - 1
    BY <1>1
  <2>2. QED
    BY <2>1 DEF LastBegin
<1>4. QED
  BY <1>1, <1>2, <1>3

LEMMA BegunIs ==
  ASSUME NEW k \in Nat, NEW b, LastBegin(sent, b, k)
  PROVE  Begun(k) = b
<1>1. \E j \in 1 .. k - 1 : LastBegin(sent, j, k)
  BY DEF LastBegin
<1>2. Begun(k) = CHOOSE j \in 1 .. k - 1 : /\ sent[j].type \in Begins
                                           /\ \A l \in j + 1 .. k - 1 : ~(sent[l].type \in Begins)
  BY DEF Begun, Is, Begins
<1>3. LastBegin(sent, Begun(k), k)
  BY <1>1, <1>2 DEF LastBegin
<1>4. QED
  BY <1>3, OneLastBegin

LEMMA SaidAppended ==
  ASSUME NEW s \in Seq(Said), NEW m \in Said
  PROVE  /\ Append(s, m) \in Seq(Said) /\ Len(s) \in Nat
         /\ Len(Append(s, m)) = Len(s) + 1 /\ Append(s, m)[Len(s) + 1] = m
         /\ \A i \in 1 .. Len(s) : Append(s, m)[i] = s[i]
  OBVIOUS

LEMMA LastBeginKept ==
  ASSUME NEW s \in Seq(Said), NEW m \in Said, NEW k \in 1 .. Len(s) + 1, NEW b, LastBegin(s, b, k)
  PROVE  LastBegin(Append(s, m), b, k)
<1>1. b \in 1 .. k - 1 /\ \A l \in 1 .. k - 1 : Append(s, m)[l] = s[l]
  BY SaidAppended DEF LastBegin
<1>2. \A l \in b + 1 .. k - 1 : l \in 1 .. k - 1
  BY <1>1
<1>3. QED
  BY <1>1, <1>2 DEF LastBegin

LEMMA DataKept ==
  ASSUME NEW s \in Seq(Said), NEW m \in Said, NEW b \in 1 .. Len(s), NEW k \in 1 .. Len(s)
  PROVE  DataIn(Append(s, m), b, k) = DataIn(s, b, k)
<1>1. \A l \in b .. k : l \in 1 .. Len(s)
  BY SaidAppended
<1>2. QED
  BY <1>1, SaidAppended DEF DataIn

LEMMA DataCounted ==
  ASSUME NEW s \in Seq(Said), NEW m \in Said, NEW b \in 1 .. Len(s)
  PROVE  /\ Cardinality(DataIn(s, b, Len(s))) \in Nat
         /\ m.type = MSG_COMPUTE_DATA =>
              Cardinality(DataIn(Append(s, m), b, Len(s) + 1)) = Cardinality(DataIn(s, b, Len(s))) + 1
         /\ m.type # MSG_COMPUTE_DATA =>
              Cardinality(DataIn(Append(s, m), b, Len(s) + 1)) = Cardinality(DataIn(s, b, Len(s)))
<1> DEFINE t == Append(s, m)
           n == Len(s)
<1>1. n \in Nat /\ b \in 1 .. n
  BY SaidAppended
<1>2. IsFiniteSet(DataIn(s, b, n)) /\ Cardinality(DataIn(s, b, n)) \in Nat
  <2>1. IsFiniteSet(b .. n)
    BY <1>1, FS_Interval
  <2>2. DataIn(s, b, n) \subseteq b .. n
    BY DEF DataIn
  <2>3. QED
    BY <2>1, <2>2, FS_Subset, FS_CardinalityType
<1>3. \A l \in b .. n + 1 : (l \in 1 .. n /\ l \in b .. n) \/ l = n + 1
  BY <1>1
<1>4. \A l \in b .. n : l \in b .. n + 1 /\ l \in 1 .. n
  BY <1>1
<1>5. n + 1 \in b .. n + 1 /\ n + 1 \notin b .. n
  BY <1>1
<1>6. t[n + 1] = m /\ \A l \in 1 .. n : t[l] = s[l]
  BY SaidAppended
<1> HIDE DEF t, n
<1>7. CASE m.type = MSG_COMPUTE_DATA
  <2>1. DataIn(t, b, n + 1) = DataIn(s, b, n) \cup {n + 1} /\ n + 1 \notin DataIn(s, b, n)
    BY <1>3, <1>4, <1>5, <1>6, <1>7 DEF DataIn
  <2>2. Cardinality(DataIn(t, b, n + 1)) = Cardinality(DataIn(s, b, n)) + 1
    BY <1>2, <2>1, FS_AddElement
  <2>3. QED
    BY <1>2, <1>7, <2>2 DEF t, n
<1>8. CASE m.type # MSG_COMPUTE_DATA
  <2>1. DataIn(t, b, n + 1) = DataIn(s, b, n)
    BY <1>3, <1>4, <1>5, <1>6, <1>8 DEF DataIn
  <2>2. QED
    BY <1>2, <1>8, <2>1 DEF t, n
<1>9. QED
  BY <1>7, <1>8

\* What the history must say of a message that is sent.
LEMMA SenseKept ==
  ASSUME NEW s \in Seq(Said), s # <<>>, NEW m \in Said, MakesSense(s),
         NEW b \in 1 .. Len(s), LastBegin(s, b, Len(s) + 1), Fits(Append(s, m), b, Len(s) + 1)
  PROVE  MakesSense(Append(s, m))
<1> DEFINE t == Append(s, m)
           n == Len(s)
<1>1. n \in Nat /\ n # 0 /\ t \in Seq(Said) /\ Len(t) = n + 1 /\ \A i \in 1 .. n : t[i] = s[i]
  BY SaidAppended
<1>2. t # <<>> => t[1].type = MSG_STARTUP
  BY <1>1 DEF MakesSense
<1>3. ASSUME NEW k \in 2 .. Len(t)
      PROVE  \E c \in 1 .. Len(t) : LastBegin(t, c, k) /\ Fits(t, c, k)
  <2>1. CASE k = n + 1
    <3>1. LastBegin(t, b, k) /\ Fits(t, b, k)
      BY <1>1, <2>1, LastBeginKept
    <3>2. QED
      BY <1>1, <3>1
  <2>2. CASE k # n + 1
    <3>1. k \in 2 .. n /\ k \in 1 .. n
      BY <1>1, <2>2
    <3>2. PICK c \in 1 .. n : LastBegin(s, c, k) /\ Fits(s, c, k)
      BY <3>1 DEF MakesSense
    <3>3. LastBegin(t, c, k)
      <4>1. k \in 1 .. Len(s) + 1
        BY <1>1, <3>1
      <4>2. QED
        BY <3>2, <4>1, LastBeginKept
    <3>4. DataIn(t, c, k) = DataIn(s, c, k) /\ t[c] = s[c] /\ t[k] = s[k]
      BY <1>1, <3>1, DataKept
    <3>5. Fits(t, c, k)
      BY <3>2, <3>4 DEF Fits
    <3>6. QED
      BY <1>1, <3>3, <3>5
  <2>3. QED
    BY <2>1, <2>2
<1>4. QED
  BY <1>2, <1>3 DEF MakesSense

LEMMA ApartKept ==
  ASSUME NEW s \in Seq(Said), NEW m \in Said, LatesApart(s),
         LateData(Append(s, m), Len(s) + 1) =>
           \A k \in 1 .. Len(s) : LateData(s, k) => \E b \in k + 1 .. Len(s) : s[b].type \in Begins
  PROVE  LatesApart(Append(s, m))
<1> DEFINE t == Append(s, m)
           n == Len(s)
<1>1. n \in Nat /\ Len(t) = n + 1 /\ \A i \in 1 .. n : t[i] = s[i]
  BY SaidAppended
<1> SUFFICES ASSUME NEW k \in 1 .. n + 1, NEW l \in 1 .. n + 1, k < l, LateData(t, k), LateData(t, l)
             PROVE  \E b \in k + 1 .. l - 1 : t[b].type \in Begins
  BY <1>1 DEF LatesApart
<1>2. k \in 1 .. n /\ LateData(s, k)
  BY <1>1 DEF LateData
<1>3. \E b \in k + 1 .. l - 1 : s[b].type \in Begins
  <2>1. CASE l = n + 1
    BY <1>1, <1>2, <2>1
  <2>2. CASE l # n + 1
    <3>1. l \in 1 .. n /\ LateData(s, l)
      BY <1>1, <2>2 DEF LateData
    <3>2. QED
      BY <1>2, <3>1 DEF LatesApart
  <2>3. QED
    BY <2>1, <2>2
<1>4. \A b \in k + 1 .. l - 1 : b \in 1 .. n
  BY <1>1
<1>5. QED
  BY <1>1, <1>3, <1>4

\* A step that sends nothing.
LEMMA SilentTalk ==
  ASSUME TalkInv, UNCHANGED <<sent, computation>>,
         message_abort => message_abort',
         Booting' <=> Booting,
         bpc' = "handle" => buf' # <<>>,
         bpc' = "wait" => bpc = "wait" \/ (computing /\ ~message_abort),
         bpc' = "stop" => bpc = "stop" \/ (computing /\ (message_abort \/ task_id = nbr_tasks))
  PROVE  TalkInv'
<1>1. UNCHANGED <<sent, computing, chunk_id, nbr_tasks, task_id>>
  BY DEF computation
<1>2. Current => Current'
  BY <1>1 DEF Current, InStep, TalkInv
<1>3. QED
  BY <1>1, <1>2 DEF TalkInv

\* A step that says something about the running computation, or beside it.
LEMMA SentInStep ==
  ASSUME TalkInv, ~Booting, NEW m \in Said, sent' = Append(sent, m), m.type \notin Begins,
         NEW b \in 1 .. Len(sent), LastBegin(sent, b, Len(sent) + 1), InStep(b),
         Fits(sent', b, Len(sent) + 1),
         UNCHANGED <<computing, chunk_id, nbr_tasks, message_abort>>, bpc' = "loop",
         task_id' = IF m.type = MSG_COMPUTE_DATA THEN task_id + 1 ELSE task_id,
         m.type = MSG_COMPUTE_DATA => bpc = "wait" /\ m.late = message_abort
  PROVE  TalkInv'
<1> DEFINE n == Len(sent)
<1>1. /\ sent \in Seq(Said) /\ n \in Nat /\ sent' \in Seq(Said) /\ Len(sent') = n + 1 /\ sent'[n + 1] = m
      /\ \A i \in 1 .. n : sent'[i] = sent[i]
  BY SaidAppended DEF TalkInv
<1>2. sent # <<>> /\ MakesSense(sent) /\ LatesApart(sent)
  BY <1>1 DEF TalkInv
<1>3. MakesSense(sent')
  BY <1>1, <1>2, SenseKept
<1>4. LateData(sent', n + 1) => \A k \in b .. n : ~LateData(sent, k)
  BY <1>1 DEF InStep, LateData
<1>5. LatesApart(sent')
  <2>1. ASSUME LateData(sent', n + 1), NEW k \in 1 .. n, LateData(sent, k)
        PROVE  \E c \in k + 1 .. n : sent[c].type \in Begins
    <3>1. k < b
      BY <1>1, <1>4, <2>1
    <3>2. b \in k + 1 .. n /\ sent[b].type \in Begins
      BY <1>1, <3>1 DEF LastBegin
    <3>3. QED
      BY <3>2
  <2>2. QED
    BY <1>1, <1>2, <2>1, ApartKept
<1>6. LastBegin(sent', b, n + 2)
  <2>1. LastBegin(sent', b, n + 1)
    BY <1>1, LastBeginKept
  <2>2. \A l \in b + 1 .. n + 2 - 1 : l \in b + 1 .. n + 1 - 1 \/ l = n + 1
    BY <1>1
  <2>3. b \in 1 .. n + 2 - 1
    BY <1>1
  <2>4. QED
    BY <1>1, <2>1, <2>2, <2>3 DEF LastBegin
<1>7. InStep(b)'
  <2>1. computing => Cardinality(DataIn(sent', b, n + 1)) = task_id'
    BY <1>1, DataCounted DEF InStep
  <2>2. sent'[b] = sent[b]
    BY <1>1
  <2>3. (\E k \in b .. n + 1 : LateData(sent', k)) => message_abort
    <3>1. \A k \in b .. n + 1 : (k \in b .. n /\ sent'[k] = sent[k]) \/ k = n + 1
      BY <1>1
    <3>2. LateData(sent', n + 1) => message_abort
      BY <1>1 DEF LateData
    <3>3. QED
      BY <3>1, <3>2 DEF InStep, LateData
  <2>4. Len(sent') = n + 1
    BY <1>1
  <2> HIDE DEF n
  <2>5. QED
    BY <2>1, <2>2, <2>3, <2>4 DEF InStep
<1>8. Current'
  <2>1. b \in 1 .. n + 1 /\ (n + 1) + 1 = n + 2
    BY <1>1
  <2>2. QED
    BY <1>1, <1>6, <1>7, <2>1 DEF Current
<1>9. QED
  BY <1>1, <1>3, <1>5, <1>8 DEF TalkInv, Booting

\* A step that sends a message which begins or ends something.
LEMMA SentBegin ==
  ASSUME TalkInv, ~Booting, NEW m \in Said, sent' = Append(sent, m), m.type \in Begins,
         NEW b \in 1 .. Len(sent), LastBegin(sent, b, Len(sent) + 1),
         Fits(sent', b, Len(sent) + 1), bpc' = "loop",
         computing' => m.answers = MSG_COMPUTE /\ m.fields = <<chunk_id, nbr_tasks>>' /\ task_id' = 0
  PROVE  TalkInv'
<1> DEFINE n == Len(sent)
<1>1. /\ sent \in Seq(Said) /\ n \in Nat /\ sent' \in Seq(Said) /\ Len(sent') = n + 1 /\ sent'[n + 1] = m
  BY SaidAppended DEF TalkInv
<1>2. sent # <<>> /\ MakesSense(sent) /\ LatesApart(sent)
  BY <1>1 DEF TalkInv
<1>3. MakesSense(sent')
  BY <1>1, <1>2, SenseKept
<1>4. m.type # MSG_COMPUTE_DATA
  BY DEF Begins, MSG_STARTUP, MSG_OK, MSG_DONE, MSG_ABORT, MSG_COMPUTE_DATA
<1>5. LatesApart(sent')
  BY <1>1, <1>2, <1>4, ApartKept DEF LateData
<1>6. PICK c \in Nat : c = n + 1
  BY <1>1
<1>7. InStep(c)'
  <2>1. \A l \in c .. c : l = c
    BY <1>6
  <2>2. DataIn(sent', c, c) = {}
    BY <1>1, <1>4, <1>6, <2>1 DEF DataIn
  <2>3. Cardinality(DataIn(sent', c, c)) = 0
    BY <2>2, FS_EmptySet
  <2>4. \A k \in c .. c : ~LateData(sent', k)
    BY <1>1, <1>4, <1>6, <2>1 DEF LateData
  <2>5. Len(sent') = c /\ sent'[c] = m
    BY <1>1, <1>6
  <2> HIDE DEF n
  <2>6. QED
    BY <2>3, <2>4, <2>5 DEF InStep
<1>8. Current'
  <2>1. c \in 1 .. Len(sent') /\ LastBegin(sent', c, Len(sent') + 1)
    BY <1>1, <1>6 DEF LastBegin
  <2>2. QED
    BY <1>7, <2>1 DEF Current
<1>9. QED
  BY <1>1, <1>3, <1>5, <1>8 DEF TalkInv, Booting

LEMMA InitTalkInv == BoardInit => TalkInv
<1> SUFFICES ASSUME BoardInit PROVE TalkInv
  OBVIOUS
<1>1. sent = <<>> /\ sent \in Seq(Said) /\ Len(sent) = 0
  BY DEF BoardInit
<1>2. MakesSense(sent) /\ LatesApart(sent)
  BY <1>1 DEF MakesSense, LatesApart
<1>3. QED
  BY <1>1, <1>2 DEF BoardInit, TalkInv, Booting

\* The types of messages are what they are: different.
LEMMA TypesDiffer ==
  /\ MSG_VERSION \notin Begins /\ MSG_ERROR \notin Begins /\ MSG_COMPUTE_DATA \notin Begins
  /\ MSG_OK \in Begins /\ MSG_ABORT \in Begins /\ MSG_DONE \in Begins /\ MSG_STARTUP \in Begins
  /\ MSG_VERSION \notin {MSG_COMPUTE_DATA, MSG_DONE, MSG_ABORT}
  /\ MSG_ERROR \notin {MSG_COMPUTE_DATA, MSG_DONE, MSG_ABORT}
  /\ MSG_OK \notin {MSG_COMPUTE_DATA, MSG_DONE, MSG_ABORT}
  /\ MSG_COMPUTE_DATA \notin {MSG_DONE, MSG_ABORT} /\ MSG_DONE # MSG_ABORT
  /\ {MSG_VERSION, MSG_ERROR, MSG_OK, MSG_ABORT, MSG_DONE, MSG_STARTUP, MSG_COMPUTE_DATA} \subseteq KnownType
  /\ {Nobody, MSG_GET_VERSION, MSG_ABORT, MSG_COMPUTE} \subseteq Byte
  BY DEF Begins, MSG_VERSION, MSG_ERROR, MSG_COMPUTE_DATA, MSG_OK, MSG_ABORT, MSG_DONE, MSG_STARTUP,
         MSG_GET_VERSION, MSG_COMPUTE, Nobody, MSG_NBR, KnownType, Byte

LEMMA StartUpTalk == BoardTypeOK /\ TalkInv /\ StartUp => TalkInv'
<1> SUFFICES ASSUME BoardTypeOK, TalkInv, StartUp PROVE TalkInv'
  OBVIOUS
<1> DEFINE m == [type |-> MSG_STARTUP, answers |-> Nobody, fields |-> <<>>, late |-> message_abort]
<1>1. /\ sent = <<>> /\ ~computing /\ bpc' = "loop" /\ sent' = Append(sent, m)
      /\ UNCHANGED <<computing, message_abort>>
  BY DEF TalkInv, StartUp, Booting, Send, SendAs, Quiet, computation
<1>2. m \in Said
  BY TypesDiffer DEF Said, BoardTypeOK
<1>3. sent' \in Seq(Said) /\ Len(sent') = 1 /\ sent'[1] = m
  BY <1>1, <1>2
<1> HIDE DEF m
<1>4. sent'[1].type = MSG_STARTUP
  BY <1>3 DEF m
<1>5. MakesSense(sent')
  BY <1>3, <1>4 DEF MakesSense
<1>6. LatesApart(sent')
  BY <1>3 DEF LatesApart
<1>7. ~LateData(sent', 1)
  BY <1>4, TypesDiffer DEF LateData
<1>8. InStep(1)'
  <2>1. \A k \in 1 .. 1 : k = 1
    OBVIOUS
  <2>2. QED
    BY <1>1, <1>3, <1>7, <2>1 DEF InStep
<1>9. Current'
  <2>1. LastBegin(sent', 1, 2)
    BY <1>4, TypesDiffer DEF LastBegin
  <2>2. QED
    BY <1>3, <1>8, <2>1 DEF Current
<1>10. QED
  BY <1>1, <1>3, <1>5, <1>6, <1>9 DEF TalkInv, Booting

LEMMA HandlesTalk == BoardTypeOK /\ TalkInv /\ Handles => TalkInv'
<1> SUFFICES ASSUME BoardTypeOK, TalkInv, Handles PROVE TalkInv'
  OBVIOUS
<1>1. /\ bpc = "handle" /\ bpc' = "loop" /\ ~Booting /\ ~Booting' /\ buf # <<>> /\ buf[1] \in Byte
      /\ message_abort \in BOOLEAN /\ sent \in Seq(Said)
  BY DEF Handles, HandleGetVersion, HandleAbort, HandleCompute, HandleOther, HandleError, Handle,
         BoardTypeOK, TalkInv, Booting
<1>2. PICK b \in 1 .. Len(sent) : LastBegin(sent, b, Len(sent) + 1) /\ InStep(b)
  BY <1>1 DEF TalkInv, Current
<1> DEFINE m(type, command, fields) ==
             [type |-> type, answers |-> command, fields |-> fields, late |-> message_abort]
<1>3. ASSUME NEW ty \in KnownType, NEW command \in Byte, NEW fields \in Seq(Word16),
             ty \notin {MSG_COMPUTE_DATA, MSG_DONE, MSG_ABORT}
      PROVE  /\ m(ty, command, fields) \in Said
             /\ Fits(Append(sent, m(ty, command, fields)), b, Len(sent) + 1)
  <2>1. m(ty, command, fields) \in Said
    BY <1>1, <1>3 DEF Said
  <2>2. Append(sent, m(ty, command, fields))[Len(sent) + 1] = m(ty, command, fields)
    BY <1>1, <2>1, SaidAppended
  <2>3. QED
    BY <1>3, <2>1, <2>2 DEF Fits
<1> <<>> \in Seq(Word16)
  OBVIOUS
<1>4. CASE HandleOther
  BY <1>1, <1>4, SilentTalk DEF HandleOther, Quiet
<1>5. ASSUME NEW ty \in {MSG_VERSION, MSG_ERROR}, NEW command \in Byte,
             SendAs(ty, command, <<>>), UNCHANGED <<computation, message_abort>>
      PROVE  TalkInv'
  <2>1. /\ ty \in KnownType /\ ty \notin {MSG_COMPUTE_DATA, MSG_DONE, MSG_ABORT} /\ ty \notin Begins
        /\ ty # MSG_COMPUTE_DATA
    BY TypesDiffer
  <2>2. sent' = Append(sent, m(ty, command, <<>>))
    BY <1>5 DEF SendAs
  <2>3. m(ty, command, <<>>) \in Said /\ Fits(sent', b, Len(sent) + 1)
    BY <1>3, <2>1, <2>2
  <2>4. PICK x \in Said : x = m(ty, command, <<>>)
    BY <2>3
  <2>5. x.type = ty
    BY <2>4
  <2> HIDE DEF m
  <2>6. sent' = Append(sent, x) /\ UNCHANGED <<computing, chunk_id, nbr_tasks, task_id, message_abort>>
    BY <1>5, <2>2, <2>4 DEF computation
  <2>7. QED
    BY <1>1, <1>2, <2>1, <2>3, <2>5, <2>6, SentInStep
<1>6. CASE HandleGetVersion
  BY <1>5, <1>6, TypesDiffer DEF HandleGetVersion, Quiet
<1>7. CASE HandleError
  BY <1>1, <1>5, <1>7 DEF HandleError, Quiet
<1>8. ASSUME NEW command \in Byte, NEW fields \in Seq(Word16), SendAs(MSG_OK, command, fields),
             computing' => command = MSG_COMPUTE /\ fields = <<chunk_id', nbr_tasks'>> /\ task_id' = 0
      PROVE  TalkInv'
  <2>1. MSG_OK \in KnownType /\ MSG_OK \notin {MSG_COMPUTE_DATA, MSG_DONE, MSG_ABORT} /\ MSG_OK \in Begins
    BY TypesDiffer
  <2>2. sent' = Append(sent, m(MSG_OK, command, fields))
    BY <1>8 DEF SendAs
  <2>3. m(MSG_OK, command, fields) \in Said /\ Fits(sent', b, Len(sent) + 1)
    BY <1>3, <2>1, <2>2
  <2>4. PICK x \in Said : x = m(MSG_OK, command, fields)
    BY <2>3
  <2>5. x.type = MSG_OK /\ x.answers = command /\ x.fields = fields
    BY <2>4
  <2> HIDE DEF m
  <2>6. sent' = Append(sent, x)
    BY <2>2, <2>4
  <2>7. QED
    BY <1>1, <1>2, <1>8, <2>1, <2>3, <2>5, <2>6, SentBegin
<1>9. CASE HandleAbort
  BY <1>8, <1>9, TypesDiffer DEF HandleAbort
<1>10. CASE HandleCompute
  <2>1. chunk_id' \in Word16 /\ nbr_tasks' \in Word16
    BY <1>10, ComputeFields DEF HandleCompute, Handle, BoardTypeOK
  <2>2. <<chunk_id', nbr_tasks'>> \in Seq(Word16)
    BY <2>1
  <2>3. MSG_COMPUTE \in Byte
    BY TypesDiffer
  <2>4. QED
    BY <1>8, <1>10, <2>2, <2>3 DEF HandleCompute
<1>11. QED
  BY <1>4, <1>6, <1>7, <1>9, <1>10 DEF Handles

LEMMA TaskCounted ==
  ASSUME BoardTypeOK, LoopInv, ComputeTask
  PROVE  task_id' = task_id + 1 /\ task_id + 1 \in Word16 /\ task_id + 1 <= nbr_tasks
<1>1. UINT16_MAX = 65535
  BY DEF UINT16_MAX
<1>2. task_id < nbr_tasks /\ task_id \in 0 .. nbr_tasks /\ nbr_tasks \in Nat /\ nbr_tasks <= 65535
  <2>1. bpc = "wait" /\ nbr_tasks \in Word16 /\ task_id \in 0 .. nbr_tasks
    BY DEF ComputeTask, BoardTypeOK
  <2>2. UINT16_MAX \in Nat
    BY <1>1
  <2>3. nbr_tasks \in Nat /\ nbr_tasks <= UINT16_MAX
    BY <2>1, <2>2 DEF Word16
  <2>4. QED
    BY <1>1, <2>1, <2>3 DEF LoopInv
<1>3. task_id + 1 \in Nat /\ task_id + 1 <= 65535 /\ task_id + 1 <= nbr_tasks
  BY <1>2
<1>4. (task_id + 1) % (UINT16_MAX + 1) = task_id + 1 /\ task_id + 1 \in Word16
  <2>1. (task_id + 1) % (65535 + 1) = task_id + 1
    BY <1>3
  <2>2. UINT16_MAX \in Nat /\ task_id + 1 \in Nat /\ task_id + 1 <= UINT16_MAX
    BY <1>1, <1>3
  <2>3. task_id + 1 \in Word16
    BY <2>2 DEF Word16
  <2>4. QED
    BY <1>1, <2>1, <2>3
<1>5. QED
  BY <1>3, <1>4 DEF ComputeTask

LEMMA TaskTalk == BoardTypeOK /\ LoopInv /\ TalkInv /\ ComputeTask => TalkInv'
<1> SUFFICES ASSUME BoardTypeOK, LoopInv, TalkInv, ComputeTask PROVE TalkInv'
  OBVIOUS
<1>1. /\ bpc = "wait" /\ bpc' = "loop" /\ ~Booting /\ computing
      /\ UNCHANGED <<computing, chunk_id, nbr_tasks, message_abort>>
      /\ message_abort \in BOOLEAN /\ sent \in Seq(Said) /\ chunk_id \in Word16
  BY DEF ComputeTask, Quiet, TalkInv, Booting, BoardTypeOK
<1>2. task_id' = task_id + 1 /\ task_id + 1 \in Word16 /\ task_id + 1 <= nbr_tasks
  BY TaskCounted
<1>3. PICK b \in 1 .. Len(sent) : LastBegin(sent, b, Len(sent) + 1) /\ InStep(b)
  BY <1>1 DEF TalkInv, Current
<1> DEFINE m == [type |-> MSG_COMPUTE_DATA, answers |-> Nobody, fields |-> <<chunk_id, task_id + 1>>,
                 late |-> message_abort]
<1>4. sent' = Append(sent, m)
  BY <1>2 DEF ComputeTask, SendAs
<1>5. m \in Said
  <2>1. <<chunk_id, task_id + 1>> \in Seq(Word16)
    BY <1>1, <1>2
  <2>2. QED
    BY <1>1, <2>1, TypesDiffer DEF Said
<1>6. PICK x \in Said : /\ x = m /\ x.type = MSG_COMPUTE_DATA /\ x.fields = <<chunk_id, task_id + 1>>
                        /\ x.late = message_abort
  BY <1>5
<1> HIDE DEF m
<1>7. sent' = Append(sent, x) /\ x.type \notin Begins
  BY <1>4, <1>6, TypesDiffer
<1>8. Fits(sent', b, Len(sent) + 1)
  <2>1. sent'[Len(sent) + 1] = x /\ sent'[b] = sent[b]
    BY <1>1, <1>7, SaidAppended
  <2>2. sent[b].answers = MSG_COMPUTE /\ sent[b].fields = <<chunk_id, nbr_tasks>>
    BY <1>1, <1>3 DEF InStep
  <2>3. Cardinality(DataIn(sent', b, Len(sent) + 1)) = task_id + 1
    BY <1>1, <1>3, <1>6, <1>7, DataCounted DEF InStep
  <2>4. QED
    BY <1>2, <1>6, <2>1, <2>2, <2>3, TypesDiffer DEF Fits
<1>9. QED
  BY <1>1, <1>2, <1>3, <1>6, <1>7, <1>8, SentInStep

LEMMA StopTalk == BoardTypeOK /\ TalkInv /\ ComputeStop => TalkInv'
<1> SUFFICES ASSUME BoardTypeOK, TalkInv, ComputeStop PROVE TalkInv'
  OBVIOUS
<1>1. /\ bpc = "stop" /\ bpc' = "loop" /\ ~Booting /\ computing /\ ~computing'
      /\ message_abort \in BOOLEAN /\ sent \in Seq(Said) /\ (message_abort \/ task_id = nbr_tasks)
  BY DEF ComputeStop, TalkInv, Booting, BoardTypeOK
<1>2. PICK b \in 1 .. Len(sent) : LastBegin(sent, b, Len(sent) + 1) /\ InStep(b)
  BY <1>1 DEF TalkInv, Current
<1> DEFINE m == [type |-> IF message_abort THEN MSG_ABORT ELSE MSG_DONE, answers |-> Nobody,
                 fields |-> <<>>, late |-> message_abort]
<1>3. sent' = Append(sent, m)
  BY DEF ComputeStop, Send, SendAs
<1>4. m \in Said
  BY <1>1, TypesDiffer DEF Said
<1>5. PICK x \in Said : x = m /\ x.type = IF message_abort THEN MSG_ABORT ELSE MSG_DONE
  BY <1>4
<1> HIDE DEF m
<1>6. sent' = Append(sent, x) /\ x.type \in Begins /\ x.type # MSG_COMPUTE_DATA
  BY <1>3, <1>5, TypesDiffer
<1>7. Fits(sent', b, Len(sent) + 1)
  <2>1. sent'[Len(sent) + 1] = x /\ sent'[b] = sent[b]
    BY <1>1, <1>6, SaidAppended
  <2>2. sent[b].answers = MSG_COMPUTE /\ sent[b].fields = <<chunk_id, nbr_tasks>>
    BY <1>1, <1>2 DEF InStep
  <2>3. Cardinality(DataIn(sent', b, Len(sent) + 1)) = task_id
    BY <1>1, <1>2, <1>6, DataCounted DEF InStep
  <2>4. x.type = MSG_DONE => task_id = nbr_tasks
    BY <1>1, <1>5, TypesDiffer
  <2>5. QED
    BY <1>6, <2>1, <2>2, <2>3, <2>4 DEF Fits
<1>8. QED
  BY <1>1, <1>2, <1>6, <1>7, SentBegin

LEMMA NextTalkInv == BoardTypeOK /\ LoopInv /\ TalkInv /\ [BoardNext]_bvars => TalkInv'
<1> SUFFICES ASSUME BoardTypeOK, LoopInv, TalkInv, [BoardNext]_bvars PROVE TalkInv'
  OBVIOUS
<1>1. CASE (\E c \in Commands : HostWrites(c)) \/ Arrive \/ Lose \/ pressed \/ Awake \/ Rx_interrupt
           \/ UNCHANGED bvars
  <2>1. /\ UNCHANGED <<sent, computation>> /\ buf' = buf /\ (message_abort => message_abort')
        /\ bpc' = bpc \/ (bpc = "asleep" /\ bpc' = "loop") \/ (bpc = "doze" /\ bpc' = "late")
    <3>1. ASSUME NEW c \in Commands, HostWrites(c)
          PROVE  UNCHANGED <<sent, computation>> /\ buf' = buf /\ message_abort' = message_abort /\ bpc' = bpc
      BY <3>1 DEF HostWrites
    <3>2. CASE Arrive \/ Lose \/ UNCHANGED bvars
      BY <3>2 DEF Arrive, Lose, bvars
    <3>3. CASE pressed \/ Awake
      BY <3>3 DEF pressed, Awake
    <3>4. CASE Rx_interrupt
      BY <3>4 DEF Rx_interrupt, Woken
    <3>5. QED
      BY <1>1, <3>1, <3>2, <3>3, <3>4
  <2>2. Booting' <=> Booting
    BY <2>1 DEF Booting
  <2>3. bpc' = "handle" => buf' # <<>>
    BY <2>1 DEF TalkInv
  <2>4. (bpc' = "wait" => bpc = "wait") /\ (bpc' = "stop" => bpc = "stop")
    <3>1. bpc' = bpc \/ bpc' \in {"loop", "late"}
      BY <2>1
    <3>2. QED
      BY <3>1
  <2>5. QED
    BY <2>1, <2>2, <2>3, <2>4, SilentTalk
<1>2. CASE Flush \/ FlushGetc
  BY <1>2, SilentTalk DEF Flush, FlushGetc, Quiet, Booting
<1>3. CASE StartUp
  BY <1>3, StartUpTalk
<1>4. CASE Receives
  <2>1. CASE ReceiveByte
    <3>1. buf \in Seq(Byte) /\ rx \in Seq(Byte) /\ rx # <<>> /\ buf' = Append(buf, Head(rx))
      BY <2>1 DEF ReceiveByte, BoardTypeOK
    <3>2. Head(rx) \in Byte
      BY <3>1
    <3>3. Len(buf') = Len(buf) + 1 /\ Len(buf) \in Nat
      BY <3>1, <3>2
    <3>4. buf' # <<>>
      BY <3>3
    <3>5. QED
      BY <2>1, <3>4, SilentTalk DEF ReceiveByte, Quiet, Booting
  <2>2. CASE Receive \/ ReceiveType \/ ReceiveWait \/ ReceiveMore
    BY <2>2, SilentTalk DEF Receive, ReceiveType, ReceiveWait, ReceiveMore, Quiet, Booting
  <2>3. QED
    BY <1>4, <2>1, <2>2 DEF Receives
<1>5. CASE Handles
  BY <1>5, HandlesTalk
<1>6. CASE Compute
  <2>1. bpc' = "stop" => message_abort \/ task_id = nbr_tasks
    <3>1. task_id \in 0 .. nbr_tasks /\ nbr_tasks \in Nat
      <4>1. UINT16_MAX \in Nat
        BY DEF UINT16_MAX
      <4>2. QED
        BY <4>1 DEF BoardTypeOK, Word16
    <3>2. QED
      BY <1>6, <3>1 DEF Compute
  <2>2. QED
    BY <1>6, <2>1, SilentTalk DEF Compute, Quiet, Booting
<1>7. CASE ComputeTask
  BY <1>7, TaskTalk
<1>8. CASE ComputeStop
  BY <1>8, StopTalk
<1>9. CASE Idle \/ Sleep
  BY <1>9, SilentTalk DEF Idle, Sleep, Quiet, Booting
<1>10. QED
  BY <1>1, <1>2, <1>3, <1>4, <1>5, <1>6, <1>7, <1>8, <1>9 DEF BoardNext, MainRuns, Boot, Computes

LEMMA TalkInvariance == BoardSpec => []TalkInv
<1>1. BoardInit => BoardTypeOK /\ LoopInv /\ TalkInv
  BY InitBoardInv, InitTalkInv
<1>2. BoardTypeOK /\ LoopInv /\ TalkInv /\ [BoardNext]_bvars => (BoardTypeOK /\ LoopInv /\ TalkInv)'
  BY NextBoardInv, NextTalkInv
<1>3. QED
  BY <1>1, <1>2, PTL DEF BoardSpec

\* For any commands, losses and presses of the button, what the host hears of a
\* computation belongs to the one acknowledged last: a result for each of its
\* tasks in order, DONE after the last of them, nothing after the end.
THEOREM ConversationMakesSense == BoardSpec => []Conversation
<1>1. TalkInv => Conversation
  <2> SUFFICES ASSUME TalkInv, NEW k \in 1 .. Len(sent)
               PROVE  LET run == sent[Begun(k)]
                      IN  /\ Is(k, {MSG_COMPUTE_DATA, MSG_DONE, MSG_ABORT}) => run.answers = MSG_COMPUTE
                          /\ Is(k, {MSG_COMPUTE_DATA}) => /\ sent[k].fields = <<run.fields[1], Results(k)>>
                                                          /\ Results(k) <= run.fields[2]
                          /\ Is(k, {MSG_DONE}) => Results(k) = run.fields[2]
    BY DEF Conversation
  <2>1. sent \in Seq(Said) /\ Len(sent) \in Nat /\ MakesSense(sent)
    BY DEF TalkInv
  <2>2. CASE k = 1
    <3>1. sent[k].type = MSG_STARTUP
      BY <2>1, <2>2 DEF MakesSense
    <3>2. MSG_STARTUP \notin {MSG_COMPUTE_DATA, MSG_DONE, MSG_ABORT}
      BY DEF MSG_STARTUP, MSG_COMPUTE_DATA, MSG_DONE, MSG_ABORT
    <3>3. QED
      BY <3>1, <3>2 DEF Is
  <2>3. CASE k # 1
    <3>1. k \in 2 .. Len(sent) /\ k \in Nat
      BY <2>1, <2>3
    <3>2. PICK b \in 1 .. Len(sent) : LastBegin(sent, b, k) /\ Fits(sent, b, k)
      BY <2>1, <3>1 DEF MakesSense
    <3>3. Begun(k) = b
      BY <3>1, <3>2, BegunIs
    <3>4. Results(k) = Cardinality(DataIn(sent, b, k))
      BY <3>3 DEF Results, DataIn, Is
    <3>5. QED
      BY <3>2, <3>3, <3>4 DEF Fits, Is
  <2>4. QED
    BY <2>2, <2>3
<1>2. QED
  BY <1>1, TalkInvariance, PTL

\* However often and whenever the button is pressed, the computation it is to
\* abort sends at most the result that was being computed.
THEOREM AtMostOneResultAfterPress == BoardSpec => []OneResultAfterPress
<1>1. TalkInv => OneResultAfterPress
  <2> SUFFICES ASSUME TalkInv, NEW k \in 1 .. Len(sent), NEW l \in 1 .. Len(sent), k < l,
                      LateData(sent, k), LateData(sent, l)
               PROVE  Begun(k) # Begun(l)
    BY DEF OneResultAfterPress, Is, LateData
  <2>1. Len(sent) \in Nat /\ MakesSense(sent) /\ LatesApart(sent)
    BY DEF TalkInv
  <2>2. PICK c \in k + 1 .. l - 1 : sent[c].type \in Begins
    BY <2>1 DEF LatesApart
  <2>3. k \in 2 .. Len(sent) /\ l \in 2 .. Len(sent) /\ k \in Nat /\ l \in Nat
    <3>1. k # 1
      <4>1. sent # <<>> => sent[1].type # MSG_COMPUTE_DATA
        BY <2>1 DEF MakesSense, MSG_STARTUP, MSG_COMPUTE_DATA
      <4>2. sent # <<>>
        BY <2>1
      <4>3. QED
        BY <4>1, <4>2 DEF LateData
    <3>2. QED
      BY <2>1, <3>1
  <2>4. PICK b \in 1 .. Len(sent) : LastBegin(sent, b, k)
    BY <2>1, <2>3 DEF MakesSense
  <2>5. PICK d \in 1 .. Len(sent) : LastBegin(sent, d, l)
    BY <2>1, <2>3 DEF MakesSense
  <2>6. Begun(k) = b /\ Begun(l) = d
    BY <2>3, <2>4, <2>5, BegunIs
  <2>7. b < k
    BY <2>3, <2>4 DEF LastBegin
  <2>8. ~(d < c)
    <3>1. d < c => c \in d + 1 .. l - 1
      BY <2>2, <2>3
    <3>2. QED
      BY <2>2, <2>5, <3>1 DEF LastBegin
  <2>9. QED
    BY <2>2, <2>3, <2>6, <2>7, <2>8
<1>2. QED
  BY <1>1, TalkInvariance, PTL

-----------------------------------------------------------------------------
(* The bytes from the line to msg_buf, while none is lost.                 *)

M == INSTANCE MessagesProofs

\* No byte was lost, no command came before the start-up message, and each is
\* one that parse_message_buf accepts.
LineOK == faults = 0 /\ \A c \in Commands : Accepts(c)

InOrder ==
  LineOK => /\ Booting => rx = <<>> /\ ~rxne /\ wire = <<>>
            /\ bpc = "handle" => buf \in Commands
            /\ \A k \in 1 .. Len(sent) : sent[k].type # MSG_ERROR

\* What receive_message has, the ring, the receiver and the line, in this order.
Got    == IF bpc \in {"receive", "await"} THEN buf ELSE <<>>
OnLine == IF rxne THEN <<rdr>> ELSE <<>>
Stream == Got \o (rx \o (OnLine \o wire))

StreamInv == faults \in Nat /\ (LineOK => \E p \in Seq(Commands) : M!Spelt(Stream, p))

LEMMA SameBytes == Byte = M!Byte
  BY DEF Byte, M!Byte

LEMMA StreamParts ==
  ASSUME BoardTypeOK
  PROVE  /\ Got \in Seq(Byte) /\ rx \in Seq(Byte) /\ OnLine \in Seq(Byte) /\ wire \in Seq(Byte)
         /\ OnLine \o wire \in Seq(Byte) /\ rx \o (OnLine \o wire) \in Seq(Byte)
         /\ Stream \in Seq(Byte)
<1>1. Got \in Seq(Byte) /\ rx \in Seq(Byte) /\ OnLine \in Seq(Byte) /\ wire \in Seq(Byte)
  BY EmptySeq DEF BoardTypeOK, Got, OnLine
<1>2. OnLine \o wire \in Seq(Byte)
  BY <1>1, ConcatProperties
<1>3. rx \o (OnLine \o wire) \in Seq(Byte)
  BY <1>1, <1>2, ConcatProperties
<1>4. QED
  BY <1>1, <1>2, <1>3, ConcatProperties DEF Stream

LEMMA Joined == \A s, t \in Seq(Byte) : s \o t \in Seq(Byte)
  BY ConcatProperties

Associates(s, t, u) == (s \o t) \o u = s \o (t \o u)

LEMMA Associative == \A s, t, u \in Seq(Byte) : Associates(s, t, u)
  BY ConcatAssociative DEF Associates

\* A command that is written goes to the end of the stream.
GoesLast(g, r, o, w, c) == g \o (r \o (o \o (w \o c))) = (g \o (r \o (o \o w))) \o c

LEMMA WrittenLast ==
  ASSUME NEW g \in Seq(Byte), NEW r \in Seq(Byte), NEW o \in Seq(Byte), NEW w \in Seq(Byte),
         NEW c \in Seq(Byte)
  PROVE  GoesLast(g, r, o, w, c)
<1>1. o \o w \in Seq(Byte)
  BY Joined, Zenon
<1>2. r \o (o \o w) \in Seq(Byte)
  BY <1>1, Joined, Zenon
<1>3. Associates(o, w, c) /\ Associates(r, o \o w, c) /\ Associates(g, r \o (o \o w), c)
  BY <1>1, <1>2, Associative, Zenon
<1>4. QED
  BY <1>3, Zenon DEF Associates, GoesLast

\* A step of the line or of the interrupt leaves the stream as it was.
LEMMA ArriveStream ==
  ASSUME BoardTypeOK, Arrive
  PROVE  Stream' = Stream
<1>1. OnLine = <<>> /\ OnLine' = <<Head(wire)>> /\ wire' = Tail(wire) /\ wire # <<>>
  BY DEF Arrive, OnLine
<1>2. Got' = Got /\ rx' = rx
  BY DEF Arrive, Got
<1>3. wire \in Seq(Byte) /\ Head(wire) \in Byte /\ Tail(wire) \in Seq(Byte)
  BY <1>1, HeadTailProperties DEF BoardTypeOK
<1>4. <<>> \o wire = wire
  BY <1>3, ConcatEmptySeq
<1>5. <<Head(wire)>> \o Tail(wire) = wire
  BY <1>1, <1>3
<1>6. OnLine' \o wire' = OnLine \o wire
  BY <1>1, <1>4, <1>5
<1>7. QED
  BY <1>2, <1>6 DEF Stream

LEMMA InterruptStream ==
  ASSUME BoardTypeOK, Rx_interrupt
  PROVE  Stream' = Stream
<1>1. OnLine = <<rdr>> /\ OnLine' = <<>> /\ wire' = wire /\ rx' = Append(rx, rdr)
  BY DEF Rx_interrupt, OnLine
<1>2. Got' = Got
  BY DEF Rx_interrupt, Woken, Got
<1>3. wire \in Seq(Byte) /\ rx \in Seq(Byte) /\ rdr \in Byte /\ <<rdr>> \in Seq(Byte)
  BY DEF BoardTypeOK
<1>4. <<>> \o wire = wire
  BY <1>3, ConcatEmptySeq
<1>5. Append(rx, rdr) = rx \o <<rdr>>
  BY <1>3
<1>6. (rx \o <<rdr>>) \o wire = rx \o (<<rdr>> \o wire)
  BY <1>3, ConcatAssociative
<1>7. rx' \o (OnLine' \o wire') = rx \o (OnLine \o wire)
  BY <1>1, <1>4, <1>5, <1>6
<1>8. QED
  BY <1>2, <1>7 DEF Stream

LEMMA TakenByte ==
  ASSUME BoardTypeOK, NEW b \in Seq(Byte), rx # <<>>
  PROVE  /\ Append(b, Head(rx)) \o (Tail(rx) \o (OnLine \o wire)) = b \o (rx \o (OnLine \o wire))
         /\ Append(b, Head(rx)) \in Seq(Byte) /\ Tail(rx) \o (OnLine \o wire) \in Seq(Byte)
<1> DEFINE l == OnLine \o wire
           a == Append(b, Head(rx))
           t == Tail(rx)
<1>1. rx \in Seq(Byte) /\ l \in Seq(Byte)
  BY StreamParts
<1>2. Head(rx) \in Byte /\ t \in Seq(Byte)
  BY <1>1, HeadTailProperties
<1>3. a \in Seq(Byte)
  BY <1>2, AppendProperties
<1>4. a \o t = b \o rx
  BY <1>1, SameBytes, M!ByteMoves
<1> HIDE DEF l, a, t
<1>5. t \o l \in Seq(Byte)
  BY <1>1, <1>2, ConcatProperties
<1>6. Associates(a, t, l) /\ Associates(b, rx, l)
  BY <1>1, <1>2, <1>3, Associative, Zenon
<1>7. a \o (t \o l) = b \o (rx \o l)
  BY <1>4, <1>6, Zenon DEF Associates
<1>8. QED
  BY <1>3, <1>5, <1>7 DEF l, a, t

\* The first command of the stream, of which msg_buf has the beginning.
LEMMA FirstCommand ==
  ASSUME BoardTypeOK, LineOK, StreamInv, Stream # <<>>
  PROVE  \E p \in Seq(Commands) :
           /\ p # <<>> /\ M!Spelt(Stream, p) /\ Head(p) \in Commands
           /\ Head(p) \in Seq(Byte) /\ Head(p) # <<>> /\ Head(p)[1] = Stream[1]
           /\ Head(p)[1] \in KnownType /\ Len(Head(p)) = MessageSize(Head(p)[1])
           /\ \A i \in 1 .. Len(Head(p)) : Head(p)[i] = Stream[i]
<1>1. PICK p \in Seq(Commands) : M!Spelt(Stream, p)
  BY DEF StreamInv
<1>2. Stream \in Seq(M!Byte) /\ Commands \subseteq Seq(M!Byte)
  BY StreamParts, SameBytes, BoardAssumption
<1>3. p # <<>>
  BY <1>1, <1>2, M!OnlyNothingSpelt
<1>4. /\ Head(p) \in Commands
      /\ \A i \in 1 .. Len(Head(p)) : Stream[i] = Head(p)[i]
  BY <1>1, <1>2, <1>3, M!SpeltFirst
<1>5. Accepts(Head(p)) /\ Head(p) \in Seq(Byte)
  BY <1>4, BoardAssumption DEF LineOK
<1>6. Head(p) # <<>> /\ Head(p)[1] < MSG_NBR /\ Len(Head(p)) = MessageSize(Head(p)[1])
  BY <1>5 DEF Accepts
<1>7. 1 \in 1 .. Len(Head(p)) /\ Head(p)[1] \in Byte
  BY <1>5, <1>6
<1>8. Head(p)[1] \in KnownType
  <2>1. ASSUME NEW b \in Byte, b < MSG_NBR PROVE b \in KnownType
    BY <2>1 DEF KnownType, Byte, MSG_NBR
  <2>2. QED
    BY <1>6, <1>7, <2>1
<1>9. QED
  BY <1>1, <1>3, <1>4, <1>5, <1>6, <1>7, <1>8

LEMMA NoErrorSaid ==
  ASSUME sent \in Seq(Said), NEW m, m.type # MSG_ERROR, sent' = Append(sent, m),
         \A k \in 1 .. Len(sent) : sent[k].type # MSG_ERROR
  PROVE  \A k \in 1 .. Len(sent') : sent'[k].type # MSG_ERROR
<1>1. sent \in Seq(Said \cup {m}) /\ m \in Said \cup {m}
  OBVIOUS
<1>2. /\ Len(sent') = Len(sent) + 1 /\ sent'[Len(sent) + 1] = m
      /\ \A k \in 1 .. Len(sent) : sent'[k] = sent[k]
  BY <1>1
<1>3. \A k \in 1 .. Len(sent) + 1 : k \in 1 .. Len(sent) \/ k = Len(sent) + 1
  OBVIOUS
<1>4. QED
  BY <1>2, <1>3

\* An unknown type is never met, for the ring begins with a command.
LEMMA ReceiveTypeStream ==
  ASSUME BoardTypeOK, LineOK, StreamInv, ReceiveType
  PROVE  Stream' = Stream /\ bpc' = "receive"
<1>1. rx # <<>> /\ rx \in Seq(Byte) /\ Got = <<>> /\ bpc = "receive"
  BY DEF ReceiveType, BoardTypeOK, Got
<1>2. Stream = rx \o (OnLine \o wire)
  BY <1>1, StreamParts, ConcatEmptySeq DEF Stream
<1>3. Stream # <<>> /\ Stream[1] = Head(rx)
  BY <1>1, <1>2, StreamParts, ConcatProperties
<1>4. Head(rx) \in KnownType
  BY <1>3, FirstCommand
<1>5. buf' = <<Head(rx)>> /\ rx' = Tail(rx) /\ bpc' = "receive"
  BY <1>1, <1>4 DEF ReceiveType
<1>6. OnLine' = OnLine /\ wire' = wire
  BY DEF ReceiveType, Quiet, line, OnLine
<1>7. Append(<<>>, Head(rx)) \o (Tail(rx) \o (OnLine \o wire)) = <<>> \o (rx \o (OnLine \o wire))
  BY <1>1, TakenByte, EmptySeq
<1>8. Append(<<>>, Head(rx)) = <<Head(rx)>>
  OBVIOUS
<1>9. Got' = <<Head(rx)>>
  BY <1>5 DEF Got
<1>10. QED
  BY <1>1, <1>5, <1>6, <1>7, <1>8, <1>9, Zenon DEF Stream

\* What is handed over is the command that came first.
LEMMA ReceiveByteStream ==
  ASSUME BoardTypeOK, LineOK, StreamInv, ReceiveByte
  PROVE  /\ \E p \in Seq(Commands) : M!Spelt(Stream', p)
         /\ bpc' = "handle" => buf' \in Commands
<1> DEFINE rest == Tail(rx) \o (OnLine \o wire)
<1>1. /\ rx # <<>> /\ buf # <<>> /\ bpc = "receive" /\ buf' = Append(buf, Head(rx))
      /\ rx' = Tail(rx) /\ OnLine' = OnLine /\ wire' = wire /\ Got = buf /\ buf \in Seq(Byte)
  BY DEF ReceiveByte, Quiet, line, OnLine, Got, BoardTypeOK
<1>2. buf' \o rest = Stream /\ buf' \in Seq(Byte) /\ rest \in Seq(Byte)
  BY <1>1, TakenByte DEF Stream
<1>3. Stream' = Got' \o rest
  BY <1>1 DEF Stream
<1>4. Head(rx) \in Byte
  BY <1>1 DEF BoardTypeOK
<1>5. buf'[1] = buf[1] /\ buf' # <<>>
  BY <1>1, <1>4, AppendProperties
<1> HIDE DEF rest
<1>6. CASE bpc' = "receive"
  <2>1. Stream' = Stream
    BY <1>2, <1>3, <1>6 DEF Got
  <2>2. QED
    BY <1>6, <2>1 DEF StreamInv
<1>7. CASE bpc' # "receive"
  <2>1. bpc' = "handle" /\ Len(buf') = MessageSize(buf[1])
    BY <1>1, <1>7 DEF ReceiveByte
  <2>2. /\ \A i \in 1 .. Len(buf') : Stream[i] = buf'[i]
        /\ Stream # <<>> /\ 1 \in 1 .. Len(buf')
    BY <1>2, <1>5, ConcatProperties
  <2>3. PICK p \in Seq(Commands) :
           /\ p # <<>> /\ M!Spelt(Stream, p) /\ Head(p) \in Commands
           /\ Head(p) \in Seq(Byte) /\ Head(p) # <<>> /\ Head(p)[1] = Stream[1]
           /\ Head(p)[1] \in KnownType /\ Len(Head(p)) = MessageSize(Head(p)[1])
           /\ \A i \in 1 .. Len(Head(p)) : Head(p)[i] = Stream[i]
    BY <2>2, FirstCommand
  <2>4. Len(Head(p)) = Len(buf')
    BY <1>5, <2>1, <2>2, <2>3
  <2>5. Head(p) = buf'
    BY <1>2, <2>2, <2>3, <2>4, SeqEqual
  <2>6. M!Spelt(rest, Tail(p))
    <3>1. /\ Commands \subseteq Seq(M!Byte) /\ buf' \in Seq(M!Byte) /\ rest \in Seq(M!Byte)
          /\ M!Spelt(buf' \o rest, p)
      BY <1>2, <2>3, SameBytes, BoardAssumption
    <3>2. QED
      BY <2>3, <2>4, <3>1, M!SpeltRest
  <2>7. Stream' = rest
    BY <1>2, <1>3, <2>1, ConcatEmptySeq DEF Got
  <2>8. Tail(p) \in Seq(Commands)
    BY <2>3
  <2>9. QED
    BY <2>3, <2>5, <2>6, <2>7, <2>8
<1>8. QED
  BY <1>6, <1>7

LEMMA InitStream == BoardInit => InOrder /\ StreamInv
<1> SUFFICES ASSUME BoardInit PROVE InOrder /\ StreamInv
  OBVIOUS
<1>1. Got = <<>> /\ rx = <<>> /\ OnLine = <<>> /\ wire = <<>> /\ faults = 0 /\ sent = <<>>
  BY DEF BoardInit, Got, OnLine
<1>2. Stream = <<>>
  BY <1>1 DEF Stream
<1>3. M!Spelt(Stream, <<>>) /\ <<>> \in Seq(Commands)
  BY <1>2, M!NothingSpelt
<1>4. bpc = "flush" /\ ~rxne
  BY DEF BoardInit
<1>5. InOrder
  <2>1. \A k \in 1 .. Len(sent) : FALSE
    BY <1>1
  <2>2. QED
    BY <1>1, <1>4, <2>1 DEF InOrder
<1>6. QED
  BY <1>1, <1>3, <1>5 DEF StreamInv

LEMMA FaultsGrow ==
  ASSUME faults \in Nat, [BoardNext]_bvars
  PROVE  faults' \in Nat /\ (faults' = 0 => faults = 0)
<1>1. ASSUME NEW c \in Commands, HostWrites(c)
      PROVE  faults' \in Nat /\ (faults' = 0 => faults = 0)
  BY <1>1 DEF HostWrites
<1>2. CASE Arrive \/ Lose \/ pressed \/ Awake \/ Rx_interrupt
  BY <1>2 DEF Arrive, Lose, pressed, Awake, Rx_interrupt, counts
<1>3. CASE Boot \/ Computes
  BY <1>3 DEF Boot, Flush, FlushGetc, StartUp, Computes, Compute, ComputeTask, ComputeStop, Idle, Sleep,
              Quiet, line, counts
<1>4. CASE Receives
  BY <1>4 DEF Receives, Receive, ReceiveType, ReceiveByte, ReceiveWait, ReceiveMore, Quiet, line, counts
<1>5. CASE Handles
  BY <1>5 DEF Handles, HandleGetVersion, HandleAbort, HandleCompute, HandleOther, HandleError,
              Quiet, line, counts
<1>6. CASE UNCHANGED bvars
  BY <1>6 DEF bvars, counts
<1>7. QED
  BY <1>1, <1>2, <1>3, <1>4, <1>5, <1>6 DEF BoardNext, MainRuns

LEMMA NextStream ==
  ASSUME BoardTypeOK, TalkInv, InOrder, StreamInv, [BoardNext]_bvars
  PROVE  (InOrder /\ StreamInv)'
<1> DEFINE Started == Booting => rx = <<>> /\ ~rxne /\ wire = <<>>
           Handed  == bpc = "handle" => buf \in Commands
           Silent  == \A k \in 1 .. Len(sent) : sent[k].type # MSG_ERROR
           Cut     == \E p \in Seq(Commands) : M!Spelt(Stream, p)
<1>1. faults' \in Nat /\ (faults' = 0 => faults = 0)
  BY FaultsGrow DEF StreamInv
<1> SUFFICES ASSUME LineOK' PROVE Started' /\ Handed' /\ Silent' /\ Cut'
  BY <1>1 DEF InOrder, StreamInv
<1>2. LineOK /\ faults' = 0
  BY <1>1 DEF LineOK
<1>3. Started /\ Handed /\ Silent /\ Cut /\ sent \in Seq(Said)
  BY <1>2 DEF InOrder, StreamInv, TalkInv
<1>4. ASSUME NEW c \in Commands, HostWrites(c) PROVE Started' /\ Handed' /\ Silent' /\ Cut'
  <2>1. ~Booting' /\ UNCHANGED <<bpc, buf, sent, rx, rxne, rdr>> /\ wire' = wire \o c
    <3>1. ~Booting
      BY <1>2, <1>4 DEF HostWrites, LineOK
    <3>2. QED
      BY <1>4, <3>1 DEF HostWrites, Booting
  <2>2. Stream' = Stream \o c
    <3>1. c \in Seq(Byte)
      BY BoardAssumption
    <3>2. Got' = Got /\ OnLine' = OnLine
      BY <2>1 DEF Got, OnLine
    <3>3. Got \o (rx \o (OnLine \o (wire \o c))) = Stream \o c
      <4>1. GoesLast(Got, rx, OnLine, wire, c)
        BY <3>1, StreamParts, WrittenLast
      <4>2. QED
        BY <4>1, Zenon DEF GoesLast, Stream
    <3>4. QED
      BY <2>1, <3>2, <3>3, Zenon DEF Stream
  <2>3. PICK p \in Seq(Commands) : M!Spelt(Stream, p)
    BY <1>3
  <2>4. M!Spelt(Stream \o c, Append(p, c)) /\ Append(p, c) \in Seq(Commands)
    <3>1. Stream \in Seq(M!Byte) /\ Commands \subseteq Seq(M!Byte)
      BY StreamParts, SameBytes, BoardAssumption
    <3>2. QED
      BY <2>3, <3>1, M!SpeltMore
  <2>5. QED
    BY <1>3, <2>1, <2>2, <2>4
<1>5. CASE Arrive \/ Rx_interrupt
  <2>1. Stream' = Stream
    BY <1>5, ArriveStream, InterruptStream
  <2>2. ~Booting /\ UNCHANGED <<buf, sent>> /\ (bpc' = bpc \/ bpc' \in {"loop", "late"})
    BY <1>3, <1>5 DEF Arrive, Rx_interrupt, Woken
  <2>3. QED
    BY <1>3, <2>1, <2>2 DEF Booting
<1>6. CASE Lose
  BY <1>1, <1>2, <1>6 DEF Lose, LineOK, StreamInv
<1>7. ASSUME UNCHANGED <<rx, rxne, rdr, wire>>, Got' = Got PROVE Stream' = Stream
  BY <1>7 DEF Stream, OnLine
<1>8. CASE pressed \/ Awake \/ UNCHANGED bvars
  <2>1. /\ UNCHANGED <<rx, rxne, rdr, wire, buf, sent>>
        /\ bpc' = bpc \/ (bpc' = "loop" /\ bpc = "asleep")
    BY <1>8 DEF pressed, Awake, bvars
  <2>2. Stream' = Stream
    BY <1>7, <2>1 DEF Got
  <2>3. QED
    BY <1>3, <2>1, <2>2 DEF Booting
<1>9. CASE Boot
  <2>1. StartUp
    BY <1>3, <1>9 DEF Boot, Flush, FlushGetc, Booting
  <2>2. UNCHANGED <<rx, rxne, rdr, wire>> /\ Got' = Got /\ bpc' = "loop"
    BY <2>1 DEF StartUp, Quiet, line, Got
  <2>3. Silent'
    BY <1>3, <2>1, NoErrorSaid DEF StartUp, Send, SendAs, MSG_STARTUP, MSG_ERROR
  <2>4. QED
    BY <1>3, <1>7, <2>2, <2>3 DEF Booting
<1>10. CASE Receive \/ ReceiveWait \/ ReceiveMore
  <2>1. UNCHANGED <<rx, rxne, rdr, wire, sent>> /\ Got' = Got /\ bpc' \in {"receive", "await"}
    BY <1>10 DEF Receive, ReceiveWait, ReceiveMore, Quiet, line, Got
  <2>2. QED
    BY <1>3, <1>7, <2>1 DEF Booting
<1>11. CASE ReceiveType
  <2>1. Stream' = Stream /\ bpc' = "receive" /\ UNCHANGED sent
    BY <1>2, <1>11, ReceiveTypeStream DEF ReceiveType
  <2>2. QED
    BY <1>3, <2>1 DEF Booting
<1>12. CASE ReceiveByte
  <2>1. UNCHANGED sent /\ bpc' \in {"receive", "handle"}
    BY <1>12 DEF ReceiveByte
  <2>2. QED
    BY <1>2, <1>3, <1>12, <2>1, ReceiveByteStream DEF Booting
<1>13. CASE Handles
  <2>1. ~HandleError
    BY <1>2, <1>3 DEF HandleError, LineOK
  <2>2. UNCHANGED <<rx, rxne, rdr, wire>> /\ bpc = "handle" /\ bpc' = "loop"
    BY <1>13 DEF Handles, HandleGetVersion, HandleAbort, HandleCompute, HandleOther, HandleError, Handle,
                 Quiet, line
  <2>3. Silent'
    <3>1. CASE HandleGetVersion
      BY <1>3, <3>1, NoErrorSaid DEF HandleGetVersion, SendAs, MSG_VERSION, MSG_ERROR
    <3>2. CASE HandleAbort
      BY <1>3, <3>2, NoErrorSaid DEF HandleAbort, SendAs, MSG_OK, MSG_ERROR
    <3>3. CASE HandleCompute
      BY <1>3, <3>3, NoErrorSaid DEF HandleCompute, SendAs, MSG_OK, MSG_ERROR
    <3>4. CASE HandleOther
      BY <1>3, <3>4 DEF HandleOther
    <3>5. QED
      BY <1>13, <2>1, <3>1, <3>2, <3>3, <3>4 DEF Handles
  <2>4. Got' = Got
    BY <2>2 DEF Got
  <2>5. QED
    BY <1>3, <1>7, <2>2, <2>3, <2>4 DEF Booting
<1>14. CASE Computes
  <2>1. /\ UNCHANGED <<rx, rxne, rdr, wire, buf>>
        /\ bpc \in {"loop", "wait", "stop", "doze", "late"}
        /\ bpc' \in {"loop", "wait", "stop", "doze", "asleep"}
    BY <1>14 DEF Computes, Compute, ComputeTask, ComputeStop, Idle, Sleep, Quiet, line
  <2>2. Got' = Got
    BY <2>1 DEF Got
  <2>3. Silent'
    <3>1. CASE ComputeTask
      BY <1>3, <3>1, NoErrorSaid DEF ComputeTask, SendAs, MSG_COMPUTE_DATA, MSG_ERROR
    <3>2. CASE ComputeStop
      BY <1>3, <3>2, NoErrorSaid DEF ComputeStop, Send, SendAs, MSG_ABORT, MSG_DONE, MSG_ERROR
    <3>3. CASE Compute \/ Idle \/ Sleep
      BY <1>3, <3>3 DEF Compute, Idle, Sleep
    <3>4. QED
      BY <1>14, <3>1, <3>2, <3>3 DEF Computes
  <2>4. QED
    BY <1>3, <1>7, <2>1, <2>2, <2>3 DEF Booting
<1>15. QED
  BY <1>4, <1>5, <1>6, <1>8, <1>9, <1>10, <1>11, <1>12, <1>13, <1>14 DEF BoardNext, MainRuns, Receives

\* While no byte is lost the board hears the host rightly: each message it
\* hands to the switch is one the host wrote, whatever computation, sleep or
\* interrupt its bytes came in the middle of, and it never answers MSG_ERROR.
THEOREM CommandsAreHeard == BoardSpec => []InOrder
<1>1. BoardSpec => [](BoardTypeOK /\ TalkInv)
  BY BoardTypeCorrect, TalkInvariance, PTL
<1>2. QED
  BY <1>1, InitStream, NextStream, PTL DEF BoardSpec
=============================================================================
