------------------------------- MODULE TxRing -------------------------------
(***************************************************************************)
(* How the board's firmware sends (CV10/main.cpp): send_buffer copies a    *)
(* message into the ring tx_buffer, Tx_interrupt takes it out byte by byte *)
(* whenever the transmitter is ready for one.                              *)
(*                                                                         *)
(* The processor has one core: an interrupt runs between two steps of      *)
(* send_buffer, and only where neither the interrupt controller (irq) nor  *)
(* the transmitter (txeie) holds it back.  Interrupts do not nest.  That   *)
(* receive_message holds irq back as well, while send_buffer does not run, *)
(* only delays an interrupt, which any other step may do here.             *)
(***************************************************************************)
EXTENDS Integers, Sequences

CONSTANTS
  BUF_SIZE,   \* the slots of the ring, one of which is always free
  Bytes,      \* what messages are made of
  Msgs,       \* the messages sent
  MaxSends    \* bound on how many are sent

ASSUME RingAssumption == BUF_SIZE \in Nat /\ BUF_SIZE > 1
\* The longest message has 11 bytes, the ring has 255 slots.
ASSUME MsgsAssumption == \A m \in Msgs : m \in Seq(Bytes) /\ Len(m) \in 1 .. BUF_SIZE - 1
ASSUME MaxSendsAssumption == MaxSends \in Nat
ASSUME BytesAssumption == 0 \in Bytes

Index   == 0 .. BUF_SIZE - 1
\* Mutant: one slot too many.
SuccLate(k) == (k + 1) % (BUF_SIZE + 1)
Succ(k) == (k + 1) % BUF_SIZE

VARIABLES
  tx_in, tx_out, tx_buffer,
  irq,        \* the controller lets the USART2 interrupt through
  txeie,      \* CR1.TXEIE: the transmitter asks for bytes
  txe, dr,    \* the data register is empty; the byte in it
  spc, msg, i,  \* where send_buffer is, its msg and its i
  sends,      \* the number of messages sent
  line        \* history: the bytes that have left the board

ring  == <<tx_in, tx_out, tx_buffer>>
uart  == <<txe, dr, line>>
send  == <<spc, msg, i, sends>>
tvars == <<ring, irq, txeie, uart, send>>

TxInit ==
  /\ tx_in = 0 /\ tx_out = 0
  /\ tx_buffer = [k \in Index |-> 0]
  /\ irq = TRUE /\ txeie \in BOOLEAN
  /\ txe = TRUE /\ dr = 0 /\ line = <<>>
  /\ spc = "idle" /\ msg = <<>> /\ i = 0 /\ sends = 0

Full == Succ(tx_in) = tx_out

-----------------------------------------------------------------------------
(* send_buffer *)

\* The interrupt is held back before TXEIE is set.
SendStart(m) ==
  /\ spc = "idle" /\ sends < MaxSends
  /\ sends' = sends + 1
  /\ msg' = m /\ i' = 0
  /\ irq' = FALSE
  /\ txeie' = TRUE
  /\ spc' = "put"
  /\ UNCHANGED <<ring, uart>>

\* Mutant: the free slot is used too.
SendPutFull ==
  /\ spc = "put"
  /\ tx_buffer' = [tx_buffer EXCEPT ![tx_in] = msg[i + 1]]
  /\ i' = i + 1
  /\ tx_in' = Succ(tx_in)
  /\ spc' = IF i' < Len(msg) THEN "put" ELSE "end"
  /\ UNCHANGED <<tx_out, irq, txeie, uart, msg, sends>>

SendPut ==
  /\ spc = "put" /\ ~Full
  /\ tx_buffer' = [tx_buffer EXCEPT ![tx_in] = msg[i + 1]]
  /\ i' = i + 1
  /\ tx_in' = Succ(tx_in)
  /\ spc' = IF i' < Len(msg) THEN "put" ELSE "end"
  /\ UNCHANGED <<tx_out, irq, txeie, uart, msg, sends>>

\* The interrupt is let through while the ring is full, ...
SendWait ==
  /\ spc = "put" /\ Full
  /\ irq' = TRUE
  /\ spc' = "wait"
  /\ UNCHANGED <<ring, txeie, uart, msg, i, sends>>

\* ... until the test of the inner loop fails, ...
SendRoom ==
  /\ spc = "wait" /\ ~Full
  /\ spc' = "room"
  /\ UNCHANGED <<ring, irq, txeie, uart, msg, i, sends>>

\* ... and is held back again; it may have run in between, even to the end.
SendResume ==
  /\ spc = "room"
  /\ irq' = FALSE
  /\ spc' = "put"
  /\ UNCHANGED <<ring, txeie, uart, msg, i, sends>>

\* Mutant: TXEIE is not set a second time.
SendEndOnce ==
  /\ spc = "end"
  /\ irq' = TRUE
  /\ spc' = "idle"
  /\ UNCHANGED <<ring, txeie, uart, msg, i, sends>>

SendEnd ==
  /\ spc = "end"
  /\ txeie' = TRUE
  /\ irq' = TRUE
  /\ spc' = "idle"
  /\ UNCHANGED <<ring, uart, msg, i, sends>>

SendStep == SendPut \/ SendWait \/ SendRoom \/ SendResume \/ SendEnd

-----------------------------------------------------------------------------
(* Tx_interrupt and the transmitter *)

TxInterrupt ==
  /\ irq /\ txeie /\ txe
  /\ \/ /\ tx_in # tx_out
        /\ dr' = tx_buffer[tx_out] /\ txe' = FALSE
        /\ tx_out' = Succ(tx_out)
        /\ txeie' = txeie
     \/ /\ tx_in = tx_out
        /\ txeie' = FALSE
        /\ UNCHANGED <<txe, dr, tx_out>>
  /\ UNCHANGED <<tx_in, tx_buffer, irq, line, send>>

Transmit ==
  /\ ~txe
  /\ line' = Append(line, dr)
  /\ txe' = TRUE
  /\ UNCHANGED <<ring, irq, txeie, dr, send>>

-----------------------------------------------------------------------------
TxNext == (\E m \in Msgs : SendStart(m)) \/ SendStep \/ TxInterrupt \/ Transmit

TxSpec == TxInit /\ [][TxNext]_tvars

\* The processor runs send_buffer when no interrupt keeps it from doing so, the
\* controller runs an interrupt that is asked for, the transmitter transmits.
FairTxSpec == TxSpec /\ WF_tvars(SendStep) /\ WF_tvars(TxInterrupt) /\ WF_tvars(Transmit)

-----------------------------------------------------------------------------
\* Every variable keeps its type.
TxTypeOK ==
  /\ tx_in \in Index /\ tx_out \in Index
  /\ tx_buffer \in [Index -> Bytes]
  /\ irq \in BOOLEAN /\ txeie \in BOOLEAN
  /\ txe \in BOOLEAN /\ dr \in Bytes
  /\ spc \in {"idle", "put", "wait", "room", "end"}
  /\ msg \in Seq(Bytes) /\ i \in 0 .. Len(msg)
  /\ sends \in 0 .. MaxSends
  /\ line \in Seq(Bytes)

\* Bytes in the ring are always on their way out: the interrupt that has
\* switched itself off over an empty ring is switched on again by send_buffer
\* before it returns, and it is on whenever send_buffer waits for room.
NeverStalls ==
  /\ spc \in {"idle", "wait"} => irq
  /\ tx_in # tx_out => txeie \/ spc \in {"put", "end"}

\* The bytes sent leave the board in order, each once, although the interrupt
\* takes them out while send_buffer puts them in.
Used   == IF tx_in >= tx_out THEN tx_in - tx_out ELSE tx_in - tx_out + BUF_SIZE
Queue  == [k \in 1 .. Used |-> tx_buffer[(tx_out + (k - 1)) % BUF_SIZE]]
Unsent == (IF txe THEN <<>> ELSE <<dr>>) \o Queue \o SubSeq(msg, i + 1, Len(msg))
Out    == INSTANCE ByteLine WITH pending <- Unsent, out <- line
BytesLeaveInOrder == Out!Spec

\* What has been handed to send_buffer leaves the board.
LineMoves == \A n \in 0 .. MaxSends * BUF_SIZE :
               Unsent # <<>> /\ Len(line) = n ~> Len(line) > n
=============================================================================
