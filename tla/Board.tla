------------------------------- MODULE Board -------------------------------
(***************************************************************************)
(* The board's firmware, main() of CV10/main.cpp: commands come in through *)
(* the ring that Rx_interrupt fills, computations go on between commands,  *)
(* and a button aborts them.                                               *)
(*                                                                         *)
(* rx is what the ring holds, oldest byte first.  send_message is one step *)
(* here: how its bytes leave the board is the subject of the module TxRing.*)
(***************************************************************************)
EXTENDS FwMessages, FiniteSets

CONSTANTS
  BUF_SIZE,     \* the slots of the ring, one of which is always free
  Commands,     \* what the host may write in one go, a sequence of bytes
  MaxCommands,  \* bound on how often it writes
  MaxFaults,    \* bound on lost bytes and on commands before the start-up message
  MaxPresses,   \* bound on how often the button is pressed
  MaxTasks      \* bound on the tasks computed of one COMPUTE

ASSUME BoardAssumption ==
  /\ BUF_SIZE \in Nat /\ BUF_SIZE > 1
  /\ Commands \subseteq Seq(Byte)
  /\ MaxCommands \in Nat /\ MaxFaults \in Nat /\ MaxPresses \in Nat /\ MaxTasks \in Nat

VARIABLES
  wire,           \* the bytes on their way to the board
  rxne, rdr,      \* the receiver has a byte; the byte
  irq,            \* the controller lets the USART2 interrupt through
  rx,             \* the ring from rx_out to rx_in
  bpc,            \* where main() is
  buf,            \* the bytes of msg_buf received so far
  computing, chunk_id, nbr_tasks, task_id,   \* computation
  message_abort,  \* set by the button
  sent,           \* history: the messages sent, the commands they answer, and
                  \* whether message_abort was set
  commands, faults, presses   \* the numbers bounded above

computation == <<computing, chunk_id, nbr_tasks, task_id>>
counts      == <<commands, faults, presses>>
bvars == <<wire, rxne, rdr, irq, rx, bpc, buf, computation, message_abort, sent, counts>>

Booting == bpc \in {"flush", "getc"}
RxFull  == Len(rx) = BUF_SIZE - 1

BoardInit ==
  /\ wire = <<>> /\ rxne = FALSE /\ rdr = 0
  /\ irq = TRUE
  /\ rx = <<>> /\ bpc = "flush" /\ buf = <<>>
  /\ computing = FALSE /\ chunk_id = 0 /\ nbr_tasks = 0 /\ task_id = 0
  /\ message_abort = FALSE
  /\ sent = <<>>
  /\ commands = 0 /\ faults = 0 /\ presses = 0

-----------------------------------------------------------------------------
(* The host, the line, the button *)

HostWrites(c) ==
  /\ commands < MaxCommands
  /\ faults' = faults + (IF Booting THEN 1 ELSE 0) /\ faults' <= MaxFaults
  /\ wire' = wire \o c
  /\ commands' = commands + 1
  /\ UNCHANGED <<rxne, rdr, irq, rx, bpc, buf, computation, message_abort, sent, presses>>

\* Between the test for commands and the sleep there is time for one byte only.
Arrive ==
  /\ wire # <<>> /\ ~rxne /\ bpc # "late"
  /\ rxne' = TRUE /\ rdr' = Head(wire)
  /\ wire' = Tail(wire)
  /\ UNCHANGED <<irq, rx, bpc, buf, computation, message_abort, sent, counts>>

\* A byte is lost on the line, or overruns one that has not been taken.
Lose ==
  /\ wire # <<>> /\ faults < MaxFaults
  /\ wire' = Tail(wire)
  /\ faults' = faults + 1
  /\ UNCHANGED <<rxne, rdr, irq, rx, bpc, buf, computation, message_abort, sent, commands, presses>>

\* Interrupts end the sleep; one that comes just before it does not.
Woken == CASE bpc = "asleep" -> "loop" [] bpc = "doze" -> "late" [] OTHER -> bpc

\* The interrupts of the transmitter and of the timers end the sleep as well.
Awake ==
  /\ bpc = "asleep"
  /\ bpc' = "loop"
  /\ UNCHANGED <<wire, rxne, rdr, irq, rx, buf, computation, message_abort, sent, counts>>

pressed ==
  /\ presses < MaxPresses
  /\ presses' = presses + 1
  /\ message_abort' = TRUE
  /\ bpc' = IF bpc = "asleep" THEN "loop" ELSE bpc
  /\ UNCHANGED <<wire, rxne, rdr, irq, rx, buf, computation, sent, commands, faults>>

\* With the ring full the byte stays where it is, and the interrupt stays on.
Rx_interrupt ==
  /\ irq /\ rxne /\ ~RxFull
  /\ rx' = Append(rx, rdr)
  /\ rxne' = FALSE
  /\ bpc' = Woken
  /\ UNCHANGED <<wire, rdr, irq, buf, computation, message_abort, sent, counts>>

-----------------------------------------------------------------------------
(* main() *)

line  == <<wire, rxne, rdr, counts>>
Quiet == UNCHANGED <<line, message_abort>>

\* send_message, with the command it answers, if any, and the fields that matter.
Nobody == MSG_NBR
SendAs(type, command, fields) ==
  sent' = Append(sent, [type |-> type, answers |-> command, fields |-> fields,
                        late |-> message_abort])
Send(type) == SendAs(type, Nobody, <<>>)

\* Mutant: getc is called before readable is asked.
FlushBlind ==
  /\ bpc = "flush"
  /\ bpc' = "getc"
  /\ Quiet /\ UNCHANGED <<irq, rx, buf, computation, sent>>

\* `while (pc.readable()) pc.getc();', with Rx_interrupt already attached: it
\* may take the byte that getc is then waiting for.
Flush ==
  /\ bpc = "flush" /\ rxne
  /\ bpc' = "getc"
  /\ Quiet /\ UNCHANGED <<irq, rx, buf, computation, sent>>

FlushGetc ==
  /\ bpc = "getc" /\ rxne
  /\ rxne' = FALSE
  /\ bpc' = "flush"
  /\ UNCHANGED <<wire, rdr, counts, message_abort, irq, rx, buf, computation, sent>>

StartUp ==
  /\ bpc = "flush" /\ ~rxne
  /\ Send(MSG_STARTUP)
  /\ bpc' = "loop"
  /\ Quiet /\ UNCHANGED <<irq, rx, buf, computation>>

\* A command is waiting: receive_message begins.
Receive ==
  /\ bpc = "loop" /\ rx # <<>>
  /\ irq' = FALSE
  /\ buf' = <<>>
  /\ bpc' = "receive"
  /\ Quiet /\ UNCHANGED <<rx, computation, sent>>

\* An unknown type is left in the ring.
ReceiveType ==
  /\ bpc = "receive" /\ rx # <<>> /\ buf = <<>>
  /\ \/ /\ Head(rx) \in KnownType
        /\ buf' = <<Head(rx)>>
        /\ rx' = Tail(rx)
        /\ UNCHANGED <<irq, bpc>>
     \/ /\ Head(rx) \notin KnownType
        /\ irq' = TRUE
        /\ bpc' = "loop"
        /\ UNCHANGED <<buf, rx>>
  /\ Quiet /\ UNCHANGED <<computation, sent>>

ReceiveByte ==
  /\ bpc = "receive" /\ rx # <<>> /\ buf # <<>>
  /\ buf' = Append(buf, Head(rx))
  /\ rx' = Tail(rx)
  /\ \/ Len(buf') < MessageSize(buf[1]) /\ UNCHANGED <<irq, bpc>>
     \/ Len(buf') = MessageSize(buf[1]) /\ irq' = TRUE /\ bpc' = "handle"
  /\ Quiet /\ UNCHANGED <<computation, sent>>

\* Mutant: the interrupt is not let through while waiting for a byte.
ReceiveWaitMasked ==
  /\ bpc = "receive" /\ rx = <<>>
  /\ bpc' = "await"
  /\ Quiet /\ UNCHANGED <<irq, rx, buf, computation, sent>>

ReceiveWait ==
  /\ bpc = "receive" /\ rx = <<>>
  /\ irq' = TRUE
  /\ bpc' = "await"
  /\ Quiet /\ UNCHANGED <<rx, buf, computation, sent>>

ReceiveMore ==
  /\ bpc = "await" /\ rx # <<>>
  /\ irq' = FALSE
  /\ bpc' = "receive"
  /\ Quiet /\ UNCHANGED <<rx, buf, computation, sent>>

\* parse_message_buf and the switch.
Handle(type) == bpc = "handle" /\ Accepts(buf) /\ buf[1] = type /\ bpc' = "loop"

HandleGetVersion ==
  /\ Handle(MSG_GET_VERSION)
  /\ SendAs(MSG_VERSION, MSG_GET_VERSION, <<>>)
  /\ Quiet /\ UNCHANGED <<irq, rx, buf, computation>>

\* Mutant: the computation goes on.
HandleAbortAnswered ==
  /\ Handle(MSG_ABORT)
  /\ SendAs(MSG_OK, MSG_ABORT, <<>>)
  /\ Quiet /\ UNCHANGED <<irq, rx, buf, computation>>

HandleAbort ==
  /\ Handle(MSG_ABORT)
  /\ SendAs(MSG_OK, MSG_ABORT, <<>>)
  /\ computing' = FALSE
  /\ Quiet /\ UNCHANGED <<irq, rx, buf, chunk_id, nbr_tasks, task_id>>

\* A computation that was running is forgotten, and so is the button.
HandleCompute ==
  /\ Handle(MSG_COMPUTE)
  /\ chunk_id' = Fields(buf)[1] /\ nbr_tasks' = Fields(buf)[2]
  /\ task_id' = 0 /\ computing' = TRUE
  /\ message_abort' = FALSE
  /\ SendAs(MSG_OK, MSG_COMPUTE, <<chunk_id', nbr_tasks'>>)
  /\ UNCHANGED <<line, irq, rx, buf>>

HandleOther ==
  /\ \E type \in KnownType \ {MSG_GET_VERSION, MSG_ABORT, MSG_COMPUTE} : Handle(type)
  /\ Quiet /\ UNCHANGED <<irq, rx, buf, computation, sent>>

HandleError ==
  /\ bpc = "handle" /\ ~Accepts(buf)
  /\ SendAs(MSG_ERROR, buf[1], <<>>)
  /\ bpc' = "loop"
  /\ Quiet /\ UNCHANGED <<irq, rx, buf, computation>>

\* Mutant: one task too many.
ComputeOneMore ==
  /\ bpc = "loop" /\ rx = <<>> /\ computing
  /\ bpc' = IF task_id <= nbr_tasks /\ ~message_abort THEN "wait" ELSE "stop"
  /\ Quiet /\ UNCHANGED <<irq, rx, buf, computation, sent>>

\* Mutant: the button is heard only at the end.
ComputeUnheard ==
  /\ bpc = "loop" /\ rx = <<>> /\ computing
  /\ bpc' = IF task_id < nbr_tasks THEN "wait" ELSE "stop"
  /\ Quiet /\ UNCHANGED <<irq, rx, buf, computation, sent>>

\* No command is waiting: the next task, if there is one, ...
Compute ==
  /\ bpc = "loop" /\ rx = <<>> /\ computing
  /\ bpc' = IF task_id < nbr_tasks /\ ~message_abort THEN "wait" ELSE "stop"
  /\ Quiet /\ UNCHANGED <<irq, rx, buf, computation, sent>>

\* ... which takes half a second ...
ComputeTask ==
  /\ bpc = "wait" /\ task_id < MaxTasks
  /\ task_id' = (task_id + 1) % (UINT16_MAX + 1)
  /\ SendAs(MSG_COMPUTE_DATA, Nobody, <<chunk_id, task_id'>>)
  /\ bpc' = "loop"
  /\ Quiet /\ UNCHANGED <<irq, rx, buf, computing, chunk_id, nbr_tasks>>

\* ... or the end, where message_abort is read once more.
ComputeStop ==
  /\ bpc = "stop"
  /\ computing' = FALSE
  /\ Send(IF message_abort THEN MSG_ABORT ELSE MSG_DONE)
  /\ bpc' = "loop"
  /\ Quiet /\ UNCHANGED <<irq, rx, buf, chunk_id, nbr_tasks, task_id>>

\* Nothing to do.  The sleep is a step of its own: rx was tested before it.
Idle ==
  /\ bpc = "loop" /\ rx = <<>> /\ ~computing
  /\ bpc' = "doze"
  /\ Quiet /\ UNCHANGED <<irq, rx, buf, computation, sent>>

Sleep ==
  /\ bpc \in {"doze", "late"}
  /\ bpc' = "asleep"
  /\ Quiet /\ UNCHANGED <<irq, rx, buf, computation, sent>>

-----------------------------------------------------------------------------
Boot     == Flush \/ FlushGetc \/ StartUp
Receives == Receive \/ ReceiveType \/ ReceiveByte \/ ReceiveWait \/ ReceiveMore
Handles  == HandleGetVersion \/ HandleAbort \/ HandleCompute \/ HandleOther \/ HandleError
Computes == Compute \/ ComputeTask \/ ComputeStop \/ Idle \/ Sleep
MainRuns == Boot \/ Receives \/ Handles \/ Computes

BoardNext == \/ \E c \in Commands : HostWrites(c)
             \/ Arrive \/ Lose \/ pressed \/ Rx_interrupt \/ Awake
             \/ MainRuns

BoardSpec == BoardInit /\ [][BoardNext]_bvars

\* The interrupt that finds no room comes back at once: main() may starve.
Storm == irq /\ rxne /\ RxFull

\* Bytes arrive, interrupts are served, and main() runs where they let it.
FairBoardSpec ==
  /\ BoardSpec
  /\ WF_bvars(Arrive) /\ WF_bvars(Rx_interrupt) /\ WF_bvars(MainRuns /\ ~Storm)

-----------------------------------------------------------------------------
\* Every variable keeps its type.
BoardTypeOK ==
  /\ wire \in Seq(Byte) /\ rx \in Seq(Byte) /\ Len(rx) < BUF_SIZE
  /\ rxne \in BOOLEAN /\ rdr \in Byte /\ irq \in BOOLEAN
  /\ bpc \in {"flush", "getc", "loop", "receive", "await", "handle", "wait", "stop",
              "doze", "late", "asleep"}
  /\ buf \in Seq(Byte)
  /\ computing \in BOOLEAN /\ message_abort \in BOOLEAN
  /\ chunk_id \in Word16 /\ nbr_tasks \in Word16 /\ task_id \in 0 .. nbr_tasks

\* The board's start waits for a byte only when Rx_interrupt took the one that
\* getc was called for, between the two calls of `while (pc.readable())
\* pc.getc()', and then the byte is not lost but in the ring.
OnlyStolenByteBlocks == bpc = "getc" /\ ~rxne => rx # <<>>

Is(k, types) == sent[k].type \in types
\* The last message before the k-th that begins or ends something.
Begun(k) == CHOOSE j \in 1 .. k - 1 :
              /\ Is(j, {MSG_STARTUP, MSG_OK, MSG_DONE, MSG_ABORT})
              /\ \A l \in j + 1 .. k - 1 : ~Is(l, {MSG_STARTUP, MSG_OK, MSG_DONE, MSG_ABORT})
Results(k) == Cardinality({l \in Begun(k) .. k : Is(l, {MSG_COMPUTE_DATA})})

\* What the host hears makes sense to it: results belong to the computation
\* acknowledged last, one for each of its tasks in order; DONE says that all of
\* them were sent; and after an abort, from either side, no result follows.
Conversation ==
  \A k \in 1 .. Len(sent) :
    LET run == sent[Begun(k)]
    IN  /\ Is(k, {MSG_COMPUTE_DATA, MSG_DONE, MSG_ABORT}) => run.answers = MSG_COMPUTE
        /\ Is(k, {MSG_COMPUTE_DATA}) => /\ sent[k].fields = <<run.fields[1], Results(k)>>
                                       /\ Results(k) <= run.fields[2]
        /\ Is(k, {MSG_DONE}) => Results(k) = run.fields[2]

\* The button is heard before the next task: of the computation it is to abort
\* at most the result that was being computed is still sent.
OneResultAfterPress ==
  \A k, l \in 1 .. Len(sent) :
    k < l /\ Is(k, {MSG_COMPUTE_DATA}) /\ Is(l, {MSG_COMPUTE_DATA}) /\ sent[k].late /\ sent[l].late
      => Begun(k) # Begun(l)

\* While no byte is lost and every command is known, each command is answered,
\* however it arrives: between two tasks, during one, or as main() falls asleep.
Answers == Cardinality({k \in 1 .. Len(sent) : sent[k].answers # Nobody})
EveryCommandAnswered ==
  \A n \in 1 .. MaxCommands : commands >= n ~> Answers >= n \/ faults > 0 \/ Storm

\* A computation comes to an end, aborted or done.
ComputationEnds == computing ~> ~computing \/ faults > 0 \/ Storm

\* messages.h: MSG_ERROR "report error on the previously received command".
ErrorReported ==
  rx # <<>> /\ bpc = "loop" ~> \E k \in 1 .. Len(sent) : sent[k].answers # Nobody
=============================================================================
