------------------------------- MODULE HostRx -------------------------------
(***************************************************************************)
(* How main_thread receives: the second half of its loop in main.c, with   *)
(* serial_getc_timeout and the codec, and a board that sends messages over *)
(* a serial line that may lose bytes and bring them late.                  *)
(*                                                                         *)
(* len and msg are locals that are used before they are set, and after a   *)
(* failure they keep what the round before left in them.  What is left of  *)
(* msg_buf after a time-out is whatever its memory held.                   *)
(*                                                                         *)
(* The port is one that set_interface_attribs has set (see Port): reads    *)
(* do not wait for the end of a line, but ICRNL is as it was found.        *)
(***************************************************************************)
EXTENDS Messages

SIZE_X_M == 320
SIZE_Y_M == 240
CHUNK_X  == 80
\* How many entries results.table has.
matrix_init == SIZE_X_M * SIZE_Y_M
Unset    == -1000   \* len before it is set

CONSTANTS
  Replies,     \* the messages the board sends
  MaxReplies,  \* bound on how many it sends
  MaxFaults,   \* bound on the bytes lost or late and the calls that fail
  StrayType,   \* what type may hold before it is set
  StrayLen,    \* what len may hold before it is set, if that is survived
  StrayMsg,    \* what msg may hold before it is set
  StrayByte    \* what the memory of msg_buf may hold

ASSUME BoundsAssumption == MaxReplies \in Nat /\ MaxFaults \in Nat
ASSUME StrayAssumption ==
  /\ StrayType \subseteq Byte /\ StrayByte \subseteq Byte /\ StrayLen \subseteq Int \ {Unset}
  /\ StrayMsg \subseteq [type : Byte, payload : Seq(Byte)]
  /\ \A m \in StrayMsg : m.type = MSG_COMPUTE_DATA => Len(m.payload) = PayloadSize(m.type)
ASSUME RepliesAssumption ==
  \A m \in Replies : /\ m \in [type : KnownType, payload : Seq(Byte)]
                     /\ Len(m.payload) = PayloadSize(m.type)

VARIABLES
  wire,          \* the bytes sent and not yet read
  replies,       \* the number of messages sent
  faults,        \* the number of faults met
  rpc,           \* where main_thread is in the round
  type, len, buf, msg,   \* its locals
  table,         \* the entries of results.table that have been written
  getc,          \* what the last serial_getc_timeout met and returned
  icrnl,         \* whether the port reads a carriage return as a newline
  sized,         \* history: whether a round has begun with a known type
  pending, intact   \* history: the link, see MsgLink

link  == <<pending, intact>>
rvars == <<wire, replies, faults, rpc, type, len, buf, msg, table, getc, icrnl, sized, link>>

NoGetc == [ret |-> 0, met |-> "nothing"]

RxInit ==
  /\ wire = <<>> /\ replies = 0 /\ faults = 0
  /\ rpc = "read"
  /\ type \in StrayType /\ len = Unset /\ buf = <<>>
  /\ msg \in StrayMsg
  /\ table = <<>>
  /\ getc = NoGetc
  /\ icrnl \in BOOLEAN
  /\ sized = FALSE
  /\ pending = <<>> /\ intact = TRUE

Break == intact' = FALSE /\ pending' = <<>>
Fault == faults < MaxFaults /\ faults' = faults + 1 /\ Break

-----------------------------------------------------------------------------
(* The board and the line *)

\* A byte of wire may still be on its way: a wait for it may time out.
NothingUnderWay == rpc = "read" /\ wire = <<>>

BoardSend(m) ==
  /\ replies < MaxReplies
  /\ replies' = replies + 1
  /\ wire' = wire \o Fill(m)
  /\ intact' = (intact \/ NothingUnderWay)
  /\ pending' = IF intact' THEN Append(pending, m) ELSE <<>>
  /\ UNCHANGED <<faults, rpc, type, len, buf, msg, table, getc, icrnl, sized>>

Lose ==
  /\ wire # <<>>
  /\ wire' = Tail(wire)
  /\ Fault
  /\ UNCHANGED <<replies, rpc, type, len, buf, msg, table, getc, icrnl, sized>>

-----------------------------------------------------------------------------
(* main_thread *)

\* Mutant: the id and the checksum are not counted.
BeginPayload(first) ==
  \/ /\ len' = IF first \in KnownType THEN PayloadSize(first) ELSE len
     /\ len' # Unset
     /\ rpc' = IF len' > 1 THEN "bytes" ELSE "parse"
  \/ /\ first \notin KnownType /\ len = Unset
     /\ len' = len /\ rpc' = "dead"

\* get_message_size, whose result is not looked at: an unknown type leaves len
\* as it was.  If it was never set, the process may die allocating msg_buf.
Begin(first) ==
  \/ /\ len' = IF first \in KnownType THEN MessageSize(first) ELSE len
     /\ len' # Unset
     /\ rpc' = IF len' > 1 THEN "bytes" ELSE "parse"
  \/ /\ first \notin KnownType /\ len = Unset
     /\ \/ /\ len' \in StrayLen
           /\ rpc' = IF len' > 1 THEN "bytes" ELSE "parse"
        \/ len' = len /\ rpc' = "dead"

Sizes(first) == sized' = (sized \/ first \in KnownType)

\* `if (read(fd, &type, 1))' does not hold when no byte came, ...
RxFirst ==
  /\ rpc = "read" /\ wire # <<>>
  /\ type' = Delivered(Head(wire), icrnl)
  /\ wire' = Tail(wire)
  /\ buf' = <<type'>>
  /\ Begin(type') /\ Sizes(type')
  /\ UNCHANGED <<replies, faults, msg, table, getc, icrnl, link>>

\* ... and holds when the read failed: type is the byte read before.
RxFirstError ==
  /\ rpc = "read"
  /\ buf' = <<type>>
  /\ Begin(type) /\ Sizes(type)
  /\ Fault
  /\ UNCHANGED <<wire, replies, type, msg, table, getc, icrnl>>

\* Mutant: the byte is read into a variable of its own.
GetcElsewhere ==
  \/ /\ wire # <<>>
     /\ type' = type /\ wire' = Tail(wire)
     /\ getc' = [ret |-> 1, met |-> "byte"]
     /\ UNCHANGED <<faults, link>>
  \/ /\ wire = <<>>
     /\ getc' = [ret |-> 0, met |-> "timeout"]
     /\ Break /\ UNCHANGED <<type, wire, faults>>

\* serial_getc_timeout: a byte; a time-out with none there; a byte that is late
\* or a failed poll; a failed read.
Getc ==
  \/ /\ wire # <<>>
     /\ type' = Delivered(Head(wire), icrnl) /\ wire' = Tail(wire)
     /\ getc' = [ret |-> 1, met |-> "byte"]
     /\ UNCHANGED <<faults, link>>
  \/ /\ wire = <<>>
     /\ getc' = [ret |-> 0, met |-> "timeout"]
     /\ Break /\ UNCHANGED <<type, wire, faults>>
  \/ /\ \/ getc' = [ret |-> 0, met |-> "timeout"]
        \/ \E ret \in {-1, 0} : getc' = [ret |-> ret, met |-> "error"]
     /\ Fault /\ UNCHANGED <<type, wire>>

\* The rest of msg_buf as it is found, which may even make the checksum right.
Rest(n) ==
  LET found == [1 .. n - 1 -> StrayByte]
  IN  {Append(rest, b) : rest \in found, b \in StrayByte}
        \cup {Append(rest, 255 - Sum(buf \o rest)) : rest \in found}

\* Mutant: `i <= len'.
RxByteOver ==
  /\ rpc = "bytes"
  /\ Getc
  /\ IF getc'.ret % 256 > 0
     THEN /\ buf' = Append(buf, type')
          /\ rpc' = IF Len(buf') <= len THEN "bytes" ELSE "parse"
     ELSE /\ \E rest \in Rest(len - Len(buf)) : buf' = buf \o rest
          /\ rpc' = "parse"
  /\ UNCHANGED <<replies, len, msg, table, icrnl, sized>>

\* `r > 0', for r a uint8_t that was assigned the result, is r # 0: -1 stores
\* the byte read before once more.  On 0 the loop is left.
RxByte ==
  /\ rpc = "bytes"
  /\ Getc
  /\ IF getc'.ret % 256 > 0
     THEN /\ buf' = Append(buf, type')
          /\ rpc' = IF Len(buf') < len THEN "bytes" ELSE "parse"
     ELSE /\ \E rest \in Rest(len - Len(buf)) : buf' = buf \o rest
          /\ rpc' = "parse"
  /\ UNCHANGED <<replies, len, msg, table, icrnl, sized>>

\* Mutant: the chunks are as wide as the picture.
SlotWide(payload) == payload[1] * SIZE_X_M + payload[2]

\* results.table is indexed by the chunk and the column of the task.
Slot(payload) == payload[1] * CHUNK_X + payload[2]

Stored(payload) ==
  [slot \in DOMAIN table \cup {Slot(payload)} |->
     IF slot = Slot(payload) THEN payload[4] ELSE table[slot]]

\* parse_message_buf, whose result is not looked at: if it fails, what msg held
\* is handled, again.
RxParse ==
  /\ rpc = "parse"
  /\ msg' = Parsed(SubSeq(buf, 1, len), msg)
  /\ table' = IF msg'.type = MSG_COMPUTE_DATA THEN Stored(msg'.payload) ELSE table
  /\ rpc' = "read"
  /\ buf' = <<>>
  /\ pending' = IF pending = <<>> THEN <<>> ELSE Tail(pending)
  /\ getc' = NoGetc
  /\ UNCHANGED <<wire, replies, faults, type, len, icrnl, sized, intact>>

RxStep == RxFirst \/ RxFirstError \/ RxByte \/ RxParse
RxNext == (\E m \in Replies : BoardSend(m)) \/ Lose \/ RxStep

RxSpec == RxInit /\ [][RxNext]_rvars

\* main_thread runs: a byte that is there is read, a wait for one times out.
FairRxSpec == RxSpec /\ WF_rvars(RxByte) /\ WF_rvars(RxParse)

-----------------------------------------------------------------------------
RxTypeOK ==
  /\ wire \in Seq(Byte) /\ buf \in Seq(Byte)
  /\ replies \in 0 .. MaxReplies /\ faults \in 0 .. MaxFaults
  /\ rpc \in {"read", "bytes", "parse", "dead"}
  /\ type \in Byte
  /\ len \in {Unset} \cup StrayLen \cup {MessageSize(t) : t \in KnownType}
  /\ msg \in [type : Byte, payload : Seq(Byte)]
  /\ msg.type = MSG_COMPUTE_DATA => Len(msg.payload) = PayloadSize(msg.type)
  /\ icrnl \in BOOLEAN /\ sized \in BOOLEAN
  /\ pending \in Seq(Replies) /\ intact \in BOOLEAN

\* As long as no byte is lost or late and no call fails, the messages are taken
\* in order, each once, and each is handled as it was sent, unless the port has
\* ICRNL and there is a carriage return among its bytes.  Such a message is
\* refused, and since nobody looks whether it was, the message handled before is
\* handled again; but the ones after it are not disturbed.  After a fault all
\* this holds again from the first message sent when the line is quiet.
WithReturn == {m \in Replies : \E i \in 1 .. Len(Fill(m)) : Fill(m)[i] = CARRIAGE_RETURN}
Refused == IF icrnl THEN WithReturn ELSE {}
Link == INSTANCE MsgLink WITH Msgs <- Replies, handled <- msg, refused <- Refused
MessagesArrive == Link!Spec

\* From the first round on that began with a byte of a known type, msg_buf has
\* room for all that is stored in it, whatever failed reads, late bytes and
\* unknown types follow: they take over a length that some message had.  Before
\* that round len is a stray value, and with 0 or less even the first byte is
\* stored outside msg_buf: of this nothing is said.
BufferHolds == sized /\ rpc \in {"bytes", "parse"} => Len(buf) <= len

\* Whatever garbage is parsed, a result is stored inside results.table.
TableInBounds == \A slot \in DOMAIN table : 0 <= slot /\ slot < matrix_init

\* main.c: `if (r > 0) // successfully read'.
SuccessfullyRead == [][rpc = "bytes" /\ Len(buf') = Len(buf) + 1 /\ rpc' = "bytes"
                         => getc'.ret = 1]_rvars

\* prg_serial_nonblock.h: "-1 on error, 0 no byte ready within the timeout".
GetcReturnsAsDocumented == getc.met = "error" => getc.ret = -1
=============================================================================
