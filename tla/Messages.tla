------------------------------ MODULE Messages ------------------------------
(***************************************************************************)
(* The messages between the host and the board, and their codec,           *)
(* messages.c.  A message is its type and the bytes of its payload in the  *)
(* order in which they are serialised; a double is eight bytes that are    *)
(* copied as they are.                                                     *)
(***************************************************************************)
EXTENDS Integers, Sequences

Byte == 0 .. 255

MSG_OK           == 0
MSG_ERROR        == 1
MSG_ABORT        == 2
MSG_DONE         == 3
MSG_GET_VERSION  == 4
MSG_VERSION      == 5
MSG_STARTUP      == 6
MSG_SET_COMPUTE  == 7
MSG_COMPUTE      == 8
MSG_COMPUTE_DATA == 9
MSG_NBR          == 10
KnownType        == 0 .. MSG_NBR - 1

STARTUP_MSG_LEN == 9
DoubleSize      == 8

PayloadSize(type) ==
  CASE type = MSG_STARTUP      -> STARTUP_MSG_LEN
    [] type = MSG_VERSION      -> 3
    [] type = MSG_SET_COMPUTE  -> 4 * DoubleSize + 1
    [] type = MSG_COMPUTE      -> 1 + 2 * DoubleSize + 2
    [] type = MSG_COMPUTE_DATA -> 4
    [] OTHER                   -> 0

\* Mutant: the count of iterations is forgotten.
MessageSizeNoN(type) ==
  2 + PayloadSize(type) - (IF type = MSG_SET_COMPUTE THEN 1 ELSE 0)

\* get_message_size, for the types it knows: the id, the payload, the checksum.
MessageSize(type) == 2 + PayloadSize(type)

Message == {[type |-> t, payload |-> p] : t \in KnownType, p \in Seq(Byte)}

\* Mutant: the id is left out of the sum.
SumFromOne(buf) ==
  LET s[i \in 0 .. Len(buf)] == IF i <= 1 THEN 0 ELSE (s[i - 1] + buf[i]) % 256
  IN  s[Len(buf)]

\* Mutant: the sum is kept in an int.
SumWide(buf) == LET s[i \in 0 .. Len(buf)] == IF i = 0 THEN 0 ELSE s[i - 1] + buf[i]
                IN  s[Len(buf)]

\* The sum of the bytes, in a uint8_t.
Sum(buf) == LET s[i \in 0 .. Len(buf)] == IF i = 0 THEN 0 ELSE (s[i - 1] + buf[i]) % 256
            IN  s[Len(buf)]

\* fill_message_buf, of a message of a known type.
Fill(msg) == LET body == <<msg.type>> \o msg.payload
             IN  Append(body, 255 - Sum(body))

\* Mutant: the checksum is not looked at.
AcceptsAnySum(buf) ==
  /\ buf # <<>>
  /\ buf[1] < MSG_NBR /\ Len(buf) = MessageSize(buf[1])

\* parse_message_buf.  The type is stored before it is known to be right; the
\* rest of msg only when all is.
Accepts(buf) ==
  /\ buf # <<>> /\ Sum(buf) = 255
  /\ buf[1] < MSG_NBR /\ Len(buf) = MessageSize(buf[1])

Parsed(buf, msg) ==
  IF Accepts(buf)
  THEN [type |-> buf[1], payload |-> SubSeq(buf, 2, Len(buf) - 1)]
  ELSE IF buf # <<>> /\ Sum(buf) = 255 THEN [msg EXCEPT !.type = buf[1]] ELSE msg

NEWLINE         == 10
CARRIAGE_RETURN == 13

\* What a read delivers of a byte.  set_interface_attribs clears IGNBRK, IXON,
\* IXOFF and IXANY only, so the port may still have ICRNL.
Delivered(b, icrnl) == IF icrnl /\ b = CARRIAGE_RETURN THEN NEWLINE ELSE b

DeliveredAll(bytes, icrnl) == [i \in 1 .. Len(bytes) |-> Delivered(bytes[i], icrnl)]
=============================================================================
