----------------------------- MODULE FwMessages -----------------------------
(***************************************************************************)
(* The codec of the board's firmware, CV10/messages.cpp: an earlier        *)
(* protocol than that of messages.c, with other numbers for the types, no  *)
(* SET_COMPUTE, and 16-bit fields sent with the high byte first.           *)
(***************************************************************************)
EXTENDS Integers, Sequences

Byte   == 0 .. 255
UINT16_MAX == 65535
Word16 == 0 .. UINT16_MAX

MSG_OK           == 0
MSG_ERROR        == 1
MSG_ABORT        == 2
MSG_DONE         == 3
MSG_GET_VERSION  == 4
MSG_VERSION      == 5
MSG_STARTUP      == 6
MSG_COMPUTE      == 7
MSG_COMPUTE_DATA == 8
MSG_NBR          == 9
KnownType        == 0 .. MSG_NBR - 1

STARTUP_MSG_LEN == 9
VersionLen      == 3   \* major, minor, patch

\* get_message_size, for the types it knows.
MessageSize(type) ==
  CASE type = MSG_STARTUP      -> 2 + STARTUP_MSG_LEN
    [] type = MSG_VERSION      -> 2 + VersionLen
    [] type = MSG_COMPUTE      -> 6
    [] type = MSG_COMPUTE_DATA -> 7
    [] OTHER                   -> 2

Sum(buf) == LET s[k \in 0 .. Len(buf)] == IF k = 0 THEN 0 ELSE (s[k - 1] + buf[k]) % 256
            IN  s[Len(buf)]

Hi(w) == w \div 256
Lo(w) == w % 256

Word(hi, lo) == hi * 256 + lo

\* fill_message_buf: a message is its type and its fields, of which those of
\* COMPUTE and the first two of COMPUTE_DATA are words.
Payload(msg) ==
  LET f == msg.fields
  IN  CASE msg.type = MSG_COMPUTE -> <<Hi(f[1]), Lo(f[1]), Hi(f[2]), Lo(f[2])>>
        [] msg.type = MSG_COMPUTE_DATA -> <<Hi(f[1]), Lo(f[1]), Hi(f[2]), Lo(f[2]), f[3]>>
        [] OTHER -> f

Fill(msg) == LET body == <<msg.type>> \o Payload(msg)
             IN  Append(body, 255 - Sum(body))

\* parse_message_buf: whether it accepts the buffer, and the fields it finds.
Accepts(buf) == /\ buf # <<>> /\ Sum(buf) = 255
                /\ buf[1] < MSG_NBR /\ Len(buf) = MessageSize(buf[1])

Fields(buf) ==
  LET p == SubSeq(buf, 2, Len(buf) - 1)
  IN  CASE buf[1] = MSG_COMPUTE -> <<Word(p[1], p[2]), Word(p[3], p[4])>>
        [] buf[1] = MSG_COMPUTE_DATA -> <<Word(p[1], p[2]), Word(p[3], p[4]), p[5]>>
        [] OTHER -> p
=============================================================================
