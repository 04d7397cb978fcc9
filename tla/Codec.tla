------------------------------- MODULE Codec -------------------------------
(***************************************************************************)
(* A message on its way to the host, through the codec of messages.c and   *)
(* the serial port: filled into a buffer, damaged on the line or not, read *)
(* from a port set up as the module Port has it, and parsed.               *)
(***************************************************************************)
EXTENDS Messages, Port

CONSTANTS Sample,    \* the messages sent
          Damage     \* the values a damaged byte can take

ASSUME SampleAssumption ==
  \A m \in Sample : /\ m \in [type : KnownType, payload : Seq(Byte)]
                     /\ Len(m.payload) = PayloadSize(m.type)
ASSUME DamageAssumption == Damage \subseteq Byte

VARIABLES msg, buf, state, damaged, out
cvars == <<msg, buf, state, damaged, out>>

CodecInit == /\ PortInit
             /\ msg \in Sample /\ buf = <<>>
             /\ state = "new" /\ damaged = {}
             /\ out = [type |-> MSG_NBR, payload |-> <<>>]

\* A port that waits for the ends of lines delivers nothing here.
FillBuf == /\ state = "new" /\ at = "ready" /\ ~tty.icanon
           /\ buf' = Fill(msg)
           /\ state' = "filled"
           /\ UNCHANGED <<pvars, msg, damaged, out>>

\* The line changes a byte, at most two of them.
DamageByte(i, b) == /\ state = "filled" /\ buf[i] # b
                    /\ damaged = {} \/ \E j \in 1 .. i - 1 : damaged = {j}
                    /\ buf' = [buf EXCEPT ![i] = b]
                    /\ damaged' = damaged \cup {i}
                    /\ UNCHANGED <<pvars, msg, state, out>>

\* The line loses a byte.
LoseByte(i) == /\ state = "filled" /\ damaged = {}
               /\ buf' = SubSeq(buf, 1, i - 1) \o SubSeq(buf, i + 1, Len(buf))
               /\ state' = "cut"
               /\ UNCHANGED <<pvars, msg, damaged, out>>

\* What the port makes of the bytes.
Read(bytes) == DeliveredAll(bytes, tty.icrnl)

ParseBuf == /\ state \in {"filled", "cut"}
            /\ buf' = Read(buf)
            /\ out' = Parsed(buf', out)
            /\ state' = IF Accepts(buf') THEN "accepted" ELSE "refused"
            /\ UNCHANGED <<pvars, msg, damaged>>

CodecNext == \/ PortNext /\ UNCHANGED cvars
             \/ FillBuf
             \/ \E i \in 1 .. Len(buf) : (\E b \in Damage : DamageByte(i, b)) \/ LoseByte(i)
             \/ ParseBuf

CodecSpec == CodecInit /\ [][CodecNext]_<<pvars, cvars>>

-----------------------------------------------------------------------------
\* Every variable keeps its type.
CodecTypeOK == /\ PortTypeOK
               /\ msg \in Sample
               /\ \A i \in 1 .. Len(buf) : buf[i] \in Byte
               /\ state \in {"new", "filled", "cut", "accepted", "refused"}

\* parse_message_buf undoes fill_message_buf, and both agree with
\* get_message_size on how long the message is.  But set_interface_attribs
\* leaves ICRNL as it was, so a message that holds a carriage return may be
\* read with another byte: it is refused then, never misread.
RoundTrip ==
  damaged = {} /\ Len(buf) = Len(Fill(msg)) /\ state \in {"accepted", "refused"} =>
    \/ buf = Fill(msg) /\ Len(buf) = MessageSize(msg.type) /\ state = "accepted" /\ out = msg
    \/ buf # Fill(msg) /\ state = "refused"

\* One changed byte is always noticed; and so are more, unless they cancel out.
DamageNoticed ==
  state = "accepted" /\ Len(buf) = Len(Fill(msg)) =>
    /\ Sum(buf) = Sum(Fill(msg))
    /\ \A i \in 1 .. Len(buf) : {j \in 1 .. Len(buf) : buf[j] # Fill(msg)[j]} # {i}

\* Nothing is accepted but what fill_message_buf makes.
OnlyFilledAccepted == state = "accepted" => buf = Fill(out)
=============================================================================
