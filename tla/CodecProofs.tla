---------------------------- MODULE CodecProofs ----------------------------
(***************************************************************************)
(* The three ways to set up the serial port, whatever settings it had and  *)
(* whichever calls fail; and the codec, for any messages, damaged in any   *)
(* way.                                                                    *)
(***************************************************************************)
EXTENDS Codec, MessagesProofs

-----------------------------------------------------------------------------
(* The port.                                                               *)

\* While no call has failed the first tcsetattr, the third call, is enough;
\* main_thread's set_blocking leaves what set_interface_attribs did.
SetUpInv ==
  /\ PortTypeOK
  /\ at \in {"opened", "attribs"} => user = "main_thread"
  /\ user = "main_thread" => calls = 0
  /\ user # "main_thread" /\ openOK /\ calls >= 3 => at = "aborted" \/ tty = Term
  /\ user = "CV09" /\ at = "ready" => openOK
  /\ user = "serial_open" => openOK
  /\ user # "main_thread" /\ at = "ready" => calls = 6
  /\ at = "attribs" /\ openOK => ~tty.icanon /\ tty.vmin = 0 /\ tty.vtime = 5
  /\ ReadyIsSet

LEMMA Recorded ==
  ASSUME NEW vmin \in Nat, NEW vtime \in Nat, tty \in Settings
  PROVE  /\ Raw(vmin, vtime) \in Settings
         /\ Term \in Settings
         /\ [tty EXCEPT !.vmin = 0, !.vtime = 5] \in Settings
         /\ [tty EXCEPT !.icanon = FALSE, !.vmin = 0, !.vtime = 5] \in Settings
  BY DEF Settings, Raw, Term

LEMMA SixCalls == Len(Calls) = 6 /\ \A n \in 0 .. 5 : n = 2 => Calls[n + 1] = "tcsetattr"
  BY DEF Calls

LEMMA InitSetUpInv == PortInit => SetUpInv
<1> SUFFICES ASSUME PortInit PROVE SetUpInv
  OBVIOUS
<1>1. tty \in Settings
  <2>1. Cooked \in Settings /\ \A m, t \in Nat : Raw(m, t) \in Settings
    BY DEF Settings, Cooked, Raw
  <2>2. \A icrnl, icanon \in BOOLEAN : LeftTimed(icrnl, icanon) \in Settings
    BY DEF Settings, LeftTimed
  <2>3. tty \in Found
    BY DEF PortInit
  <2>4. CASE tty \in {Cooked, Raw(1, 0), Raw(0, 2)}
    BY <2>1, <2>4
  <2>5. CASE tty \in {LeftTimed(TRUE, TRUE), LeftTimed(TRUE, FALSE), LeftTimed(FALSE, FALSE)}
    BY <2>2, <2>5
  <2>6. QED
    BY <2>3, <2>4, <2>5 DEF Found
<1>2. QED
  BY <1>1, SixCalls DEF PortInit, SetUpInv, PortTypeOK, ReadyIsSet, Users

LEMMA NextSetUpInv == SetUpInv /\ [PortNext]_pvars => SetUpInv'
<1> SUFFICES ASSUME SetUpInv, [PortNext]_pvars PROVE SetUpInv'
  OBVIOUS
<1> USE SixCalls DEF SetUpInv, PortTypeOK, ReadyIsSet, Users
<1>1. CASE UNCHANGED pvars
  BY <1>1 DEF pvars, Term
<1>2. ASSUME NEW works \in BOOLEAN, Opened(works) PROVE SetUpInv'
  BY <1>2 DEF Opened
<1>3. ASSUME NEW works \in BOOLEAN, set_interface_attribs(works) PROVE SetUpInv'
  <2>1. tty' \in Settings /\ (works => ~tty'.icanon /\ tty'.vmin = 0 /\ tty'.vtime = 5)
    BY <1>3, Recorded DEF set_interface_attribs, Settings
  <2>2. QED
    BY <1>3, <2>1 DEF set_interface_attribs
<1>4. ASSUME NEW works \in BOOLEAN, set_blocking(works) PROVE SetUpInv'
  <2>1. tty' \in Settings /\ (~tty.icanon /\ tty.vmin = 0 /\ tty.vtime = 5 => ~tty'.icanon /\ tty'.vmin = 0 /\ tty'.vtime = 5)
    BY <1>4, Recorded DEF set_blocking, Settings
  <2>2. QED
    BY <1>4, <2>1 DEF set_blocking
<1>5. ASSUME NEW works \in BOOLEAN, AssertCall(works) \/ LabCall(works) PROVE SetUpInv'
  <2>1. tty' \in Settings /\ Term' = Term
    BY <1>5, Recorded DEF AssertCall, LabCall, Term
  <2>2. CASE calls >= 3
    <3>1. openOK' => tty' = Term \/ at' = "aborted"
      BY <1>5, <2>2 DEF AssertCall, LabCall
    <3>2. QED
      BY <1>5, <2>1, <2>2, <3>1 DEF AssertCall, LabCall
  <2>3. CASE calls = 2
    <3>1. Call("tcsetattr")
      BY <2>3 DEF Call
    <3>2. openOK' => tty' = Term \/ at' = "aborted"
      BY <1>5, <3>1 DEF AssertCall, LabCall
    <3>3. QED
      BY <1>5, <2>1, <2>3, <3>2 DEF AssertCall, LabCall
  <2>4. CASE calls < 2
    BY <1>5, <2>1, <2>4 DEF AssertCall, LabCall
  <2>5. QED
    BY <2>2, <2>3, <2>4
<1>6. ASSUME NEW works \in BOOLEAN, Return(works) PROVE SetUpInv'
  <2>1. user # "main_thread" \/ at' = at
    BY <1>6 DEF Return
  <2>2. QED
    BY <1>6, <2>1 DEF Return, Term
<1>7. QED
  BY <1>1, <1>2, <1>3, <1>4, <1>5, <1>6 DEF PortNext

\* Whatever the port was set to and whichever calls failed, serial_open hands
\* out no descriptor of a port that is not set as it wants.
THEOREM ReadyPortIsSet == PortSpec => []ReadyIsSet
<1>1. SetUpInv => ReadyIsSet
  BY DEF SetUpInv
<1>2. QED
  BY <1>1, InitSetUpInv, NextSetUpInv, PTL DEF PortSpec

-----------------------------------------------------------------------------
(* The message on its way.                                                 *)

CodecInv ==
  /\ SetUpInv
  /\ msg \in Sample /\ buf \in Seq(Byte)
  /\ state \in {"new", "filled", "cut", "accepted", "refused"}
  /\ state = "filled" => Len(buf) = Len(Fill(msg)) /\ (damaged = {} => buf = Fill(msg))
  /\ state = "cut" => Len(buf) = Len(Fill(msg)) - 1
  /\ state = "accepted" => Accepts(buf) /\ out = [type |-> buf[1], payload |-> SubSeq(buf, 2, Len(buf) - 1)]
  /\ RoundTrip

LEMMA SampleFacts ==
  ASSUME NEW m \in Sample
  PROVE  /\ m \in Filling /\ Len(m.payload) = PayloadSize(m.type)
         /\ Fill(m) \in Seq(Byte) /\ Sum(Fill(m)) = 255
         /\ Len(Fill(m)) = MessageSize(m.type) /\ Len(Fill(m)) \in Nat /\ Len(Fill(m)) <= Short
<1>1. m \in Filling /\ Len(m.payload) = PayloadSize(m.type)
  BY SampleAssumption DEF Filling
<1>2. Fill(m) \in Seq(Byte) /\ Sum(Fill(m)) = 255
  BY <1>1, FillFacts
<1>3. Len(Fill(m)) = MessageSize(m.type)
  BY <1>1, FilledIsAccepted
<1>4. m.type \in KnownType
  BY <1>1 DEF Filling
<1>5. Len(Fill(m)) \in 2 .. Short
  BY <1>3, <1>4, MessagesAreShort
<1>6. \A n \in 2 .. Short : n \in Nat /\ n <= Short
  BY DEF Short
<1>7. QED
  BY <1>1, <1>2, <1>3, <1>5, <1>6

LEMMA InitCodecInv == CodecInit => CodecInv
  BY InitSetUpInv DEF CodecInit, CodecInv, RoundTrip

LEMMA FillBufCodecInv == CodecInv /\ FillBuf => CodecInv'
<1> SUFFICES ASSUME CodecInv, FillBuf PROVE CodecInv'
  OBVIOUS
<1>1. SetUpInv'
  BY DEF CodecInv, FillBuf, pvars, SetUpInv, PortTypeOK, ReadyIsSet, Term
<1>2. Fill(msg) \in Seq(Byte)
  BY SampleFacts DEF CodecInv
<1>3. QED
  BY <1>1, <1>2 DEF CodecInv, FillBuf, RoundTrip

LEMMA DamageByteCodecInv ==
  ASSUME CodecInv, NEW i \in 1 .. Len(buf), NEW b \in Damage, DamageByte(i, b)
  PROVE  CodecInv'
<1>1. SetUpInv'
  BY DEF CodecInv, DamageByte, pvars, SetUpInv, PortTypeOK, ReadyIsSet, Term
<1>2. buf' \in Seq(Byte) /\ Len(buf') = Len(buf)
  <2>1. b \in Byte /\ buf \in Seq(Byte) /\ buf' = [buf EXCEPT ![i] = b]
    BY DamageAssumption DEF CodecInv, DamageByte
  <2>2. QED
    BY <2>1, ExceptSeq
<1>3. damaged' # {}
  BY DEF DamageByte
<1>4. QED
  BY <1>1, <1>2, <1>3 DEF CodecInv, DamageByte, RoundTrip

LEMMA LoseByteCodecInv ==
  ASSUME CodecInv, NEW i \in 1 .. Len(buf), LoseByte(i)
  PROVE  CodecInv'
<1>1. SetUpInv'
  BY DEF CodecInv, LoseByte, pvars, SetUpInv, PortTypeOK, ReadyIsSet, Term
<1>2. buf' \in Seq(Byte) /\ Len(buf') = Len(buf) - 1
  <2>1. /\ buf \in Seq(Byte) /\ Len(buf) \in Nat /\ i \in Nat /\ 1 <= i /\ i <= Len(buf)
        /\ \A j \in 1 .. Len(buf) : buf[j] \in Byte
    BY DEF CodecInv
  <2> DEFINE before == SubSeq(buf, 1, i - 1)
             after == SubSeq(buf, i + 1, Len(buf))
  <2>2. before \in Seq(Byte) /\ Len(before) = i - 1
    <3>1. \A j \in 1 .. i - 1 : buf[j] \in Byte
      BY <2>1
    <3>2. QED
      BY <2>1, <3>1, SubSeqProperties
  <2>3. after \in Seq(Byte) /\ Len(after) = Len(buf) - i
    <3>1. \A j \in i + 1 .. Len(buf) : buf[j] \in Byte
      BY <2>1
    <3>2. QED
      BY <2>1, <3>1, SubSeqProperties
  <2>4. buf' = before \o after
    BY DEF LoseByte
  <2> HIDE DEF before, after
  <2>5. QED
    BY <2>1, <2>2, <2>3, <2>4, ConcatProperties
<1>3. QED
  BY <1>1, <1>2 DEF CodecInv, LoseByte, RoundTrip

LEMMA ParseBufCodecInv == CodecInv /\ ParseBuf => CodecInv'
<1> SUFFICES ASSUME CodecInv, ParseBuf PROVE CodecInv'
  OBVIOUS
<1>1. SetUpInv'
  BY DEF CodecInv, ParseBuf, pvars, SetUpInv, PortTypeOK, ReadyIsSet, Term
<1>2. /\ buf \in Seq(Byte) /\ buf' = Read(buf) /\ buf' \in Seq(Byte) /\ Len(buf') = Len(buf)
      /\ msg' = msg /\ msg \in Sample /\ damaged' = damaged
  BY DeliveredFacts DEF CodecInv, ParseBuf, SetUpInv, PortTypeOK, Settings, Read
<1>3. /\ state' = IF Accepts(buf') THEN "accepted" ELSE "refused"
      /\ out' = Parsed(buf', out)
  BY DEF ParseBuf
<1>4. state' = "accepted" => out' = [type |-> buf'[1], payload |-> SubSeq(buf', 2, Len(buf') - 1)]
  BY <1>3 DEF Parsed
<1>5. ASSUME damaged' = {}, Len(buf') = Len(Fill(msg))
      PROVE  \/ buf' = Fill(msg) /\ Len(buf') = MessageSize(msg.type) /\ state' = "accepted" /\ out' = msg
             \/ buf' # Fill(msg) /\ state' = "refused"
  <2>1. buf = Fill(msg)
    <3>1. state \in {"filled", "cut"} /\ Len(Fill(msg)) \in Nat
      BY <1>2, SampleFacts DEF ParseBuf
    <3>2. state # "cut"
      BY <1>2, <1>5, <3>1 DEF CodecInv
    <3>3. QED
      BY <1>2, <1>5, <3>1, <3>2 DEF CodecInv
  <2>2. CASE buf' = buf
    <3>1. Accepts(buf') /\ Parsed(buf', out) = msg /\ Len(buf') = MessageSize(msg.type)
      BY <1>2, <2>1, <2>2, SampleFacts, FilledIsAccepted
    <3>2. QED
      BY <1>3, <2>1, <2>2, <3>1
  <2>3. CASE buf' # buf
    <3>1. Len(buf) <= Short /\ Sum(buf) = 255
      BY <1>2, <2>1, SampleFacts
    <3>2. Sum(buf') # 255
      <4> DEFINE c == tty.icrnl
      <4>1. buf' = DeliveredAll(buf, c) /\ c \in BOOLEAN /\ buf \in Seq(Byte)
        BY <1>2 DEF Read, CodecInv, SetUpInv, PortTypeOK, Settings
      <4> HIDE DEF c
      <4>2. QED
        BY <2>3, <3>1, <4>1, DeliveryIsNoticed
    <3>3. QED
      BY <1>3, <2>1, <2>3, <3>2 DEF Accepts
  <2>4. QED
    BY <2>2, <2>3
<1>6. RoundTrip'
  BY <1>2, <1>5 DEF RoundTrip
<1>7. QED
  BY <1>1, <1>2, <1>3, <1>4, <1>6 DEF CodecInv

LEMMA NextCodecInv == CodecInv /\ [CodecNext]_<<pvars, cvars>> => CodecInv'
<1> SUFFICES ASSUME CodecInv, [CodecNext]_<<pvars, cvars>> PROVE CodecInv'
  OBVIOUS
<1>1. CASE [PortNext]_pvars /\ UNCHANGED cvars
  BY <1>1, NextSetUpInv DEF CodecInv, cvars, RoundTrip
<1>2. CASE FillBuf
  BY <1>2, FillBufCodecInv
<1>3. ASSUME NEW i \in 1 .. Len(buf), NEW b \in Damage, DamageByte(i, b) PROVE CodecInv'
  BY <1>3, DamageByteCodecInv
<1>4. ASSUME NEW i \in 1 .. Len(buf), LoseByte(i) PROVE CodecInv'
  BY <1>4, LoseByteCodecInv
<1>5. CASE ParseBuf
  BY <1>5, ParseBufCodecInv
<1>6. QED
  BY <1>1, <1>2, <1>3, <1>4, <1>5 DEF CodecNext

\* Every variable of the codec keeps its type.
THEOREM CodecKeepsTypes == CodecSpec => []CodecTypeOK
<1>1. CodecInv => CodecTypeOK
  BY DEF CodecInv, CodecTypeOK, SetUpInv
<1>2. QED
  BY <1>1, InitCodecInv, NextCodecInv, PTL DEF CodecSpec

\* parse_message_buf undoes fill_message_buf for every message, and a message
\* that the port reads with newlines for its carriage returns is refused: the
\* sum is less by 3 for each of them, and no message has room for 256.
THEOREM RoundTripHolds == CodecSpec => []RoundTrip
<1>1. CodecInv => RoundTrip
  BY DEF CodecInv
<1>2. QED
  BY <1>1, InitCodecInv, NextCodecInv, PTL DEF CodecSpec

\* A message in which one byte changed on the line is never accepted, whatever
\* the byte was changed to.
THEOREM DamageIsNoticed == CodecSpec => []DamageNoticed
<1>1. CodecInv => DamageNoticed
  <2> SUFFICES ASSUME CodecInv, state = "accepted", Len(buf) = Len(Fill(msg))
               PROVE  /\ Sum(buf) = Sum(Fill(msg))
                      /\ \A i \in 1 .. Len(buf) : {j \in 1 .. Len(buf) : buf[j] # Fill(msg)[j]} # {i}
    BY DEF DamageNoticed
  <2>1. buf \in Seq(Byte) /\ Fill(msg) \in Seq(Byte) /\ Sum(Fill(msg)) = 255 /\ Sum(buf) = 255
    BY SampleFacts DEF CodecInv, Accepts
  <2>2. ASSUME NEW i \in 1 .. Len(buf), {j \in 1 .. Len(buf) : buf[j] # Fill(msg)[j]} = {i}
        PROVE  FALSE
    <3>1. buf[i] # Fill(msg)[i] /\ \A j \in 1 .. Len(buf) : j # i => buf[j] = Fill(msg)[j]
      BY <2>2
    <3>2. QED
      BY <2>1, <3>1, OneByteMatters
  <2>3. QED
    BY <2>1, <2>2
<1>2. QED
  BY <1>1, InitCodecInv, NextCodecInv, PTL DEF CodecSpec

\* Whatever the line delivers, what parse_message_buf accepts is what
\* fill_message_buf makes of the message it hands out.
THEOREM AcceptsOnlyFilled == CodecSpec => []OnlyFilledAccepted
<1>1. CodecInv => OnlyFilledAccepted
  BY AcceptedIsFilled DEF CodecInv, OnlyFilledAccepted
<1>2. QED
  BY <1>1, InitCodecInv, NextCodecInv, PTL DEF CodecSpec
=============================================================================
